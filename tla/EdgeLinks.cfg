CONSTANTS
    Tenants = {"t1", "t2"}
    Default = "t1"
    Edges = {"e"}
    Devices = {"d1", "d2"}
    Conns = {"c1", "c2", "c3", "c4"}
    EdgeOf <- MCEdgeOf
    DevicesOf <- MCDevicesOf
    Credential <- MCCredential
    HelloTenant <- MCHelloTenant
    LegacyToken = TRUE
    AccountMode = TRUE
    Browsers = {"b2"}
    BrowserTenant <- MCBrowserTenant
    None = None
    All = All
    QueueSize = 1
    MaxReports = 1
    MaxRestarts = 1
SPECIFICATION Spec
CONSTRAINT Budget
INVARIANTS PresenceIsTrue BindingAgrees FramesStayInTenant
