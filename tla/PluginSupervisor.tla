-------------------------- MODULE PluginSupervisor --------------------------
(***************************************************************************)
(* One pluginhost.Supervisor: the Run loop that launches a plugin process, *)
(* waits for its handshake line and for its authenticated connection, lets *)
(* the Manager restore the configuration of its instances, publishes the   *)
(* session and watches the process, with the crash budget, the backoff,    *)
(* Disable, Enable, Restart and the shutdown of the host.                  *)
(*                                                                         *)
(* Interleavings kept: the loop, the callers of Disable, Enable and        *)
(* Restart, the plugin processes (which print, connect, exit and survive a *)
(* kill for a while) and the handlers of their connections all run on      *)
(* their own. Each select of the loop takes any ready branch.              *)
(*                                                                         *)
(* Data abstracted: a launch is the slot its process runs in, a slot is    *)
(* used again once nothing is left of its launch; a handshake line is what *)
(* ParseHandshake and validateHandshake make of it. What PluginManager has  *)
(* a name for is named otherwise here, so that a module can extend both.   *)
(***************************************************************************)
EXTENDS Naturals

CONSTANTS
    Slots,          \* processes that may exist at the same time
    NoProcess,      \* "no process", "no session"
    MaxRestarts,    \* Config.MaxRestarts
    MaxDoublings,   \* doublings of BaseBackoff that reach MaxBackoff
    MaxCalls        \* bound: calls of Disable, Enable and Restart

ASSUME SupervisorAssumption ==
    /\ NoProcess \notin Slots
    /\ MaxRestarts \in Nat /\ MaxDoublings \in Nat /\ MaxCalls \in Nat

VARIABLES
    \* Supervisor
    pc,         \* where Run is
    state,      \* Supervisor.state, the state that is shown
    disabled,   \* Supervisor.disabled
    wake,       \* Supervisor.wake holds a token
    restartCh,  \* Supervisor.restartCh holds a token
    halted,     \* the context of Run is done
    backoff,    \* 0: none; n: the n-th delay
    crashes, rpcConns,
    published,  \* Supervisor.session: the launch it belongs to
    \* the running pass of runOnce
    cur,        \* its process
    greeted,    \* its handshake line was accepted
    ready,      \* its session was seen established
    restoring,  \* shutdown was called because prepareSession failed
    outcome,    \* what it returns
    \* processes
    proc,       \* none, alive, killed, gone
    line,       \* the handshake line not yet read
    again,      \* a second handshake line was printed
    conn,       \* the handler of its connection
    open,       \* its listener is open
    \* history
    restored,   \* prepareSession succeeded for the launch
    calls

loopVars    == <<pc, backoff, cur, greeted, ready, restoring, outcome>>
flagVars    == <<disabled, wake, restartCh>>
processVars == <<proc, line, again, conn, open>>
supervisorVars == <<loopVars, flagVars, processVars, state, halted, crashes, rpcConns,
                    published, restored, calls>>

State == {"STOPPED", "STARTING", "HEALTHY", "DEGRADED", "CRASHED", "BACKOFF", "DISABLED"}

SupervisorInit ==
    /\ pc = "top" /\ state = "STOPPED" /\ disabled = FALSE
    /\ wake = FALSE /\ restartCh = FALSE /\ halted = FALSE
    /\ backoff = 0 /\ crashes = 0 /\ rpcConns = 0 /\ published = NoProcess
    /\ cur = NoProcess /\ greeted = FALSE /\ ready = FALSE /\ restoring = FALSE
    /\ outcome = "none"
    /\ proc = [p \in Slots |-> "none"] /\ line = [p \in Slots |-> "none"]
    /\ again = [p \in Slots |-> FALSE] /\ conn = [p \in Slots |-> "none"]
    /\ open = {} /\ restored = {} /\ calls = 0

-----------------------------------------------------------------------------
(* Callers                                                                  *)

(* Mutant: only a disable wakes the loop.                                   *)
FlagOneWay(d) ==
    /\ calls < MaxCalls /\ calls' = calls + 1
    /\ disabled' = d
    /\ wake' = (wake \/ (d /\ ~disabled))
    /\ UNCHANGED <<loopVars, processVars, restartCh, state, halted, crashes, rpcConns,
                   published, restored>>

Flag(d) ==
    /\ calls < MaxCalls /\ calls' = calls + 1
    /\ disabled' = d
    /\ wake' = (wake \/ disabled # d)
    /\ UNCHANGED <<loopVars, processVars, restartCh, state, halted, crashes, rpcConns,
                   published, restored>>

Disable == Flag(TRUE)
Enable  == Flag(FALSE)

RestartPlugin ==
    /\ calls < MaxCalls /\ calls' = calls + 1
    /\ restartCh' = TRUE
    /\ UNCHANGED <<loopVars, processVars, disabled, wake, state, halted, crashes, rpcConns,
                   published, restored>>

Cancel ==
    /\ ~halted /\ halted' = TRUE
    /\ UNCHANGED <<loopVars, flagVars, processVars, state, crashes, rpcConns, published,
                   restored, calls>>

-----------------------------------------------------------------------------
(* Plugin processes and the handlers of their connections                   *)

ProcessStep ==
    UNCHANGED <<loopVars, flagVars, state, halted, crashes, published, restored, calls>>

(* What ParseHandshake and validateHandshake make of a line.                *)
Verdict == {"valid", "invalid"}

(* readStdout: the first line is the handshake, a later one that looks like *)
(* one is a violation.                                                      *)
PrintLine(p) ==
    /\ proc[p] = "alive" /\ p = cur
    /\ \/ /\ line[p] = "none"
          /\ \E verdict \in Verdict : line' = [line EXCEPT ![p] = verdict]
          /\ UNCHANGED again
       \/ /\ line[p] # "none"
          /\ again' = [again EXCEPT ![p] = TRUE]
          /\ UNCHANGED line
    /\ ProcessStep /\ UNCHANGED <<proc, conn, open, rpcConns>>

(* serveConn and tryEstablish: the connection proved its launch and is the  *)
(* first one.                                                               *)
Establish(p) ==
    /\ proc[p] = "alive" /\ p \in open /\ conn[p] = "none"
    /\ conn' = [conn EXCEPT ![p] = "established"]
    /\ ProcessStep /\ UNCHANGED <<proc, line, again, open, rpcConns>>

(* onEstablished runs before the session is announced; nobody waits for the *)
(* handlers of a launch that is over.                                       *)
Count(p) ==
    /\ conn[p] = "established"
    /\ rpcConns' = rpcConns + 1
    /\ conn' = [conn EXCEPT ![p] = "counted"]
    /\ ProcessStep /\ UNCHANGED <<proc, line, again, open>>

Announce(p) ==
    /\ conn[p] = "counted"
    /\ conn' = [conn EXCEPT ![p] = IF p \in open THEN "announced" ELSE "none"]
    /\ ProcessStep /\ UNCHANGED <<proc, line, again, open, rpcConns>>

Exit(p) ==
    /\ proc[p] \in {"alive", "killed"}
    /\ proc' = [proc EXCEPT ![p] = "gone"]
    /\ ProcessStep /\ UNCHANGED <<line, again, conn, open, rpcConns>>

-----------------------------------------------------------------------------
(* The loop of Run                                                          *)

(* Mutant: the process is left running.                                     *)
KilledNever == proc
Killed == [proc EXCEPT ![cur] = IF @ = "alive" THEN "killed" ELSE @]

(* What is left of a launch: its process and the handler of its connection. *)
Free(p) == proc[p] \in {"none", "gone"} /\ conn[p] = "none" /\ p \notin open

Alone == UNCHANGED <<halted, calls>>
Stay == UNCHANGED <<backoff, cur, restoring, outcome>>
Quiet == Alone /\ UNCHANGED <<processVars, rpcConns>>

Top ==
    /\ pc = "top"
    /\ IF halted THEN pc' = "returned" /\ UNCHANGED state
       ELSE IF disabled THEN pc' = "parked" /\ state' = "DISABLED"
       ELSE IF backoff > 0 THEN pc' = "backoff" /\ state' = "BACKOFF"
       ELSE pc' = "launch" /\ UNCHANGED state
    /\ Stay /\ Quiet /\ UNCHANGED <<flagVars, greeted, ready, crashes, published, restored>>

(* waitEnabled.                                                             *)
Parked ==
    /\ pc = "parked"
    /\ \/ /\ halted /\ pc' = "returned"
          /\ UNCHANGED <<flagVars, state, backoff, crashes>>
       \/ /\ wake /\ wake' = FALSE /\ disabled
          /\ UNCHANGED <<pc, disabled, restartCh, state, backoff, crashes>>
       \/ /\ wake /\ wake' = FALSE /\ ~disabled
          /\ pc' = "top" /\ state' = "STOPPED" /\ backoff' = 0 /\ crashes' = 0
          /\ UNCHANGED <<disabled, restartCh>>
       \/ /\ restartCh /\ restartCh' = FALSE
          /\ UNCHANGED <<pc, disabled, wake, state, backoff, crashes>>
    /\ Quiet /\ UNCHANGED <<cur, greeted, ready, restoring, outcome, published, restored>>

(* waitBackoff: interrupted only by a disable or the end of the host.       *)
Backoff ==
    /\ pc = "backoff"
    /\ \/ halted /\ pc' = "returned" /\ UNCHANGED flagVars
       \/ /\ wake /\ wake' = FALSE
          /\ pc' = IF disabled THEN "top" ELSE pc
          /\ UNCHANGED <<disabled, restartCh>>
       \/ restartCh /\ restartCh' = FALSE /\ UNCHANGED <<pc, disabled, wake>>
       \/ pc' = "launch" /\ UNCHANGED flagVars
    /\ Stay /\ Quiet /\ UNCHANGED <<greeted, ready, state, crashes, published, restored>>

-----------------------------------------------------------------------------
(* runOnce                                                                  *)

Launch ==
    /\ pc = "launch" /\ pc' = "starting" /\ state' = "STARTING"
    /\ Stay /\ Quiet /\ UNCHANGED <<flagVars, greeted, ready, crashes, published, restored>>

(* The endpoint, the listener or the process cannot be created, or all are: *)
(* the count of connections starts anew with the listener.                  *)
Start ==
    /\ pc = "starting"
    /\ \/ /\ state' = "CRASHED" /\ pc' = "return" /\ outcome' = "crashed"
          /\ rpcConns' \in {rpcConns, 0}
          /\ UNCHANGED <<cur, processVars>>
       \/ \E p \in Slots :
            /\ Free(p)
            /\ cur' = p /\ pc' = "handshake" /\ rpcConns' = 0
            /\ proc' = [proc EXCEPT ![p] = "alive"]
            /\ open' = {p}
            /\ UNCHANGED <<line, again, conn, state, outcome>>
    /\ Alone
    /\ UNCHANGED <<flagVars, backoff, greeted, ready, restoring, crashes, published, restored>>

(* runOnce gives up: the process is killed if it runs, the state is shown, *)
(* the deferred calls follow.                                               *)
GiveUp(shown, result) ==
    /\ proc' = Killed
    /\ state' = shown /\ pc' = "return" /\ outcome' = result
    /\ UNCHANGED <<line, again, conn, open, backoff, cur, restoring>>

Working == UNCHANGED <<processVars, state, pc, outcome, backoff, cur, restoring>>

(* Mutant: the token is taken, the flag is not read.                        *)
TakeWakeBlind == wake /\ wake' = FALSE /\ UNCHANGED <<disabled, restartCh>> /\ Working

(* A token of wake is taken: the process stops only if the plugin is still  *)
(* disabled.                                                                *)
TakeWake ==
    /\ wake /\ wake' = FALSE /\ UNCHANGED <<disabled, restartCh>>
    /\ IF disabled THEN GiveUp("DISABLED", "disabled") ELSE Working

BeginShutdown(failed) ==
    /\ pc' = "asking" /\ restoring' = failed
    /\ UNCHANGED <<processVars, state, outcome, backoff, cur>>

(* Mutant: the line suffices, nobody waits for the connection.              *)
CompleteOnLine == greeted
Complete == greeted /\ ready

Handshake ==
    /\ pc = "handshake"
    /\ \/ /\ line[cur] = "valid" /\ ~greeted /\ greeted' = TRUE
          /\ Working /\ UNCHANGED <<flagVars, ready>>
       \/ /\ line[cur] = "invalid" /\ GiveUp("CRASHED", "crashed")
          /\ UNCHANGED <<flagVars, greeted, ready>>
       \/ /\ conn[cur] = "announced" /\ ~ready /\ ready' = TRUE
          /\ Working /\ UNCHANGED <<flagVars, greeted>>
       \/ /\ Complete /\ pc' = "prepare" /\ greeted' = FALSE /\ ready' = FALSE
          /\ UNCHANGED <<processVars, state, outcome, backoff, cur, restoring, flagVars>>
       \/ /\ ~Complete    \* the timer, the listener or the process ended
          /\ GiveUp("CRASHED", "crashed") /\ UNCHANGED <<flagVars, greeted, ready>>
       \/ ~Complete /\ TakeWake /\ UNCHANGED <<greeted, ready>>
       \/ /\ ~Complete /\ restartCh /\ restartCh' = FALSE
          /\ Working /\ UNCHANGED <<disabled, wake, greeted, ready>>
       \/ /\ ~Complete /\ halted
          /\ BeginShutdown(FALSE) /\ UNCHANGED <<flagVars, greeted, ready>>
    /\ Alone /\ UNCHANGED <<crashes, rpcConns, published, restored>>

(* prepareSession, then the session is published; nothing else is read      *)
(* meanwhile. A failed restoration stops the process as a shutdown does.    *)
Prepare ==
    /\ pc = "prepare"
    /\ \/ /\ proc[cur] = "alive" /\ restored' = restored \cup {cur}
          /\ pc' = "publish"
          /\ UNCHANGED <<processVars, state, outcome, backoff, cur, restoring>>
       \/ BeginShutdown(TRUE) /\ UNCHANGED restored
    /\ Alone /\ UNCHANGED <<flagVars, greeted, ready, crashes, rpcConns, published>>

PublishSession ==
    /\ pc = "publish" /\ pc' = "monitor"
    /\ published' = cur /\ state' = "HEALTHY"
    /\ Stay /\ Quiet /\ UNCHANGED <<flagVars, greeted, ready, crashes, restored>>

Show(shown) ==
    /\ state' = shown
    /\ UNCHANGED <<processVars, pc, outcome, backoff, cur, restoring>>

(* sess.health: only a live process answers that it serves.                 *)
HealthProbe ==
    /\ pc = "monitor"
    /\ \/ proc[cur] = "alive" /\ Show("HEALTHY")
       \/ Show("DEGRADED")
    /\ Alone /\ UNCHANGED <<flagVars, greeted, ready, crashes, rpcConns, published, restored>>

Duplicate ==
    /\ pc = "monitor" /\ again[cur]
    /\ state' = "DEGRADED" /\ again' = [again EXCEPT ![cur] = FALSE]
    /\ Stay /\ Alone
    /\ UNCHANGED <<flagVars, pc, greeted, ready, proc, line, conn, open, crashes, rpcConns,
                   published, restored>>

Monitor ==
    /\ pc = "monitor"
    /\ \/ proc[cur] = "gone" /\ GiveUp("CRASHED", "crashed") /\ UNCHANGED flagVars
       \/ /\ restartCh /\ restartCh' = FALSE
          /\ proc' = Killed /\ pc' = "killing"
          /\ Stay /\ UNCHANGED <<line, again, conn, open, state, disabled, wake>>
       \/ TakeWake
       \/ halted /\ BeginShutdown(FALSE) /\ UNCHANGED flagVars
    /\ Alone /\ UNCHANGED <<greeted, ready, crashes, rpcConns, published, restored>>

(* A restart waits for the killed process, but no longer than               *)
(* ShutdownTimeout.                                                         *)
Killing ==
    /\ pc = "killing"
    /\ state' = "STOPPED" /\ pc' = "return" /\ outcome' = "restart"
    /\ Quiet /\ UNCHANGED <<flagVars, backoff, cur, greeted, ready, restoring, crashes,
                            published, restored>>

-----------------------------------------------------------------------------
(* shutdown                                                                 *)

Stopped ==
    /\ proc[cur] = "gone"
    /\ state' = "STOPPED" /\ pc' = "stopped"
    /\ UNCHANGED <<processVars, flagVars>>

Shutdown ==
    /\ \/ pc \in {"asking", "signalled", "reaping"} /\ Stopped
       \/ /\ pc = "asking" /\ pc' = "signalled"      \* no answer, or no exit, in time
          /\ UNCHANGED <<processVars, flagVars, state>>
       \/ /\ pc = "signalled" /\ pc' = "reaping"     \* the timer
          /\ proc' = Killed
          /\ UNCHANGED <<line, again, conn, open, flagVars, state>>
       \/ /\ pc = "signalled" /\ wake /\ wake' = FALSE
          /\ UNCHANGED <<pc, processVars, disabled, restartCh, state>>
    /\ Stay /\ Alone /\ UNCHANGED <<greeted, ready, crashes, rpcConns, published, restored>>

(* A restoration that failed is a crash unless the host stops.              *)
AfterShutdown ==
    /\ pc = "stopped" /\ pc' = "return" /\ restoring' = FALSE
    /\ IF restoring /\ ~halted
         THEN state' = "CRASHED" /\ outcome' = "crashed"
         ELSE UNCHANGED state /\ outcome' = "shutdown"
    /\ Quiet /\ UNCHANGED <<flagVars, backoff, cur, greeted, ready, crashes, published, restored>>

-----------------------------------------------------------------------------
(* The deferred calls of runOnce, then the switch of Run on its outcome.    *)

(* What the launch kept goes with it; the handler of its connection may     *)
(* still be about to count.                                                 *)
Cleanup ==
    /\ open' = {} /\ published' = NoProcess /\ cur' = NoProcess /\ outcome' = "none"
    /\ greeted' = FALSE /\ ready' = FALSE /\ restored' = {}
    /\ line' = [p \in Slots |-> "none"] /\ again' = [p \in Slots |-> FALSE]
    /\ conn' = [p \in Slots |-> IF conn[p] = "announced" THEN "none" ELSE conn[p]]

(* nextBackoff.                                                             *)
Longer == IF backoff < MaxDoublings + 1 THEN backoff + 1 ELSE backoff

Return ==
    /\ pc = "return"
    /\ Cleanup
    /\ CASE outcome = "crashed" ->
              /\ crashes' = crashes + 1
              /\ pc' = "top"
              /\ IF crashes' > MaxRestarts THEN disabled' = TRUE /\ UNCHANGED backoff
                                           ELSE backoff' = Longer /\ UNCHANGED disabled
         [] outcome \in {"disabled", "restart"} ->
              backoff' = 0 /\ pc' = "top" /\ UNCHANGED <<crashes, disabled>>
         [] outcome = "shutdown" ->
              pc' = "returned" /\ UNCHANGED <<backoff, crashes, disabled>>
    /\ Alone /\ UNCHANGED <<wake, restartCh, proc, state, restoring, rpcConns>>

Run ==
    \/ Top \/ Parked \/ Backoff \/ Launch \/ Start \/ Handshake \/ Prepare \/ PublishSession
    \/ Monitor \/ Killing \/ Shutdown \/ AfterShutdown \/ Return

Plugin == \E p \in Slots : PrintLine(p) \/ Establish(p) \/ Count(p) \/ Announce(p) \/ Exit(p)

Done == pc = "returned" /\ UNCHANGED supervisorVars

SupervisorNext ==
    Run \/ HealthProbe \/ Duplicate \/ Plugin \/ Disable \/ Enable \/ RestartPlugin \/ Cancel \/ Done

(* The timers fire, a ready branch of a select is taken, a killed process   *)
(* is reaped and the handler of a connection runs on.                       *)
Fairness ==
    /\ WF_supervisorVars(Run)
    /\ \A p \in Slots :
         /\ WF_supervisorVars(proc[p] = "killed" /\ Exit(p))
         /\ WF_supervisorVars(Count(p)) /\ WF_supervisorVars(Announce(p))

SupervisorSpec == SupervisorInit /\ [][SupervisorNext]_supervisorVars /\ Fairness

-----------------------------------------------------------------------------
SupervisorTypeOK ==
    /\ pc \in {"top", "parked", "backoff", "launch", "starting", "handshake", "prepare",
               "publish", "monitor", "killing", "asking", "signalled", "reaping", "stopped",
               "return", "returned"}
    /\ state \in State
    /\ {disabled, wake, restartCh, halted, greeted, ready, restoring} \subseteq BOOLEAN
    /\ backoff \in 0..MaxDoublings + 1
    /\ crashes \in Nat /\ rpcConns \in Nat /\ calls \in 0..MaxCalls
    /\ {published, cur} \subseteq Slots \cup {NoProcess}
    /\ outcome \in {"none", "crashed", "disabled", "restart", "shutdown"}
    /\ proc \in [Slots -> {"none", "alive", "killed", "gone"}]
    /\ line \in [Slots -> {"none", "valid", "invalid"}]
    /\ again \in [Slots -> BOOLEAN]
    /\ conn \in [Slots -> {"none", "established", "counted", "announced"}]
    /\ open \subseteq Slots /\ restored \subseteq Slots

(* supervisor.go:363: runOnce always returns with the process dead. Between *)
(* two passes, while the plugin is parked and after Run returned, no        *)
(* process of the plugin runs that has not been killed; during a pass only  *)
(* its own one does.                                                        *)
OneLiveProcess == \A p \in Slots : proc[p] = "alive" => p = cur /\ pc # "returned"

(* session.go:57: a HEALTHY snapshot cannot report zero connections, and    *)
(* its process holds the configuration of its instances.                    *)
HealthyIsReal ==
    state = "HEALTHY" =>
        /\ published # NoProcess /\ published = cur
        /\ conn[published] = "announced" /\ rpcConns >= 1
        /\ published \in restored

(* A plugin that stays disabled ends up without a process, however the      *)
(* tokens of wake and restartCh were consumed.                              *)
DisabledStops ==
    <>[]disabled => <>[](\A p \in Slots : proc[p] \in {"none", "gone"})

(* A plugin that stays enabled is supervised again: Run does not sleep on a *)
(* lost wake-up.                                                            *)
EnabledRuns == <>[](~disabled) => <>[](pc # "parked")
=============================================================================
