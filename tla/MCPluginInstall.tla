-------------------------- MODULE MCPluginInstall --------------------------
(***************************************************************************)
(* A plugin that moves from a repository of its own to a catalog, where    *)
(* another one shares the lock with it.                                    *)
(***************************************************************************)
EXTENDS PluginInstall, TLC

CONSTANTS p1, p2, r1, r2, own, catalog, alice, bob, linux, windows

MCOffers == (own :> {p1}) @@ (catalog :> {p1, p2})

MCCatalogs == {catalog}

Asset(name, platform, kind) ==
    [name |-> name, base |-> "driver", platform |-> platform, kind |-> kind]

MCAssets ==
    (own :> {Asset("driver", None, "binary"), Asset("sums", None, "checksum")})
    @@ (catalog :> {Asset("driver-linux", linux, "binary"),
                    Asset("driver-windows", windows, "binary"),
                    Asset("sums", None, "checksum")})

MCPreferred == (own :> None) @@ (catalog :> "driver")

Constraint(op, target) == [op |-> op, target |-> target]

MCCore == <<0, 2, 1>>

MCManifest ==
    [s \in Sources |-> [p \in Plugins |-> [v \in Versions |->
        [permissions |-> IF v = 1 THEN {"net"} ELSE {"net", "secret"},
         protocol |-> 1,
         core |-> IF v = 1
                  THEN {Constraint(">=", <<0, 2, 0>>), Constraint("<", <<1, 0, 0>>)}
                  ELSE {Constraint("^", <<0, 2, 1>>), Constraint("~", <<0, 2, 0>>)}]]]]

\* bound: the author rests while the second plugin is in use
Touched == {proc[r].plugin : r \in {x \in Commands : "plugin" \in DOMAIN proc[x]}}
               \cup {p \in Plugins : disk[p] # None \/ assets[p] # {}}
Resting == \A s \in Sources :
               remote[s] = [head |-> 1, release |-> 1, uploads |-> [v \in Versions |-> 0]]
Budget == p2 \notin Touched \/ Resting

Twins == Permutations(Commands)

MCMaxVersion == (own :> 2) @@ (catalog :> 1)

MCReviewed == {<<own, 1, "driver", 0>>}

\* One index knows the plugin before its move, the other after it.
MCIndex ==
    [p \in Plugins |->
        {[source |-> own, version |-> 1, tag |-> None, publisher |-> alice,
          digest |-> <<own, 1, "driver", 0>>],
         [source |-> catalog, version |-> 1, tag |-> 1, publisher |-> bob,
          digest |-> <<catalog, 1, "driver-linux", 0>>]}]

=============================================================================
