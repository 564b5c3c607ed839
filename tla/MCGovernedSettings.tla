------------------------- MODULE MCGovernedSettings --------------------------
(* Small instances of GovernedSettings for TLC. *)
EXTENDS GovernedSettings, TLC

Requests == ("mode" :> {"shadow", "advisory", "live"})
              @@ ("threshold" :> {"t40", "t50", "t60", "t70", "t80", "t95"})
Legal    == ("mode" :> {"shadow", "advisory", "live"})
              @@ ("threshold" :> {"t50", "t60", "t70", "t80", "t95"})
Initial  == ("mode" :> "shadow") @@ ("threshold" :> "t70")
=============================================================================
