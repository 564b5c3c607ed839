-------------------------- MODULE MCApprovalThreads --------------------------
(* Small instances of ApprovalThreads for TLC. *)
EXTENDS ThreadProperties, TLC

CONSTANTS i1, i2, i3, p1, p2, p3, p4, t1, t2

(* Two plans share a signal, one is alone, one names no signal at all. *)
Mixed == (p1 :> <<i1, i2>>) @@ (p2 :> <<i2>>) @@ (p3 :> <<i3>>) @@ (p4 :> <<>>)
Apart == (p1 :> <<i1>>) @@ (p2 :> <<i2>>)
Three == (p1 :> <<i1>>) @@ (p2 :> <<i2>>) @@ (p3 :> <<i3>>)
Alone == (p1 :> <<i1>>)

(* Request threads are interchangeable. *)
Threads == Permutations(Thread)
=============================================================================
