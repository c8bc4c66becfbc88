----------------------------- MODULE MCLiveHub -----------------------------
(* Small instances of LiveHub for TLC. *)
EXTENDS LiveHub, TLC

CONSTANTS h1, h2, u1, u2, s1, s2

(* A user with a socket on each process. *)
MCUserOf == s1 :> u1 @@ s2 :> u2
MCHubOf == s1 :> h1 @@ s2 :> h2

(* The two sides are alike. *)
Swap == {h1 :> h2 @@ h2 :> h1 @@ u1 :> u2 @@ u2 :> u1 @@ s1 :> s2 @@ s2 :> s1}
=============================================================================
