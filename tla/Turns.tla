------------------------------- MODULE Turns -------------------------------
(***************************************************************************)
(* Components that do not interact are checked in one run of TLC: `part`   *)
(* says which of them a behaviour is about, and the component's variables  *)
(* are v1, v2, ... for as many as it has.  The others stay Off.            *)
(***************************************************************************)
CONSTANT Off

VARIABLES part, v1, v2, v3, v4, v5, v6, v7, v8,
          v9, v10, v11, v12, v13, v14, v15, v16, v17, v18, v19, v20, v21, v22, v23

turns == <<part, v1, v2, v3, v4, v5, v6, v7, v8,
           v9, v10, v11, v12, v13, v14, v15, v16, v17, v18, v19, v20, v21, v22, v23>>

(* The variables a part of n variables does not have: they begin Off and   *)
(* do not change.                                                          *)
after20 == <<v21, v22, v23>>
after18 == <<v19, v20, after20>>
after17 == <<v18, after18>>
after16 == <<v17, after17>>
after12 == <<v13, v14, v15, v16, after16>>
after9 == <<v10, v11, v12, after12>>
after8 == <<v9, after9>>
after7 == <<v8, after8>>
after6 == <<v7, after7>>
after5 == <<v6, after6>>
after4 == <<v5, after5>>
after1 == <<v2, v3, v4, after4>>
after0 == <<v1, after1>>

Off20 == v21 = Off /\ v22 = Off /\ v23 = Off
Off18 == v19 = Off /\ v20 = Off /\ Off20
Off17 == v18 = Off /\ Off18
Off16 == v17 = Off /\ Off17
Off12 == v13 = Off /\ v14 = Off /\ v15 = Off /\ v16 = Off /\ Off16
Off9 == v10 = Off /\ v11 = Off /\ v12 = Off /\ Off12
Off8 == v9 = Off /\ Off9
Off7 == v8 = Off /\ Off8
Off6 == v7 = Off /\ Off7
Off5 == v6 = Off /\ Off6
Off4 == v5 = Off /\ Off5
Off1 == v2 = Off /\ v3 = Off /\ v4 = Off /\ Off4
Off0 == v1 = Off /\ Off1
=============================================================================
