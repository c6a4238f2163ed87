----------------------------- MODULE DesktopParts -----------------------------
(***************************************************************************)
(* The parts of the desktop application that hold no durable Task or       *)
(* Session state of their own.  They do not act on each other's variables, *)
(* so each is explored by itself: a behaviour is one of the part that the  *)
(* initial state takes, whose variables stand in v1, v2, ...; the others   *)
(* stay None.  Desktop, DesktopPanes, DesktopGit and DesktopServices have  *)
(* parts of which something is proved, MCDesktop has them all.             *)
(***************************************************************************)
EXTENDS Integers, Sequences, TLC

CONSTANTS
  Parts,        \* the parts to explore
  None

\* A revision, a layout and a Pull Request are numbers.
ASSUME NoneIsNoNumber == None \notin Nat

VARIABLES part, v1, v2, v3, v4, v5, v6, v7, v8, v9, v10, v11, v12, v13, v14

desktopVars == <<part, v1, v2, v3, v4, v5, v6, v7, v8, v9, v10, v11, v12, v13, v14>>

\* A part that has n variables leaves the others None.
Rest14 == v14 = None
Rest13 == v13 = None /\ Rest14
Rest12 == v12 = None /\ Rest13
Rest11 == v11 = None /\ Rest12
Rest10 == v10 = None /\ Rest11
Rest9 == v9 = None /\ Rest10
Rest8 == v8 = None /\ Rest9
Rest7 == v7 = None /\ Rest8
Rest6 == v6 = None /\ Rest7
Rest5 == v5 = None /\ Rest6

Stays14 == UNCHANGED v14
Stays13 == UNCHANGED v13 /\ Stays14
Stays12 == UNCHANGED v12 /\ Stays13
Stays11 == UNCHANGED v11 /\ Stays12
Stays10 == UNCHANGED v10 /\ Stays11
Stays9 == UNCHANGED v9 /\ Stays10
Stays8 == UNCHANGED v8 /\ Stays9
Stays7 == UNCHANGED v7 /\ Stays8
Stays6 == UNCHANGED v6 /\ Stays7
Stays5 == UNCHANGED v5 /\ Stays6

\* A step of the part that runs.
Moves(p) == part = p /\ UNCHANGED part
=============================================================================
