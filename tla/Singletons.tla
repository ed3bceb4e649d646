----------------------------- MODULE Singletons -----------------------------
(***************************************************************************)
(* SingletonBase of utils/singleton.h: GetInstance() and IsAlive() of      *)
(* several threads, and the end of the program, which destroys the holder. *)
(* std::call_once and the local static below it are external: one thread   *)
(* builds, the others wait, and if the constructor throws another tries.   *)
(***************************************************************************)
EXTENDS Integers

CONSTANTS Caller, NoCaller

ASSUME CallerAssumption == {NoCaller, "nothing", "nullptr"} \cap Caller = {}

VARIABLES onceBy,      \* the thread inside call_once
          built,       \* s_holder_: does it point to the holder, and whose arguments built it?
          isAlive,     \* the holder's is_alive
          valueThere,  \* the holder's value: "none", "there", "destroyed"
          getAt,       \* where each thread is
          got          \* what GetInstance() returned to it last

singletonVars == <<onceBy, built, isAlive, valueThere, getAt, got>>

SingletonInit ==
  /\ onceBy = NoCaller /\ built = NoCaller /\ isAlive = FALSE /\ valueThere = "none"
  /\ getAt = [th \in Caller |-> "out"] /\ got = [th \in Caller |-> "nothing"]

GetGoes(th, place) == getAt' = [getAt EXCEPT ![th] = place]
OnceFree(th) == onceBy = NoCaller
GetInstance(th) ==
  /\ getAt[th] = "out" /\ GetGoes(th, "once")
  /\ UNCHANGED <<onceBy, built, isAlive, valueThere, got>>
OnceBegins(th) ==
  /\ getAt[th] = "once" /\ built = NoCaller /\ OnceFree(th)
  /\ onceBy' = th /\ GetGoes(th, "value")
  /\ UNCHANGED <<built, isAlive, valueThere, got>>
(* The holder's constructor: the value, the flag, and then the pointer.     *)
BuildValue(th) ==
  /\ getAt[th] = "value" /\ valueThere' = "there" /\ isAlive' = TRUE /\ GetGoes(th, "point")
  /\ UNCHANGED <<onceBy, built, got>>
BuildThrows(th) ==
  /\ getAt[th] = "value" /\ onceBy' = NoCaller /\ GetGoes(th, "out")
  /\ UNCHANGED <<built, isAlive, valueThere, got>>
BuildPoints(th) ==
  /\ getAt[th] = "point" /\ built' = th /\ onceBy' = NoCaller /\ GetGoes(th, "check")
  /\ UNCHANGED <<isAlive, valueThere, got>>
OnceOver(th) ==
  /\ getAt[th] = "once" /\ built # NoCaller /\ GetGoes(th, "check")
  /\ UNCHANGED <<onceBy, built, isAlive, valueThere, got>>
GetReturns(th) ==
  /\ getAt[th] = "check" /\ GetGoes(th, "out")
  /\ got' = [got EXCEPT ![th] = IF isAlive THEN built ELSE "nullptr"]
  /\ UNCHANGED <<onceBy, built, isAlive, valueThere>>

(* At the end of the program: ~Holder(), and then its members.              *)
HolderDies ==
  /\ built # NoCaller /\ isAlive /\ isAlive' = FALSE
  /\ UNCHANGED <<onceBy, built, valueThere, getAt, got>>
ValueDies ==
  /\ built # NoCaller /\ ~isAlive /\ valueThere = "there" /\ valueThere' = "destroyed"
  /\ UNCHANGED <<onceBy, built, isAlive, getAt, got>>

IsAlive == built # NoCaller /\ isAlive
SingletonStep(th) ==
  OnceBegins(th) \/ BuildValue(th) \/ BuildPoints(th) \/ OnceOver(th) \/ GetReturns(th)
SingletonNext ==
  \/ HolderDies \/ ValueDies
  \/ \E th \in Caller : SingletonStep(th) \/ GetInstance(th) \/ BuildThrows(th)
-----------------------------------------------------------------------------
(* singleton.h:39-48: there is one instance, of one caller's arguments, the  *)
(* same for all; whoever is told that it is alive finds a value, and it is   *)
(* nullptr only after its end.                                              *)
OneInstanceForAll ==
  /\ \A th \in Caller : got[th] \in Caller => got[th] = built
  /\ \A th, other \in Caller :
       {getAt[th], getAt[other]} \subseteq {"value", "point"} => th = other
  /\ IsAlive => valueThere = "there"
  /\ (\E th \in Caller : got[th] = "nullptr") => built # NoCaller /\ ~isAlive
=============================================================================
