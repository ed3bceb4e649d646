------------------------------ MODULE FdGuards ------------------------------
(***************************************************************************)
(* utils/fd_utils.h: fd_guard, which owns a file descriptor and closes it, *)
(* and the helpers that change a descriptor's flags.  The operating system *)
(* gives out the lowest number that is free; a client never puts into a    *)
(* guard what another guard owns.                                          *)
(***************************************************************************)
EXTENDS Integers, FiniteSets

CONSTANTS Guard,    \* the places in which guards are built
          MaxFd     \* bound: the descriptors of the process

ASSUME FdAssumption == MaxFd \in Nat

VARIABLES opened,     \* the flags of each open descriptor
          fdOf,       \* what each guard holds; NoGuard: there is none
          clients,    \* descriptors the program holds itself
          forgotten,  \* open descriptors that nobody holds
          closedTwice \* was a number closed that was not open?

fdVars == <<opened, fdOf, clients, forgotten, closedTwice>>

Fd == 0 .. MaxFd
NoGuard == -2
Built == {g \in Guard : fdOf[g] # NoGuard}
FdInit ==
  /\ opened = [fd \in {} |-> {}] /\ fdOf = [g \in Guard |-> NoGuard]
  /\ clients = {} /\ forgotten = {} /\ closedTwice = FALSE

OpenFd ==
  \E fd \in Fd :
    /\ fd \notin DOMAIN opened /\ 0 .. fd - 1 \subseteq DOMAIN opened
    /\ \E append \in SUBSET {"append"} :
         opened' = [f \in DOMAIN opened \cup {fd} |-> IF f = fd THEN append ELSE opened[f]]
    /\ clients' = clients \cup {fd}
    /\ UNCHANGED <<fdOf, forgotten, closedTwice>>

(* close() of what a guard holds, if it holds something.                     *)
CloseHeld(g) ==
  /\ opened' = [f \in DOMAIN opened \ {fdOf[g]} |-> opened[f]]
  /\ closedTwice' = (closedTwice \/ (fdOf[g] >= 0 /\ fdOf[g] \notin DOMAIN opened))

BuildGuard(g) ==
  /\ g \notin Built /\ fdOf' = [fdOf EXCEPT ![g] = -1]
  /\ UNCHANGED <<opened, clients, forgotten, closedTwice>>
DestroyGuard(g) ==
  /\ g \in Built /\ CloseHeld(g) /\ fdOf' = [fdOf EXCEPT ![g] = NoGuard]
  /\ UNCHANGED <<clients, forgotten>>
TakeOver(g, other) == [fdOf EXCEPT ![g] = fdOf[other], ![other] = -1]
MoveConstructGuard(g, other) ==
  /\ g \notin Built /\ other \in Built /\ fdOf' = TakeOver(g, other)
  /\ UNCHANGED <<opened, clients, forgotten, closedTwice>>
MoveAssignGuard(g, other) ==
  /\ {g, other} \subseteq Built /\ g # other /\ fdOf' = TakeOver(g, other)
  /\ forgotten' = forgotten \cup ({fdOf[g]} \cap Fd)
  /\ UNCHANGED <<opened, clients, closedTwice>>
ResetGuard(g) ==
  /\ g \in Built
  /\ \E fd \in clients \cup {-1} :
       /\ CloseHeld(g) /\ fdOf' = [fdOf EXCEPT ![g] = fd] /\ clients' = clients \ {fd}
  /\ UNCHANGED forgotten
ReleaseGuard(g) ==
  /\ g \in Built /\ fdOf' = [fdOf EXCEPT ![g] = -1]
  /\ clients' = clients \cup ({fdOf[g]} \cap Fd)
  /\ UNCHANGED <<opened, forgotten, closedTwice>>

(* The helpers ask for the flags and set them again with one more or less.   *)
MakeNonBlocking(fd) ==
  /\ fd \in DOMAIN opened /\ "nonblock" \notin opened[fd]
  /\ opened' = [opened EXCEPT ![fd] = @ \cup {"nonblock"}]
  /\ UNCHANGED <<fdOf, clients, forgotten, closedTwice>>
MakeBlocking(fd) ==
  /\ fd \in DOMAIN opened /\ "nonblock" \in opened[fd]
  /\ opened' = [opened EXCEPT ![fd] = @ \ {"nonblock"}]
  /\ UNCHANGED <<fdOf, clients, forgotten, closedTwice>>
MakeCloseOnExec(fd) ==
  /\ fd \in DOMAIN opened
  /\ opened' = [opened EXCEPT ![fd] = @ \cup {"cloexec"}]
  /\ UNCHANGED <<fdOf, clients, forgotten, closedTwice>>

FdNext ==
  \/ OpenFd
  \/ \E g \in Guard : BuildGuard(g) \/ DestroyGuard(g) \/ ResetGuard(g) \/ ReleaseGuard(g)
  \/ \E g, other \in Guard : MoveConstructGuard(g, other) \/ MoveAssignGuard(g, other)
  \/ \E fd \in clients : MakeNonBlocking(fd) \/ MakeBlocking(fd) \/ MakeCloseOnExec(fd)
-----------------------------------------------------------------------------
(* fd_utils.h:27-65: an open descriptor has one owner, a guard or the        *)
(* program, or was forgotten by the assignment of another guard; no number   *)
(* is closed that a guard no longer owns, though the system reuses numbers.  *)
FdsHaveOneOwner ==
  LET holders(fd) == {g \in Built : fdOf[g] = fd}
  IN  /\ ~closedTwice
      /\ \A fd \in Fd :
           Cardinality(holders(fd)) + Cardinality({fd} \cap clients)
             + Cardinality({fd} \cap forgotten) = IF fd \in DOMAIN opened THEN 1 ELSE 0
=============================================================================
