----------------------------- MODULE ObserverList -----------------------------
(***************************************************************************)
(* nbase's ObserverList, which holds the observers of a message loop, of   *)
(* its tasks and of its pumps.  Observers are added and removed while the  *)
(* list is being traversed, by the very calls the traversal makes, and a   *)
(* call that runs a message loop begins a traversal inside the other.      *)
(* While there is one, a removal leaves a NULL in the list; the last       *)
(* AutoLazyEraser to go compacts it.                                       *)
(***************************************************************************)
EXTENDS Naturals, Sequences, SequencesExt, FiniteSets

CONSTANTS
  Observers,   \* positive numbers
  MaxNesting,  \* bound: how many traversals are inside one another
  MaxLength    \* bound: entries of observers_, the NULLs among them

VARIABLES
  observers_, lazy_erase_,
  walks  \* the traversals in progress, the innermost last: the next index,
         \* "loop" or "call", observers called, and observers in the list all along
vars == <<observers_, lazy_erase_, walks>>

NULL == 0
InList(o) == \E i \in DOMAIN observers_ : observers_[i] = o
Listed == {o \in Observers : InList(o)}
IndexOf(o) == CHOOSE i \in DOMAIN observers_ : observers_[i] = o
Inside(at) == walks # <<>> /\ Last(walks).at = at
InCode == walks = <<>> \/ Inside("call")

Init == observers_ = <<>> /\ lazy_erase_ = 0 /\ walks = <<>>

AddObserver(o) ==
  /\ InCode
  /\ ~InList(o) /\ Len(observers_) < MaxLength
  /\ observers_' = Append(observers_, o)
  /\ UNCHANGED <<lazy_erase_, walks>>

(* history: nobody who is not in the list has been there all along *)
Left(o) == walks' = [i \in DOMAIN walks |-> [walks[i] EXCEPT !.stayed = @ \ {o}]]

(* Mutant of RemoveObserver: the entry is erased in a traversal as well. *)
RemoveObserverNow(o) ==
  /\ InCode /\ InList(o)
  /\ observers_' = RemoveAt(observers_, IndexOf(o))
  /\ Left(o)
  /\ UNCHANGED lazy_erase_

RemoveObserver(o) ==
  /\ InCode /\ InList(o)
  /\ observers_' = IF lazy_erase_ > 0 THEN [observers_ EXCEPT ![IndexOf(o)] = NULL]
                   ELSE RemoveAt(observers_, IndexOf(o))
  /\ Left(o)
  /\ UNCHANGED lazy_erase_

(* A traversal, PreProcessMessage for one, makes its AutoLazyEraser, *)
AcquireLazyErase ==
  /\ InCode /\ Len(walks) < MaxNesting
  /\ lazy_erase_' = lazy_erase_ + 1
  /\ walks' = Append(walks, [index |-> 1, at |-> "loop", called |-> <<>>, stayed |-> Listed])
  /\ UNCHANGED observers_

(* Mutant of GetObserver: the call is made on a NULL as well. *)
GetObserverUnchecked ==
  /\ Inside("loop")
  /\ LET w == Last(walks) IN
       /\ w.index <= Len(observers_)
       /\ walks' = Append(Front(walks), [w EXCEPT !.index = @ + 1, !.at = "call",
                                          !.called = Append(@, observers_[w.index])])
  /\ UNCHANGED <<observers_, lazy_erase_>>

(* calls the observers one by one, up to where the list ends by now, *)
GetObserver ==
  /\ Inside("loop")
  /\ LET w == Last(walks) IN
       /\ w.index <= Len(observers_)
       /\ LET o == observers_[w.index] IN
            walks' = Append(Front(walks),
              IF o = NULL THEN [w EXCEPT !.index = @ + 1]
              ELSE [w EXCEPT !.index = @ + 1, !.at = "call", !.called = Append(@, o)])
  /\ UNCHANGED <<observers_, lazy_erase_>>

ObserverReturns ==
  /\ Inside("call")
  /\ walks' = Append(Front(walks), [Last(walks) EXCEPT !.at = "loop"])
  /\ UNCHANGED <<observers_, lazy_erase_>>

(* The entries that are left keep their order: the target of each is at    *)
(* or before its source.                                                   *)
Compact ==
  \E count \in 0..Len(observers_) :
  \E src \in [1..count -> {i \in DOMAIN observers_ : observers_[i] # NULL}] :
    /\ \A j, k \in 1..count : j < k => src[j] < src[k]
    /\ \A i \in DOMAIN observers_ : observers_[i] # NULL => \E k \in 1..count : src[k] = i
    /\ observers_' = [k \in 1..count |-> observers_[src[k]]]
AtEnd == Inside("loop") /\ Last(walks).index > Len(observers_)

(* Mutant of ReleaseLazyErase: every AutoLazyEraser compacts the list. *)
ReleaseAndCompact ==
  /\ AtEnd
  /\ lazy_erase_' = lazy_erase_ - 1
  /\ Compact
  /\ walks' = Front(walks)

(* and compacts the list unless it is inside of another one. *)
ReleaseLazyErase ==
  /\ AtEnd
  /\ lazy_erase_' = lazy_erase_ - 1
  /\ IF lazy_erase_' < 1 THEN Compact ELSE UNCHANGED observers_
  /\ walks' = Front(walks)

Next ==
  \/ \E o \in Observers : AddObserver(o) \/ RemoveObserver(o)
  \/ AcquireLazyErase \/ GetObserver \/ ObserverReturns \/ ReleaseLazyErase

Spec == Init /\ [][Next]_vars

-----------------------------------------------------------------------------
(* Properties *)

(* Every variable keeps the shape of what it stands for. *)
TypeOK ==
  /\ observers_ \in Seq(Observers \cup {NULL}) /\ lazy_erase_ \in 0..MaxNesting
  /\ \A i \in DOMAIN walks :
       /\ walks[i].at \in {"loop", "call"} /\ walks[i].index \in 1..(MaxLength + 1)
       /\ walks[i].called \in Seq(Observers) /\ walks[i].stayed \subseteq Observers

(* A traversal calls whoever stays in the list exactly once: by the time   *)
(* it has passed all of it, and however often the list changed under it.   *)
Times(o, w) == Cardinality({i \in DOMAIN w.called : w.called[i] = o})
StayingAreCalledOnce ==
  \A j \in DOMAIN walks : \A o \in walks[j].stayed :
    /\ Times(o, walks[j]) <= 1
    /\ walks[j].index > Len(observers_) => Times(o, walks[j]) = 1
=============================================================================
