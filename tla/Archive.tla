------------------------------ MODULE Archive -------------------------------
(***************************************************************************)
(* What an output directory promises, whatever runs over it: records are   *)
(* added and never removed, and for every stream (the posts or the         *)
(* comments of a subreddit) it keeps a claim [from, to) on the window that *)
(* is archived.  A claim is made only when it is true, and moves forward   *)
(* only.                                                                   *)
(***************************************************************************)
EXTENDS Integers

CONSTANTS
    Records,    \* every record
    Streams,    \* the streams they belong to
    Stream,     \* record -> its stream
    Created,    \* record -> its timestamp
    Common      \* the records the archive is to have

VARIABLES archived, claims

NothingClaimed == [from |-> 0, to |-> 0]

Holds(s, from, to) ==
    \A r \in Common :
      Stream[r] = s /\ from <= Created[r] /\ Created[r] < to => r \in archived

Init ==
    /\ archived = {}
    /\ claims = [s \in Streams |-> NothingClaimed]

(* Records arrive. *)
Save ==
    /\ archived \subseteq archived'
    /\ archived' \subseteq Records
    /\ UNCHANGED claims

(* A true claim replaces an older one that started and ended no later. *)
Claim(s) ==
    /\ claims' = [claims EXCEPT ![s] = claims'[s]]
    /\ Holds(s, claims'[s].from, claims'[s].to)
    /\ claims[s].from <= claims'[s].from
    /\ claims[s].to <= claims'[s].to
    /\ UNCHANGED archived

Next == Save \/ \E s \in Streams : Claim(s)

Spec == Init /\ [][Next]_<<archived, claims>>

(* What can be relied on at every moment: a claim that was true when it was*)
(* made is true still.                                                     *)
Truthful == \A s \in Streams : Holds(s, claims[s].from, claims[s].to)
=============================================================================
