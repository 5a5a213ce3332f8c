----------------------------- MODULE LeaseNode -----------------------------
(***************************************************************************)
(* A node's lease from its router (crates/fenec-http/src/lease.rs): what   *)
(* the node holds, and what reading one grant does to it.                  *)
(*                                                                         *)
(* The node keeps, under one lock, the list of tenants it may write, until *)
(* when, who granted it, the last Answered grants it answered with the     *)
(* moment of each, and the basis of the lease it runs: the moment of the   *)
(* answer its grant acknowledged, and that grant's number.                 *)
(*                                                                         *)
(* Abstractions.                                                           *)
(*  - An Option is a set of at most one element.                          *)
(*  - A list's epoch is the hash of its names: it is the list itself here. *)
(*  - A holder is a directory's term and history; one directory leases the *)
(*    node, so its authority is left out.                                  *)
(*  - A grant's number is <<router process, count>>: each process counts   *)
(*    from a random 64-bit start, so no two processes share a number.      *)
(*  - The queue of answered grants is a set of (grant, moment): the moments*)
(*    are distinct, so the oldest is the one of the least moment.          *)
(*  - `until` is 0 where the code holds None: no moment is before 0.       *)
(*  - A router from before numbered grants is not modelled: the code runs  *)
(*    its grant from its reading and says the late grant's hole is open.   *)
(***************************************************************************)
EXTENDS Integers, FiniteSets

CONSTANTS
    Tenants,     \* the tenants' names
    Answered     \* how many answered grants a node keeps (16 in the code)

ASSUME AnsweredAssumption == Answered \in Nat \ {0}

\* The type of an Option; that it holds at most one is said beside it.
Option(S) == SUBSET S
Holder == [term : Nat, history : Nat]
Number == Nat \X Nat
Lists == SUBSET Tenants

\* A grant as POST /_admin/lease carries it; `with` where the list itself
\* rides and not its name alone.
Grant == [holder : Holder, ms : Nat, list : Lists, with : BOOLEAN,
          grant : Number, acked : Option(Number)]

Answer == [grant : Number, at : Nat]

LeaseState == [until : Nat,
               list : Option(Lists),
               holder : Option(Holder),
               answered : SUBSET Answer,
               basis : Option([at : Nat, by : Number])]

\* Lease::new: no lease, no list, nothing answered.
NewLease == [until |-> 0, list |-> {}, holder |-> {},
             answered |-> {}, basis |-> {}]

Running(s, now) == now < s.until

\* Lease::allows: the lease runs and its list names the tenant.
Allows(s, tenant, now) ==
    Running(s, now) /\ \E names \in s.list : tenant \in names

\* Holder::superseded_by, within one directory.
SupersededBy(h, held) ==
    \/ h.term < held.term
    \/ h.term = held.term /\ h.history # held.history

\* Whether number a was counted after b: a wrapping difference, which only
\* numbers of one router process are compared by.
CountedAfter(a, b) == a[1] = b[1] /\ a[2] > b[2]

\* Why a grant is refused, the state left as it is.
Superseded(s, g) == \E held \in s.holder : SupersededBy(g.holder, held)
NeedsList(s, g) == ~g.with /\ s.list # {g.list}

\* Another holder's numbers name none of this one's grants.
Known(s, g) == IF s.holder = {g.holder} THEN s.answered ELSE {}
Basis(s, g) == IF s.holder = {g.holder} THEN s.basis ELSE {}

\* The answer a grant acknowledges, where it is kept: what its lease runs from.
From(s, g) == {a \in Known(s, g) : a.grant \in g.acked}

\* Newer than the grant the lease came from: by the answer it acknowledges,
\* then by its own number.
NewerFrom(a, s, g) ==
    \A b \in Basis(s, g) :
        a.at > b.at \/ (a.at = b.at /\ CountedAfter(g.grant, b.by))

Newer(s, g) == \E a \in From(s, g) : NewerFrom(a, s, g)

\* The answers kept once another is noted: the oldest goes at the limit.
Noted(known, a) ==
    IF Cardinality(known) = Answered
    THEN {e \in known : \E f \in known : f.at < e.at} \cup {a}
    ELSE known \cup {a}

\* Lease::grant_at for a grant that is not refused: the list and the lease
\* taken together where it is newer, the list alone where the lease lapsed.
Took(s, g, now) == ~Running(s, now) \/ Newer(s, g)

AfterGrant(s, g, now) ==
    LET newer == Newer(s, g)
        from == CHOOSE a \in From(s, g) : NewerFrom(a, s, g)
    IN  [until    |-> IF newer THEN from.at + g.ms ELSE s.until,
         list     |-> IF Took(s, g, now) THEN {g.list} ELSE s.list,
         holder   |-> {g.holder},
         answered |-> Noted(Known(s, g), [grant |-> g.grant, at |-> now]),
         basis    |-> IF newer THEN {[at |-> from.at, by |-> g.grant]}
                      ELSE Basis(s, g)]

\* What the node says of a grant, as the router tells answers apart.
Said(s, g, now) ==
    IF Superseded(s, g) THEN [kind |-> "superseded", ran |-> FALSE, left |-> 0]
    ELSE IF NeedsList(s, g) THEN [kind |-> "needs_list", ran |-> FALSE, left |-> 0]
    ELSE LET after == AfterGrant(s, g, now)
         IN  [kind |-> IF Took(s, g, now) THEN "taken" ELSE "kept",
              ran  |-> Newer(s, g),
              left |-> IF now < after.until THEN after.until - now ELSE 0]

\* The state a node is in once it read a grant.
ReadGrant(s, g, now) ==
    IF Superseded(s, g) \/ NeedsList(s, g) THEN s ELSE AfterGrant(s, g, now)
=============================================================================
