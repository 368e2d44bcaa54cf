--------------------------- MODULE RunnerListing ---------------------------
(***************************************************************************)
(* A listing of the registered runners, page by page, while runners        *)
(* register and deregister.  GitHub cuts each page from the list as it is  *)
(* at that moment, and only the first one may bear the total.  The daemon  *)
(* takes the listing for complete when as many runners came as the total   *)
(* says: every slot whose runner is missing from it may then be freed.     *)
(***************************************************************************)
EXTENDS Naturals, Sequences, FiniteSets

CONSTANTS Runners,      \* runners of the organisation
          PageSize,
          MaxChurn,     \* bound on registrations and deregistrations
          NoTotal       \* what a first page without a total_count bears

ASSUME ListingAssumption ==
    IsFiniteSet(Runners) /\ PageSize \in Nat \ {0} /\ MaxChurn \in Nat

VARIABLES registered,   \* the runners registered with GitHub, in its order
          items,        \* the runners on the pages of this listing, one after the other
          read,         \* how many pages that is
          total,        \* the total_count of the first page
          stayed,       \* runners registered from the first page on
          came, went,   \* registrations and deregistrations since then
          verdict       \* "reading", "complete", "partial" or "failed"

listVars == <<registered, items, read, total, stayed, came, went, verdict>>

Verdicts == {"reading", "complete", "partial", "failed"}

ListingTypeOK ==
    /\ registered \in Seq(Runners) /\ items \in Seq(Runners) /\ read \in Nat
    /\ total \in 0..Cardinality(Runners) \cup {NoTotal}
    /\ stayed \subseteq Runners /\ came \in 0..MaxChurn /\ went \in 0..MaxChurn
    /\ verdict \in Verdicts

ListingInit ==
    /\ registered \in {s \in UNION {[1..n -> Runners] : n \in 0..Cardinality(Runners)} :
                         \A i, j \in DOMAIN s : s[i] = s[j] => i = j}
    /\ items = <<>> /\ read = 0 /\ total = NoTotal /\ stayed = {} /\ came = 0 /\ went = 0
    /\ verdict = "reading"

Page(k) == SubSeq(registered, k * PageSize + 1,
                  IF (k + 1) * PageSize < Len(registered) THEN (k + 1) * PageSize
                  ELSE Len(registered))
LastPage(k) == Len(registered) <= (k + 1) * PageSize

Members(s) == {s[i] : i \in DOMAIN s}

(* The stream is whole when the first page promised no total, or as many   *)
(* as came.                                                                *)
AcceptsUpTo(t, observed) == t = NoTotal \/ observed <= t   \* mutant of Accepts
Accepts(t, observed) == t = NoTotal \/ t = observed

Verdict(t, list) == IF Accepts(t, Len(list)) THEN "complete" ELSE "partial"

(* gh follows the pages until one has no successor.                        *)
FetchPage ==
    /\ verdict = "reading"
    /\ items' = items \o Page(read) /\ read' = read + 1
    /\ IF read = 0 THEN /\ total' \in {Len(registered), NoTotal}
                        /\ stayed' = Members(registered)
       ELSE UNCHANGED <<total, stayed>>
    /\ verdict' = IF LastPage(read) THEN Verdict(total', items') ELSE "reading"
    /\ UNCHANGED <<registered, came, went>>

(* The stream ends early with status 200, or gh fails.                     *)
Truncated ==
    /\ verdict = "reading" /\ read > 0
    /\ verdict' = Verdict(total, items)
    /\ UNCHANGED <<registered, items, read, total, stayed, came, went>>

ListFailed ==
    /\ verdict = "reading" /\ verdict' = "failed"
    /\ UNCHANGED <<registered, items, read, total, stayed, came, went>>

Churning == verdict = "reading" /\ read > 0 /\ came + went < MaxChurn

With(s, i, r) ==
    [j \in 1..(Len(s) + 1) |-> IF j < i THEN s[j] ELSE IF j = i THEN r ELSE s[j - 1]]
Without(s, i) == [j \in 1..(Len(s) - 1) |-> IF j < i THEN s[j] ELSE s[j + 1]]

RegisterRunner(r) ==
    /\ Churning /\ r \notin Members(registered) \cup stayed
    /\ \E i \in 1..(Len(registered) + 1) : registered' = With(registered, i, r)
    /\ came' = came + 1
    /\ UNCHANGED <<items, read, total, stayed, went, verdict>>

DeregisterRunner(i) ==
    /\ Churning
    /\ registered' = Without(registered, i)
    /\ stayed' = stayed \ {registered[i]} /\ went' = went + 1
    /\ UNCHANGED <<items, read, total, came, verdict>>

ListingNext ==
    \/ FetchPage \/ Truncated \/ ListFailed
    \/ \E r \in Runners : RegisterRunner(r)
    \/ \E i \in DOMAIN registered : DeregisterRunner(i)

ListingSpec == ListingInit /\ [][ListingNext]_listVars

-----------------------------------------------------------------------------
(* A listing that is taken for complete against a total misses no runner   *)
(* that was registered all along and has none twice, however it was cut    *)
(* off and whatever runners went meanwhile; or if runners only came and it *)
(* was read to its end.  Not otherwise: what is missing, a runner that     *)
(* shifted to a page already read or the end of a stream that was cut off, *)
(* is made up for by a new runner or by one that comes twice.              *)
ListingExact ==
    /\ verdict = "complete" /\ total # NoTotal
    /\ came = 0 \/ (went = 0 /\ Len(registered) <= read * PageSize)
    => stayed \subseteq Members(items) /\ Cardinality(Members(items)) = Len(items)
=============================================================================
