------------------------ MODULE ObjectiveClientProofs ------------------------
(***************************************************************************)
(* The page of an initiative, for any people, texts, notes, claims, facts  *)
(* and requests: a page never shows a claim twice although it is read in   *)
(* many statements, and what is decided or proposed on a page commits on   *)
(* nothing else than the page showed, although it may have changed since.  *)
(*                                                                         *)
(* What is known of a page or of a request is stated of a ledger given by  *)
(* its claims cl and facts fa, so that it can be compared before and after *)
(* a commit.                                                               *)
(***************************************************************************)
EXTENDS ObjectiveClient, TLAPS, WellFoundedInduction

UsedClaims(cl) == {x \in ClaimIds : cl[x].status # "none"}
OpenIn(cl) == {x \in ClaimIds : cl[x].status = "proposed"}
UsedFacts(fa) == {f \in FactIds : fa[f].status # "none"}
CurrentIn(fa) == {f \in FactIds : fa[f].status = "current"}
LatestIn(cl) == Last(UsedClaims(cl))
GenerationIn(cl, x) == <<x, IF x = 0 THEN "none" ELSE cl[x].status>>

(* A fact that will not be current again. *)
Gone(fa, f) == f \in FactIds /\ fa[f].status \in {"superseded", "revoked"}

----------------------------------------------------------------------------
(* Identifiers are given in order, only the latest claim may be open and   *)
(* only the latest fact current, and a fact is what became of a claim.     *)
ClaimsOk(cl) ==
    /\ DOMAIN cl = ClaimIds
    /\ \A x \in ClaimIds : "status" \in DOMAIN cl[x]
    /\ \E n \in Nat : UsedClaims(cl) = 1 .. n /\ OpenIn(cl) \subseteq {n}

FactsOk(fa) ==
    /\ DOMAIN fa = FactIds
    /\ \A f \in FactIds : {"status", "claim", "prior"} \subseteq DOMAIN fa[f]
    /\ \E m \in Nat :
          /\ UsedFacts(fa) = 1 .. m /\ CurrentIn(fa) \subseteq {m}
          /\ m # 0 => fa[m].status \in {"current", "revoked"}

FactOk(cl, fa, f) ==
    /\ fa[f].status \in {"current", "superseded", "revoked"}
    /\ fa[f].claim \in ClaimIds /\ cl[fa[f].claim].status = "accepted"
    /\ fa[f].prior = 0 => f = 1 \/ fa[f - 1].status = "revoked"
    /\ fa[f].prior # 0 =>
          /\ f # 1 /\ fa[f].prior = f - 1 /\ fa[f - 1].status = "superseded"

LedgerOk(cl, fa) ==
    /\ ClaimsOk(cl) /\ FactsOk(fa)
    /\ \A f \in UsedFacts(fa) : FactOk(cl, fa, f)

(* What a ledger keeps of an earlier one. *)
Keeps(cl, fa, later, laterFa) ==
    /\ UsedClaims(cl) \subseteq UsedClaims(later)
    /\ \A x \in ClaimIds :
          cl[x].status \notin {"none", "proposed"} => later[x].status = cl[x].status
    /\ \A f \in UsedFacts(fa) : /\ f \in UsedFacts(laterFa)
                                /\ laterFa[f].claim = fa[f].claim
                                /\ laterFa[f].prior = fa[f].prior
    /\ \A f \in FactIds : Gone(fa, f) => laterFa[f].status = fa[f].status
    /\ GenerationIn(later, LatestIn(later)) = GenerationIn(cl, LatestIn(cl))
          /\ OpenIn(later) = {}
       => CurrentIn(laterFa) \subseteq CurrentIn(fa) /\ OpenIn(cl) = {}

----------------------------------------------------------------------------
(* A generation l that was once read: a claim that was not open then has   *)
(* kept its status.                                                        *)
PastGeneration(cl, l) ==
    \/ l[1] = 0
    \/ l[1] \in UsedClaims(cl) /\ (l[2] # "proposed" => cl[l[1]].status = l[2])

(* On generation l no objective is current but the one of fact f. *)
Settled(cl, fa, l, f) ==
    GenerationIn(cl, LatestIn(cl)) = l /\ OpenIn(cl) = {} => CurrentIn(fa) \subseteq {f}

(* What a request names of the page it was sent from. *)
RequestOk(cl, fa, r) ==
    /\ r.kind = "accept" => r.fact = 0
    /\ r.kind = "revoke" => r.open = 0
    /\ r.kind = "propose" => /\ PastGeneration(cl, r.latest)
                             /\ Settled(cl, fa, r.latest, r.fact)

(* What is known of a page while it is read up to its statement at.        *)
FactRead == 4

SeenOk(cl, fa, at, s) ==
    /\ PastGeneration(cl, s.latest)
    /\ s.fact # 0 => s.fact \in UsedFacts(fa)
    /\ at <= FactRead => s.open = 0
    /\ s.fact # 0 /\ s.open # 0 => fa[s.fact].claim # s.open
    /\ at > FactRead => Settled(cl, fa, s.latest, s.fact)

PageOk(cl, fa, s) == SeenOk(cl, fa, FactRead + 1, s)

Reading == {"load", "draft", "done"}
AllKinds == {"capture", "propose", "rework", "withdraw", "accept", "supersede", "revoke"}
            \cup Reading

SeenFields == {"latest", "source", "fact", "open", "history", "decides"}

(* What is known of a request r about to execute its statement at. *)
CallOk(cl, fa, r, at, s) ==
    /\ r.kind \in AllKinds
    /\ at \in DOMAIN Program[r.kind]
    /\ DOMAIN s = SeenFields
    /\ RequestOk(cl, fa, r)
    /\ r.kind \in Reading => SeenOk(cl, fa, at, s)
    /\ r.kind \in {"propose", "rework"} /\ at > 1 =>
          s.source.rev # 0 /\ s.source.rev = r.rev
    /\ r.kind = "propose" /\ at = 10 => s.latest = r.latest

CallFields == {"req", "at", "seen", "awaited", "quiet", "interrupted"}

CallInv(cl, fa, call) ==
    /\ DOMAIN call = CallFields
    /\ CallOk(cl, fa, call.req, call.at, call.seen)

Inv ==
    /\ LedgerOk(claims, facts)
    /\ page # None => PageOk(claims, facts, page)
    /\ DOMAIN calls = Calls
    /\ \A c \in Calls : calls[c] # None => CallInv(claims, facts, calls[c])

----------------------------------------------------------------------------
(* The last element of a set of identifiers.                               *)
LEMMA LastOfOne ==
    ASSUME NEW n \in Nat, NEW S, S \subseteq {n}
    PROVE  Last(S) = IF S = {} THEN 0 ELSE n
<1>1. CASE S = {n}
  <2>1. n \in S /\ \A y \in S : y <= n  BY <1>1
  <2>2. \A x \in S : x = n  BY <1>1
  <2>. QED  BY <2>1, <2>2 DEF Last
<1>2. CASE S = {}  BY <1>2 DEF Last
<1>. QED  BY <1>1, <1>2

LEMMA LastOfInterval ==
    ASSUME NEW n \in Nat
    PROVE  Last(1 .. n) = n
<1>1. CASE n = 0
  <2>1. 1 .. 0 = {}  OBVIOUS
  <2>. QED  BY <1>1, <2>1 DEF Last
<1>2. CASE n # 0
  <2>1. n \in 1 .. n /\ \A y \in 1 .. n : y <= n  BY <1>2
  <2>2. \A x \in 1 .. n : (\A y \in 1 .. n : y <= x) => x = n  BY <2>1
  <2>. QED  BY <2>1, <2>2 DEF Last
<1>. QED  BY <1>1, <1>2

LEMMA LeastOf ==
    ASSUME NEW S, S \subseteq Nat, S # {}
    PROVE  \E m \in S : \A k \in S : m <= k
<1>. DEFINE R == {ss \in Nat \X Nat : ss[1] < ss[2]}
<1>1. IsWellFoundedOn(R, Nat)  BY NatLessThanWellFounded DEF OpToRel
<1>2. PICK m \in S : \A k \in S : ~(<<k, m>> \in R)
  <2>. HIDE DEF R
  <2>. QED  BY <1>1, WFMin
<1>3. \A k \in S : ~(k < m)  BY <1>2
<1>. QED  BY <1>3

----------------------------------------------------------------------------
(***************************************************************************)
(* Commits.                                                                *)
(***************************************************************************)
LEMMA LatestClaim ==
    ASSUME NEW cl, NEW n \in Nat, UsedClaims(cl) = 1 .. n
    PROVE  LatestIn(cl) = n
BY LastOfInterval DEF LatestIn

With(table, x, row) == [table EXCEPT ![x] = row]
WithStatus(table, x, status) == [table EXCEPT ![x].status = status]

(* An open proposal is decided. *)
ClaimDecided(cl, x, status, later) ==
    /\ ClaimsOk(later) /\ OpenIn(later) = {}
    /\ UsedClaims(later) = UsedClaims(cl)
    /\ x = LatestIn(cl)
    /\ later[x].status = status
    /\ \A y \in ClaimIds : y # x => later[y] = cl[y]

LEMMA DecidesClaim ==
    ASSUME NEW cl, ClaimsOk(cl), NEW x \in OpenIn(cl),
           NEW status \in {"accepted", "rejected", "superseded"}
    PROVE  ClaimDecided(cl, x, status, WithStatus(cl, x, status))
<1>. DEFINE later == WithStatus(cl, x, status)
<1>1. PICK n \in Nat : UsedClaims(cl) = 1 .. n /\ OpenIn(cl) \subseteq {n}  BY DEF ClaimsOk
<1>2. x = n /\ x = LatestIn(cl)  BY <1>1, LatestClaim
<1>3. x \in ClaimIds /\ cl[x].status = "proposed"  BY DEF OpenIn
<1>4. DOMAIN later = ClaimIds /\ \A y \in ClaimIds : "status" \in DOMAIN later[y]
  BY DEF ClaimsOk, WithStatus
<1>5. later[x].status = status  BY <1>3 DEF ClaimsOk, WithStatus
<1>6. \A y \in ClaimIds : y # x => later[y] = cl[y]  BY <1>3 DEF ClaimsOk, WithStatus
<1>7. UsedClaims(later) = UsedClaims(cl)  BY <1>3, <1>5, <1>6 DEF UsedClaims
<1>8. OpenIn(later) = {}  BY <1>1, <1>2, <1>5, <1>6 DEF OpenIn
<1>. QED  
  <2>1. ClaimsOk(later)  BY <1>1, <1>2, <1>4, <1>7, <1>8 DEF ClaimsOk
  <2>. QED  BY <1>2, <1>5, <1>6, <1>7, <1>8, <2>1 DEF ClaimDecided

(* A claim is proposed while none is open. *)
ClaimAdded(cl, later) ==
    /\ ClaimsOk(later) /\ OpenIn(later) # {}
    /\ UsedClaims(cl) \subseteq UsedClaims(later)
    /\ \A y \in UsedClaims(cl) : later[y] = cl[y]

LEMMA AddsClaim ==
    ASSUME NEW cl, ClaimsOk(cl), OpenIn(cl) = {}, LatestIn(cl) + 1 \in ClaimIds,
           NEW u, NEW text
    PROVE  ClaimAdded(cl, With(cl, LatestIn(cl) + 1, Proposed(u, text)))
<1>. DEFINE later == With(cl, LatestIn(cl) + 1, Proposed(u, text))
<1>1. PICK n \in Nat : UsedClaims(cl) = 1 .. n  BY DEF ClaimsOk
<1>2. LatestIn(cl) = n /\ n + 1 \in ClaimIds  BY <1>1, LatestClaim
<1>3. DOMAIN later = ClaimIds /\ \A y \in ClaimIds : "status" \in DOMAIN later[y]
  BY <1>2 DEF ClaimsOk, With, Proposed
<1>4. later[n + 1].status = "proposed"  BY <1>2 DEF ClaimsOk, With, Proposed
<1>5. \A y \in ClaimIds : y # n + 1 => later[y] = cl[y]  BY <1>2 DEF ClaimsOk, With
<1>6. UsedClaims(later) = 1 .. (n + 1)
  <2>1. \A y \in ClaimIds : y \in UsedClaims(later) <=> y \in UsedClaims(cl) \/ y = n + 1
    BY <1>4, <1>5 DEF UsedClaims
  <2>2. UsedClaims(later) = UsedClaims(cl) \cup {n + 1}
    BY <1>2, <2>1 DEF UsedClaims
  <2>3. (1 .. n) \cup {n + 1} = 1 .. (n + 1)  OBVIOUS
  <2>. QED  BY <1>1, <2>2, <2>3
<1>7. OpenIn(later) = {n + 1}  BY <1>2, <1>4, <1>5 DEF OpenIn
<1>8. ClaimsOk(later)
  <2>1. n + 1 \in Nat  OBVIOUS
  <2>2. OpenIn(later) \subseteq {n + 1}  BY <1>7, Zenon
  <2>. QED  BY <1>3, <1>6, <2>1, <2>2, Zenon DEF ClaimsOk
<1>9. \A y \in UsedClaims(cl) : y \in ClaimIds /\ y # n + 1 /\ y \in 1 .. (n + 1)
  BY <1>1 DEF UsedClaims
<1>10. \A y \in UsedClaims(cl) : later[y] = cl[y]  BY <1>5, <1>9
<1>11. UsedClaims(cl) \subseteq UsedClaims(later)  BY <1>6, <1>9
<1>. QED  BY <1>7, <1>8, <1>10, <1>11 DEF ClaimAdded

LastFact(fa) == Last(UsedFacts(fa))

(* A current fact is replaced or revoked. *)
FactFields(fa) ==
    /\ DOMAIN fa = FactIds
    /\ \A g \in FactIds : {"status", "claim", "prior"} \subseteq DOMAIN fa[g]

FactEnded(fa, f, status, later) ==
    /\ FactFields(later)
    /\ UsedFacts(later) = UsedFacts(fa) /\ CurrentIn(later) = {}
    /\ f = LastFact(fa) /\ f \in UsedFacts(fa)
    /\ later[f].status = status
    /\ later[f].claim = fa[f].claim /\ later[f].prior = fa[f].prior
    /\ \A g \in FactIds : g # f => later[g] = fa[g]

LEMMA EndsFact ==
    ASSUME NEW fa, FactsOk(fa), NEW f \in CurrentIn(fa),
           NEW status \in {"superseded", "revoked"}
    PROVE  FactEnded(fa, f, status, WithStatus(fa, f, status))
<1>. DEFINE later == WithStatus(fa, f, status)
<1>1. PICK m \in Nat : UsedFacts(fa) = 1 .. m /\ CurrentIn(fa) \subseteq {m}  BY DEF FactsOk
<1>2. f = m /\ f = LastFact(fa)  BY <1>1, LastOfInterval DEF LastFact
<1>3. f \in FactIds /\ fa[f].status = "current"  BY DEF CurrentIn
<1>4. DOMAIN later = FactIds /\ \A g \in FactIds : g # f => later[g] = fa[g]
  BY <1>3 DEF FactsOk, WithStatus
<1>5. later[f] = [fa[f] EXCEPT !.status = status]  BY <1>3 DEF FactsOk, WithStatus
<1>6. {"status", "claim", "prior"} \subseteq DOMAIN fa[f]  BY <1>3 DEF FactsOk
<1>7. /\ {"status", "claim", "prior"} \subseteq DOMAIN later[f]
      /\ later[f].status = status
      /\ later[f].claim = fa[f].claim /\ later[f].prior = fa[f].prior
  BY <1>5, <1>6
<1>8. UsedFacts(later) = UsedFacts(fa) /\ f \in UsedFacts(fa)
  BY <1>3, <1>4, <1>7 DEF UsedFacts
<1>9. CurrentIn(later) = {}
  <2>1. \A g \in CurrentIn(fa) : g = f  BY <1>1, <1>2
  <2>2. \A g \in FactIds : g # f => fa[g].status # "current"  BY <2>1 DEF CurrentIn
  <2>. QED  BY <1>4, <1>7, <2>2 DEF CurrentIn
<1>10. FactFields(later)  BY <1>4, <1>7 DEF FactsOk, FactFields
<1>. QED  BY <1>2, <1>4, <1>7, <1>8, <1>9, <1>10 DEF FactEnded

(* A claim becomes a fact while none is current. *)
FactAdded(fa, m, row, later) ==
    /\ FactsOk(later)
    /\ UsedFacts(later) = 1 .. (m + 1)
    /\ \A g \in FactIds : g # m + 1 => later[g] = fa[g]
    /\ later[m + 1] = row

LEMMA AddsFact ==
    ASSUME NEW fa, FactFields(fa), NEW m \in Nat, UsedFacts(fa) = 1 .. m,
           CurrentIn(fa) = {}, m + 1 \in FactIds, NEW x, NEW prior
    PROVE  FactAdded(fa, m, Accepted(x, prior), With(fa, m + 1, Accepted(x, prior)))
<1>. DEFINE later == With(fa, m + 1, Accepted(x, prior))
<1>1. DOMAIN later = FactIds /\ \A g \in FactIds : g # m + 1 => later[g] = fa[g]
  BY DEF With, FactFields
<1>2. later[m + 1] = Accepted(x, prior)  BY DEF With, FactFields
<1>3. /\ later[m + 1].status = "current"
      /\ {"status", "claim", "prior"} \subseteq DOMAIN later[m + 1]
  BY <1>2 DEF Accepted
<1>4. \A g \in FactIds : {"status", "claim", "prior"} \subseteq DOMAIN later[g]
  BY <1>1, <1>3 DEF FactFields
<1>5. UsedFacts(later) = 1 .. (m + 1)
  <2>1. \A g \in FactIds : g \in UsedFacts(later) <=> g \in UsedFacts(fa) \/ g = m + 1
    BY <1>1, <1>3 DEF UsedFacts
  <2>2. UsedFacts(later) = UsedFacts(fa) \cup {m + 1}  BY <2>1 DEF UsedFacts
  <2>3. (1 .. m) \cup {m + 1} = 1 .. (m + 1)  OBVIOUS
  <2>. QED  BY <2>2, <2>3
<1>6. CurrentIn(later) \subseteq {m + 1}  BY <1>1 DEF CurrentIn
<1>7. m + 1 \in Nat  OBVIOUS
<1>8. later[m + 1].status \in {"current", "revoked"}  BY <1>3
<1>9. FactsOk(later)  BY <1>1, <1>4, <1>5, <1>6, <1>7, <1>8, Zenon DEF FactsOk
<1>. QED  BY <1>1, <1>2, <1>5, <1>9, Zenon DEF FactAdded

(* What a commit does to the claims alone leaves the facts as they are. *)
LEMMA ClaimsStep ==
    ASSUME NEW cl, NEW fa, LedgerOk(cl, fa), NEW later, ClaimsOk(later),
           UsedClaims(cl) \subseteq UsedClaims(later),
           \A x \in ClaimIds :
              cl[x].status \notin {"none", "proposed"} => later[x].status = cl[x].status,
           \/ OpenIn(later) # {}
           \/ GenerationIn(later, LatestIn(later)) # GenerationIn(cl, LatestIn(cl))
           \/ OpenIn(cl) = {}
    PROVE  LedgerOk(later, fa) /\ Keeps(cl, fa, later, fa)
<1>1. \A f \in UsedFacts(fa) : FactOk(later, fa, f)  BY DEF LedgerOk, FactOk
<1>2. LedgerOk(later, fa)  BY <1>1 DEF LedgerOk
<1>3. Keeps(cl, fa, later, fa)  BY DEF Keeps
<1>. QED  BY <1>2, <1>3

(* A proposal that is decided gives the latest claim another status, so    *)
(* that nobody takes the ledger for the one before.                        *)
LEMMA DecidedShows ==
    ASSUME NEW cl, NEW x \in OpenIn(cl), NEW status \in {"accepted", "rejected"},
           NEW later, ClaimDecided(cl, x, status, later)
    PROVE  GenerationIn(later, LatestIn(later)) # GenerationIn(cl, LatestIn(cl))
<1>1. /\ UsedClaims(later) = UsedClaims(cl)
      /\ x = LatestIn(cl) /\ later[x].status = status
  BY DEF ClaimDecided
<1>2. LatestIn(later) = x  BY <1>1 DEF LatestIn
<1>3. x # 0
  <2>1. x \in ClaimIds  BY DEF OpenIn
  <2>. QED  BY <2>1, ObjectiveAssumption
<1>4. cl[x].status = "proposed"  BY DEF OpenIn
<1>. QED  BY <1>1, <1>2, <1>3, <1>4 DEF GenerationIn

(* The names of the ledger in the specification. *)
LEMMA LedgerNames ==
    /\ Open = OpenIn(claims) /\ Current = CurrentIn(facts)
    /\ LatestId = LatestIn(claims)
    /\ NewClaim = LatestIn(claims) + 1 /\ NewFact = LastFact(facts) + 1
    /\ \A x : Generation(x) = GenerationIn(claims, x)
BY DEF Open, Current, ClaimsThatAre, FactsThatAre, OpenIn, CurrentIn, LatestId, LatestIn,
       UsedClaims, NewClaim, NewFact, LastFact, UsedFacts, Generation, GenerationIn

LEMMA NothingStep ==
    ASSUME NEW cl, NEW fa, LedgerOk(cl, fa)
    PROVE  Keeps(cl, fa, cl, fa)
BY DEF Keeps

LEMMA ProposeStep ==
    ASSUME NEW u, NEW b, LedgerOk(claims, facts), Commit(u, b), b.kind = "propose"
    PROVE  LedgerOk(claims', facts') /\ Keeps(claims, facts, claims', facts')
<1>1. /\ OpenIn(claims) = {} /\ LatestIn(claims) + 1 \in ClaimIds
      /\ claims' = With(claims, LatestIn(claims) + 1, Proposed(u, b.text))
      /\ facts' = facts
  BY LedgerNames DEF Commit, Admissible, Legal, Novel, Room, With
<1>2. ClaimAdded(claims, claims')
  <2>1. ClaimsOk(claims)  BY DEF LedgerOk
  <2>2. ClaimAdded(claims, With(claims, LatestIn(claims) + 1, Proposed(u, b.text)))
    BY <1>1, <2>1, AddsClaim, Zenon
  <2>. QED  BY <1>1, <2>2, Zenon
<1>3. /\ ClaimsOk(claims') /\ OpenIn(claims') # {}
      /\ UsedClaims(claims) \subseteq UsedClaims(claims')
      /\ \A y \in UsedClaims(claims) : claims'[y] = claims[y]
  BY <1>2 DEF ClaimAdded
<1>4. \A x \in ClaimIds : claims[x].status \notin {"none", "proposed"} =>
         claims'[x].status = claims[x].status
  BY <1>3 DEF UsedClaims
<1>5. LedgerOk(claims', facts) /\ Keeps(claims, facts, claims', facts)
  BY <1>3, <1>4, ClaimsStep, Zenon
<1>. QED  BY <1>1, <1>5, Zenon

LEMMA ReworkStep ==
    ASSUME NEW u, NEW b, LedgerOk(claims, facts), Commit(u, b), b.kind = "rework"
    PROVE  LedgerOk(claims', facts') /\ Keeps(claims, facts, claims', facts')
<1>. DEFINE mid == WithStatus(claims, b.claim, "superseded")
<1>1. /\ b.claim \in OpenIn(claims) /\ LatestIn(claims) + 1 \in ClaimIds
      /\ claims' = With(mid, LatestIn(claims) + 1, Proposed(u, b.text))
      /\ facts' = facts
  BY LedgerNames DEF Commit, Admissible, Legal, Pending, Room, Status, With, WithStatus
<1>2. ClaimsOk(claims)  BY DEF LedgerOk
<1>3. "superseded" \in {"accepted", "rejected", "superseded"}  OBVIOUS
<1>4. /\ ClaimsOk(mid) /\ OpenIn(mid) = {} /\ UsedClaims(mid) = UsedClaims(claims)
      /\ \A y \in ClaimIds : y # b.claim => mid[y] = claims[y]
  <2>1. ClaimDecided(claims, b.claim, "superseded", mid)
    BY <1>1, <1>2, <1>3, DecidesClaim, Zenon
  <2>. QED  BY <2>1 DEF ClaimDecided
<1>. HIDE DEF mid
<1>5. LatestIn(mid) = LatestIn(claims)  BY <1>4 DEF LatestIn
<1>6. /\ ClaimsOk(claims') /\ OpenIn(claims') # {}
      /\ UsedClaims(mid) \subseteq UsedClaims(claims')
      /\ \A y \in UsedClaims(mid) : claims'[y] = mid[y]
  <2>1. ClaimAdded(mid, With(mid, LatestIn(mid) + 1, Proposed(u, b.text)))
    BY <1>1, <1>4, <1>5, AddsClaim, Zenon
  <2>. QED  BY <1>1, <1>5, <2>1 DEF ClaimAdded
<1>7. UsedClaims(claims) \subseteq UsedClaims(claims')  BY <1>4, <1>6
<1>8. \A x \in ClaimIds : claims[x].status \notin {"none", "proposed"} =>
         claims'[x].status = claims[x].status
  <2>1. claims[b.claim].status = "proposed"  BY <1>1 DEF OpenIn
  <2>. QED  BY <1>4, <1>6, <2>1 DEF UsedClaims
<1>9. LedgerOk(claims', facts) /\ Keeps(claims, facts, claims', facts)
  BY <1>6, <1>7, <1>8, ClaimsStep, Zenon
<1>. QED  BY <1>1, <1>9, Zenon

(* A decision leaves every claim that was decided before as it was. *)
LEMMA DecisionStep ==
    ASSUME NEW cl, NEW fa, LedgerOk(cl, fa), NEW x \in OpenIn(cl),
           NEW status \in {"accepted", "rejected"},
           NEW later, later = WithStatus(cl, x, status)
    PROVE  /\ LedgerOk(later, fa) /\ Keeps(cl, fa, later, fa)
           /\ ClaimDecided(cl, x, status, later)
<1>0. status \in {"accepted", "rejected", "superseded"}  OBVIOUS
<1>1. ClaimsOk(cl)  BY DEF LedgerOk
<1>2. ClaimDecided(cl, x, status, later)  BY <1>0, <1>1, DecidesClaim, Zenon
<1>3. GenerationIn(later, LatestIn(later)) # GenerationIn(cl, LatestIn(cl))
  BY <1>2, DecidedShows, Zenon
<1>4. \A y \in ClaimIds : cl[y].status \notin {"none", "proposed"} =>
         later[y].status = cl[y].status
  BY <1>2 DEF OpenIn, ClaimDecided
<1>5. UsedClaims(cl) \subseteq UsedClaims(later)  BY <1>2 DEF ClaimDecided
<1>6. ClaimsOk(later)  BY <1>2 DEF ClaimDecided
<1>. QED  BY <1>2, <1>3, <1>4, <1>5, <1>6, ClaimsStep, Zenon

LEMMA WithdrawStep ==
    ASSUME NEW u, NEW b, LedgerOk(claims, facts), Commit(u, b), b.kind = "withdraw"
    PROVE  LedgerOk(claims', facts') /\ Keeps(claims, facts, claims', facts')
<1>1. /\ b.claim \in OpenIn(claims) /\ facts' = facts
      /\ claims' = WithStatus(claims, b.claim, "rejected")
  BY LedgerNames DEF Commit, Admissible, Legal, Pending, Status, WithStatus
<1>2. "rejected" \in {"accepted", "rejected"}  OBVIOUS
<1>3. LedgerOk(claims', facts) /\ Keeps(claims, facts, claims', facts)
  BY <1>1, <1>2, DecisionStep, Zenon
<1>. QED  BY <1>1, <1>3, Zenon

(* What stays of the facts when the current one, f, is ended. *)
FactsStay(cl, fa, f, later) ==
    /\ \A g \in UsedFacts(fa) : /\ later[g].claim = fa[g].claim
                                /\ later[g].prior = fa[g].prior
                                /\ FactOk(cl, later, g)
    /\ \A g \in FactIds : Gone(fa, g) => g # f /\ later[g].status = fa[g].status

LEMMA EndedFacts ==
    ASSUME NEW cl, NEW fa, LedgerOk(cl, fa), NEW f \in CurrentIn(fa),
           NEW status \in {"superseded", "revoked"},
           NEW later, FactEnded(fa, f, status, later)
    PROVE  FactsStay(cl, fa, f, later)
<1>1. PICK m \in Nat : UsedFacts(fa) = 1 .. m  BY DEF LedgerOk, FactsOk
<1>2. f = m  BY <1>1, LastOfInterval DEF FactEnded, LastFact
<1>3. \A g \in FactIds : g # m => later[g] = fa[g]  BY <1>2 DEF FactEnded
<1>4. ASSUME NEW g \in UsedFacts(fa)
      PROVE  /\ later[g].claim = fa[g].claim /\ later[g].prior = fa[g].prior
             /\ FactOk(cl, later, g)
  <2>1. FactOk(cl, fa, g)  BY DEF LedgerOk
  <2>2. g \in FactIds /\ g \in 1 .. m  BY <1>1 DEF UsedFacts
  <2>3. later[g].claim = fa[g].claim /\ later[g].prior = fa[g].prior
    BY <1>2, <1>3, <2>2 DEF FactEnded
  <2>4. later[g].status \in {"current", "superseded", "revoked"}
    BY <1>2, <1>3, <2>1, <2>2 DEF FactEnded, FactOk
  <2>5. CASE g = 1
    BY <2>1, <2>3, <2>4, <2>5 DEF FactOk
  <2>6. CASE g # 1
    <3>1. g - 1 \in UsedFacts(fa) /\ g - 1 # m  BY <1>1, <2>2, <2>6
    <3>2. later[g - 1] = fa[g - 1]  BY <1>3, <3>1 DEF UsedFacts
    <3>. QED  BY <2>1, <2>3, <2>4, <3>2 DEF FactOk
  <2>. QED  BY <2>3, <2>5, <2>6
<1>5. fa[f].status = "current"  BY DEF CurrentIn
<1>. QED  BY <1>2, <1>3, <1>4, <1>5 DEF Gone, FactsStay

LEMMA RevokeStep ==
    ASSUME NEW u, NEW b, LedgerOk(claims, facts), Commit(u, b), b.kind = "revoke"
    PROVE  LedgerOk(claims', facts') /\ Keeps(claims, facts, claims', facts')
<1>1. /\ b.fact \in CurrentIn(facts) /\ OpenIn(claims) = {}
      /\ claims' = claims /\ facts' = WithStatus(facts, b.fact, "revoked")
  BY LedgerNames DEF Commit, Admissible, Legal, WithStatus
<1>2. "revoked" \in {"superseded", "revoked"}  OBVIOUS
<1>3. FactEnded(facts, b.fact, "revoked", facts')
  <2>1. FactsOk(facts)  BY DEF LedgerOk
  <2>. QED  BY <1>1, <1>2, <2>1, EndsFact, Zenon
<1>4. FactsStay(claims, facts, b.fact, facts')
  BY <1>1, <1>2, <1>3, EndedFacts, Zenon
<1>5. FactsOk(facts')
  <2>1. PICK m \in Nat : UsedFacts(facts) = 1 .. m  BY DEF LedgerOk, FactsOk
  <2>2. b.fact = m  BY <1>3, <2>1, LastOfInterval DEF FactEnded, LastFact
  <2>3. UsedFacts(facts') = 1 .. m /\ CurrentIn(facts') \subseteq {m}
        /\ facts'[m].status \in {"current", "revoked"}
    BY <1>3, <2>1, <2>2 DEF FactEnded
  <2>. QED  BY <1>3, <2>3 DEF FactsOk, FactEnded, FactFields
<1>6. UsedFacts(facts') = UsedFacts(facts) /\ CurrentIn(facts') = {}
  BY <1>3 DEF FactEnded
<1>7. LedgerOk(claims, facts')  BY <1>4, <1>5, <1>6 DEF LedgerOk, FactsStay
<1>8. Keeps(claims, facts, claims, facts')  BY <1>1, <1>4, <1>6 DEF Keeps, FactsStay
<1>. QED  BY <1>1, <1>7, <1>8, Zenon

(* A claim that is accepted becomes the fact m + 1. *)
LEMMA AcceptedFact ==
    ASSUME NEW cl, NEW fa, NEW m \in Nat, NEW prior, NEW x \in ClaimIds,
           UsedFacts(fa) = 1 .. m, \A g \in UsedFacts(fa) : FactOk(cl, fa, g),
           cl[x].status = "accepted",
           \/ prior = 0 /\ (m = 0 \/ fa[m].status = "revoked")
           \/ prior = m /\ m # 0 /\ fa[m].status = "superseded",
           NEW later, FactAdded(fa, m, Accepted(x, prior), later)
    PROVE  \A g \in UsedFacts(later) : FactOk(cl, later, g)
<1>. SUFFICES ASSUME NEW g \in 1 .. (m + 1)  PROVE FactOk(cl, later, g)
  BY DEF FactAdded
<1>1. \A h \in 1 .. m : later[h] = fa[h]  BY DEF FactAdded, UsedFacts
<1>2. CASE g = m + 1
  <2>1. later[g] = Accepted(x, prior)  BY <1>2 DEF FactAdded
  <2>2. /\ later[g].status = "current" /\ later[g].claim = x /\ later[g].prior = prior
    BY <2>1 DEF Accepted
  <2>3. CASE m = 0  BY <1>2, <2>2, <2>3 DEF FactOk
  <2>4. CASE m # 0
    <3>1. m \in 1 .. m /\ g - 1 = m /\ g # 1  BY <1>2, <2>4
    <3>2. later[g - 1] = fa[m]  BY <1>1, <3>1
    <3>. QED  BY <2>2, <3>1, <3>2 DEF FactOk
  <2>. QED  BY <2>3, <2>4
<1>3. CASE g # m + 1
  <2>1. g \in 1 .. m /\ FactOk(cl, fa, g) /\ later[g] = fa[g]  BY <1>1, <1>3
  <2>2. CASE g = 1  BY <2>1, <2>2 DEF FactOk
  <2>3. CASE g # 1
    <3>1. g - 1 \in 1 .. m  BY <2>1, <2>3
    <3>2. later[g - 1] = fa[g - 1]  BY <1>1, <3>1
    <3>. QED  BY <2>1, <3>2 DEF FactOk
  <2>. QED  BY <2>2, <2>3
<1>. QED  BY <1>2, <1>3

LEMMA AcceptStep ==
    ASSUME NEW u, NEW b, LedgerOk(claims, facts), Commit(u, b), b.kind = "accept"
    PROVE  LedgerOk(claims', facts') /\ Keeps(claims, facts, claims', facts')
<1>1. PICK m \in Nat : /\ UsedFacts(facts) = 1 .. m
                       /\ m # 0 => facts[m].status \in {"current", "revoked"}
  BY DEF LedgerOk, FactsOk
<1>2. LastFact(facts) = m  BY <1>1, LastOfInterval DEF LastFact
<1>3. /\ b.claim \in OpenIn(claims) /\ CurrentIn(facts) = {} /\ m + 1 \in FactIds
      /\ claims' = WithStatus(claims, b.claim, "accepted")
      /\ facts' = With(facts, m + 1, Accepted(b.claim, 0))
  BY <1>2, LedgerNames DEF Commit, Admissible, Legal, Room, Status, WithStatus, With
<1>4. "accepted" \in {"accepted", "rejected"}  OBVIOUS
<1>5. /\ LedgerOk(claims', facts) /\ Keeps(claims, facts, claims', facts)
      /\ ClaimDecided(claims, b.claim, "accepted", claims')
  BY <1>3, <1>4, DecisionStep, Zenon
<1>6. FactAdded(facts, m, Accepted(b.claim, 0), facts')
  <2>1. FactFields(facts)  BY DEF LedgerOk, FactsOk, FactFields
  <2>. QED  BY <1>1, <1>3, <2>1, AddsFact, Zenon
<1>7. m = 0 \/ facts[m].status = "revoked"
  <2>1. m # 0 => m \in UsedFacts(facts)  BY <1>1
  <2>2. facts[m].status = "current" /\ m # 0 => m \in CurrentIn(facts)
    BY <2>1 DEF UsedFacts, CurrentIn
  <2>. QED  BY <1>1, <1>3, <2>2
<1>8. \A g \in UsedFacts(facts') : FactOk(claims', facts', g)
  <2>1. b.claim \in ClaimIds  BY <1>3 DEF OpenIn
  <2>2. \A g \in UsedFacts(facts) : FactOk(claims', facts, g)  BY <1>5 DEF LedgerOk
  <2>3. claims'[b.claim].status = "accepted"  BY <1>5 DEF ClaimDecided
  <2>. QED  BY <1>1, <1>6, <1>7, <2>1, <2>2, <2>3, AcceptedFact, Zenon
<1>9. LedgerOk(claims', facts')  BY <1>5, <1>6, <1>8 DEF LedgerOk, FactAdded
<1>10. Keeps(claims, facts, claims', facts')
  <2>1. \A g \in UsedFacts(facts) : g \in UsedFacts(facts') /\ facts'[g] = facts[g]
    BY <1>1, <1>6 DEF FactAdded, UsedFacts
  <2>2. \A g \in FactIds : Gone(facts, g) => facts'[g].status = facts[g].status
    BY <2>1 DEF Gone, UsedFacts
  <2>3. GenerationIn(claims', LatestIn(claims')) # GenerationIn(claims, LatestIn(claims))
    BY <1>3, <1>4, <1>5, DecidedShows, Zenon
  <2>. QED  BY <1>5, <2>1, <2>2, <2>3 DEF Keeps
<1>. QED  BY <1>9, <1>10

LEMMA SupersedeStep ==
    ASSUME NEW u, NEW b, LedgerOk(claims, facts), Commit(u, b), b.kind = "supersede"
    PROVE  LedgerOk(claims', facts') /\ Keeps(claims, facts, claims', facts')
<1>. DEFINE mid == WithStatus(facts, b.fact, "superseded")
<1>1. PICK m \in Nat : UsedFacts(facts) = 1 .. m  BY DEF LedgerOk, FactsOk
<1>2. LastFact(facts) = m  BY <1>1, LastOfInterval DEF LastFact
<1>3. /\ b.claim \in OpenIn(claims) /\ b.fact \in CurrentIn(facts) /\ m + 1 \in FactIds
      /\ claims' = WithStatus(claims, b.claim, "accepted")
      /\ facts' = With(mid, m + 1, Accepted(b.claim, b.fact))
  BY <1>2, LedgerNames DEF Commit, Admissible, Legal, Room, Status, WithStatus, With
<1>4. /\ "accepted" \in {"accepted", "rejected"}
      /\ "superseded" \in {"superseded", "revoked"}
  OBVIOUS
<1>5. /\ LedgerOk(claims', facts) /\ Keeps(claims, facts, claims', facts)
      /\ ClaimDecided(claims, b.claim, "accepted", claims')
  BY <1>3, <1>4, DecisionStep, Zenon
<1>6. FactEnded(facts, b.fact, "superseded", mid)
  <2>1. FactsOk(facts)  BY DEF LedgerOk
  <2>. QED  BY <1>3, <1>4, <2>1, EndsFact, Zenon
<1>. HIDE DEF mid
<1>7. FactsStay(claims', facts, b.fact, mid)
  BY <1>3, <1>4, <1>5, <1>6, EndedFacts, Zenon
<1>8. /\ b.fact = m /\ m # 0 /\ FactFields(mid)
      /\ UsedFacts(mid) = 1 .. m /\ CurrentIn(mid) = {}
      /\ mid[m].status = "superseded"
  BY <1>1, <1>2, <1>6 DEF FactEnded
<1>9. FactAdded(mid, m, Accepted(b.claim, m), facts')
  BY <1>3, <1>8, AddsFact, Zenon
<1>10. \A g \in UsedFacts(facts') : FactOk(claims', facts', g)
  <2>1. b.claim \in ClaimIds  BY <1>3 DEF OpenIn
  <2>2. \A g \in UsedFacts(mid) : FactOk(claims', mid, g)  BY <1>1, <1>7, <1>8 DEF FactsStay
  <2>3. claims'[b.claim].status = "accepted"  BY <1>5 DEF ClaimDecided
  <2>. QED  BY <1>8, <1>9, <2>1, <2>2, <2>3, AcceptedFact, Zenon
<1>11. LedgerOk(claims', facts')  BY <1>5, <1>9, <1>10 DEF LedgerOk, FactAdded
<1>12. Keeps(claims, facts, claims', facts')
  <2>1. \A g \in UsedFacts(facts) : g \in UsedFacts(facts') /\ facts'[g] = mid[g]
    BY <1>1, <1>9 DEF FactAdded, UsedFacts
  <2>2. \A g \in FactIds : Gone(facts, g) => facts'[g].status = facts[g].status
    BY <1>7, <2>1 DEF Gone, UsedFacts, FactsStay
  <2>3. GenerationIn(claims', LatestIn(claims')) # GenerationIn(claims, LatestIn(claims))
    BY <1>3, <1>4, <1>5, DecidedShows, Zenon
  <2>. QED  BY <1>5, <1>7, <2>1, <2>2, <2>3 DEF Keeps, FactsStay
<1>. QED  BY <1>11, <1>12

(* Identifiers, open proposals and current facts stay in order.            *)
LEMMA CommitStep ==
    ASSUME NEW u, NEW b, LedgerOk(claims, facts), Commit(u, b)
    PROVE  LedgerOk(claims', facts') /\ Keeps(claims, facts, claims', facts')
<1>1. CASE b.kind = "capture"
  <2>1. claims' = claims /\ facts' = facts  BY <1>1 DEF Commit
  <2>. QED  BY <2>1, NothingStep, Zenon
<1>2. b.kind \in {"capture", "propose", "rework", "withdraw", "accept", "supersede", "revoke"}
  BY DEF Commit
<1>. QED  BY <1>1, <1>2, ProposeStep, ReworkStep, WithdrawStep, AcceptStep, SupersedeStep,
             RevokeStep
----------------------------------------------------------------------------
(***************************************************************************)
(* What a commit leaves true of pages and requests.                        *)
(***************************************************************************)
LEMMA StillPast ==
    ASSUME NEW cl, NEW fa, NEW later, NEW laterFa, Keeps(cl, fa, later, laterFa),
           NEW l, PastGeneration(cl, l)
    PROVE  PastGeneration(later, l)
BY DEF Keeps, PastGeneration, UsedClaims

(* A generation that is there again was never left, so that nothing became *)
(* current on it.                                                          *)
LEMMA StillSettled ==
    ASSUME NEW cl, NEW fa, NEW later, NEW laterFa, LedgerOk(cl, fa),
           LedgerOk(later, laterFa), Keeps(cl, fa, later, laterFa),
           NEW l, NEW f, PastGeneration(cl, l), Settled(cl, fa, l, f)
    PROVE  Settled(later, laterFa, l, f)
<1>. SUFFICES ASSUME GenerationIn(later, LatestIn(later)) = l, OpenIn(later) = {}
              PROVE  CurrentIn(laterFa) \subseteq {f}
  BY DEF Settled
<1>1. CASE GenerationIn(cl, LatestIn(cl)) = l
  BY <1>1 DEF Keeps, Settled
<1>2. CASE GenerationIn(cl, LatestIn(cl)) # l
  <2>1. PICK n \in Nat : UsedClaims(cl) = 1 .. n  BY DEF LedgerOk, ClaimsOk
  <2>2. PICK m \in Nat : UsedClaims(later) = 1 .. m  BY DEF LedgerOk, ClaimsOk
  <2>3. LatestIn(cl) = n /\ LatestIn(later) = m  BY <2>1, <2>2, LatestClaim
  <2>4. l = <<m, IF m = 0 THEN "none" ELSE later[m].status>>
    BY <2>3 DEF GenerationIn
  <2>5. n <= m
    <3>1. n # 0 => n \in UsedClaims(cl)  BY <2>1
    <3>2. n # 0 => n \in UsedClaims(later)  BY <3>1 DEF Keeps
    <3>. QED  BY <2>2, <3>2
  <2>6. CASE m = 0
    <3>1. n = 0  BY <2>5, <2>6
    <3>. QED  BY <1>2, <2>3, <2>4, <2>6, <3>1 DEF GenerationIn
  <2>7. CASE m # 0
    <3>1. l[1] = m /\ l[2] = later[m].status  BY <2>4, <2>7
    <3>2. m \in UsedClaims(cl) /\ (l[2] # "proposed" => cl[m].status = l[2])
      BY <2>7, <3>1 DEF PastGeneration
    <3>3. m = n  BY <2>1, <2>5, <3>2
    <3>4. l[2] # "proposed"  BY <3>1, <3>2 DEF OpenIn, UsedClaims
    <3>5. GenerationIn(cl, LatestIn(cl)) = <<m, l[2]>>
      BY <2>3, <2>7, <3>2, <3>3, <3>4 DEF GenerationIn
    <3>. QED  BY <1>2, <2>4, <2>7, <3>1, <3>5
  <2>. QED  BY <2>6, <2>7
<1>. QED  BY <1>1, <1>2

LEMMA StillSeen ==
    ASSUME NEW cl, NEW fa, NEW later, NEW laterFa, LedgerOk(cl, fa),
           LedgerOk(later, laterFa), Keeps(cl, fa, later, laterFa),
           NEW at, NEW s, SeenOk(cl, fa, at, s)
    PROVE  SeenOk(later, laterFa, at, s)
<1>1. PastGeneration(cl, s.latest)  BY DEF SeenOk
<1>2. PastGeneration(later, s.latest)  BY <1>1, StillPast, Zenon
<1>3. Settled(cl, fa, s.latest, s.fact) => Settled(later, laterFa, s.latest, s.fact)
  BY <1>1, StillSettled, Zenon
<1>4. s.fact # 0 => s.fact \in UsedFacts(laterFa) /\ laterFa[s.fact].claim = fa[s.fact].claim
  BY DEF SeenOk, Keeps
<1>. QED  BY <1>2, <1>3, <1>4 DEF SeenOk

LEMMA StillCalled ==
    ASSUME NEW cl, NEW fa, NEW later, NEW laterFa, LedgerOk(cl, fa),
           LedgerOk(later, laterFa), Keeps(cl, fa, later, laterFa),
           NEW r, NEW at, NEW s, CallOk(cl, fa, r, at, s)
    PROVE  CallOk(later, laterFa, r, at, s)
<1>1. RequestOk(later, laterFa, r)
  <2>1. CASE r.kind = "propose"
    <3>1. PastGeneration(cl, r.latest) /\ Settled(cl, fa, r.latest, r.fact)
      BY <2>1 DEF CallOk, RequestOk
    <3>2. PastGeneration(later, r.latest)  BY <3>1, StillPast, Zenon
    <3>3. Settled(later, laterFa, r.latest, r.fact)  BY <3>1, StillSettled, Zenon
    <3>. QED  BY <2>1, <3>2, <3>3 DEF RequestOk
  <2>2. CASE r.kind # "propose"  BY <2>2 DEF CallOk, RequestOk
  <2>. QED  BY <2>1, <2>2
<1>2. SeenOk(cl, fa, at, s) => SeenOk(later, laterFa, at, s)  BY StillSeen, Zenon
<1>. QED  BY <1>1, <1>2 DEF CallOk

----------------------------------------------------------------------------
(***************************************************************************)
(* The statements of a request.                                            *)
(***************************************************************************)
LEMMA ReadingProgram ==
    ASSUME NEW k \in Reading
    PROVE  /\ DOMAIN Program[k] = 1 .. 11
           /\ Program[k] = Page
           /\ Program[k][11] = "answer"
           /\ \A i \in 1 .. 10 : Program[k][i] \notin {"command", "answer"}
<1>1. Program[k] = Page  BY DEF Reading, Program, Before
<1>2. DOMAIN Page = 1 .. 11  BY DEF Page
<1>. QED  BY <1>1, <1>2 DEF Page

LEMMA ProposeProgram ==
    /\ DOMAIN Program["propose"] = 1 .. 10
    /\ Program["propose"] =
          <<"source", "fact", "factAgain", "revoked", "acceptedClaim",
            "latest", "status", "open", "openAgain">> \o <<"command">>
    /\ Program["propose"][10] = "command"
    /\ \A i \in 1 .. 9 : Program["propose"][i] \notin {"command", "answer"}
<1>1. Program["propose"] =
          <<"source", "fact", "factAgain", "revoked", "acceptedClaim",
            "latest", "status", "open", "openAgain">> \o <<"command">>
  BY DEF Program, Before
<1>. QED  BY <1>1

LEMMA AcceptProgram ==
    /\ DOMAIN Program["accept"] = 1 .. 8
    /\ Program["accept"][8] = "command"
    /\ \A i \in 1 .. 7 : Program["accept"][i] \notin {"command", "answer"}
<1>1. Program["accept"] =
          <<"source", "fact", "factAgain", "revoked", "acceptedClaim",
            "open", "openAgain">> \o <<"command">>
  BY DEF Program, Before
<1>. QED  BY <1>1

LEMMA RevokeProgram ==
    /\ DOMAIN Program["revoke"] = 1 .. 3
    /\ Program["revoke"][3] = "command"
    /\ \A i \in 1 .. 2 : Program["revoke"][i] \notin {"command", "answer"}
<1>1. Program["revoke"] = <<"fact", "factAgain">> \o <<"command">>
  BY DEF Program, Before
<1>. QED  BY <1>1

LEMMA ShortPrograms ==
    ASSUME NEW k \in {"capture", "rework"}
    PROVE  /\ DOMAIN Program[k] = 1 .. 2
           /\ Program[k][1] = "source" /\ Program[k][2] = "command"
<1>1. Program["capture"] = <<"source">> \o <<"command">>  BY DEF Program, Before
<1>2. Program["rework"] = <<"source">> \o <<"command">>  BY DEF Program, Before
<1>3. Program[k] = <<"source">> \o <<"command">>  BY <1>1, <1>2
<1>. QED  BY <1>3

LEMMA BareCommands ==
    ASSUME NEW k \in {"withdraw", "supersede"}
    PROVE  DOMAIN Program[k] = 1 .. 1 /\ Program[k][1] = "command"
<1>1. Program["withdraw"] = <<>> \o <<"command">>  BY DEF Program, Before
<1>2. Program["supersede"] = <<>> \o <<"command">>  BY DEF Program, Before
<1>3. Program[k] = <<>> \o <<"command">>  BY <1>1, <1>2
<1>. QED  BY <1>3

(* A program ends with its only command or answer. *)
LEMMA ProgramEnds ==
    ASSUME NEW k \in AllKinds
    PROVE  \E n \in Nat \ {0} :
              /\ DOMAIN Program[k] = 1 .. n
              /\ Program[k][n] \in {"command", "answer"}
              /\ \A i \in 1 .. (n - 1) : Program[k][i] \notin {"command", "answer"}
<1>1. CASE k \in Reading
  <2>1. /\ DOMAIN Program[k] = 1 .. 11 /\ Program[k][11] = "answer"
        /\ \A i \in 1 .. 10 : Program[k][i] \notin {"command", "answer"}
    BY <1>1, ReadingProgram, Zenon
  <2>. QED  BY <2>1
<1>2. CASE k = "propose"
  BY <1>2, ProposeProgram
<1>3. CASE k = "accept"
  BY <1>3, AcceptProgram
<1>4. CASE k = "revoke"
  BY <1>4, RevokeProgram
<1>5. CASE k \in {"capture", "rework"}
  <2>1. /\ DOMAIN Program[k] = 1 .. 2
        /\ Program[k][1] = "source" /\ Program[k][2] = "command"
    BY <1>5, ShortPrograms, Zenon
  <2>. QED  BY <2>1
<1>6. CASE k \in {"withdraw", "supersede"}
  <2>1. DOMAIN Program[k] = 1 .. 1 /\ Program[k][1] = "command"
    BY <1>6, BareCommands, Zenon
  <2>. QED  BY <2>1
<1>. QED  BY <1>1, <1>2, <1>3, <1>4, <1>5, <1>6 DEF AllKinds

(* Statements that are not needed are skipped, and no others. *)
LEMMA FollowingStatement ==
    ASSUME NEW k \in AllKinds, NEW s, NEW at \in Nat,
           \/ at = 0
           \/ at \in DOMAIN Program[k] /\ Program[k][at] \notin {"command", "answer"},
           NEW j, j = Following(k, at, s)
    PROVE  /\ j \in DOMAIN Program[k] /\ j \in Nat /\ j > at
           /\ \A i \in (at + 1) .. (j - 1) : ~Needed(Program[k][i], s)
           /\ Needed(Program[k][j], s)
<1>. DEFINE S == {i \in DOMAIN Program[k] : i > at /\ Needed(Program[k][i], s)}
<1>1. PICK n \in Nat \ {0} :
         /\ DOMAIN Program[k] = 1 .. n
         /\ Program[k][n] \in {"command", "answer"}
         /\ \A i \in 1 .. (n - 1) : Program[k][i] \notin {"command", "answer"}
  BY ProgramEnds
<1>2. at < n  BY <1>1
<1>3. Needed("command", s) /\ Needed("answer", s)  BY DEF Needed
<1>4. n \in S  BY <1>1, <1>2, <1>3
<1>5. S \subseteq Nat /\ S # {}  BY <1>1, <1>4
<1>6. PICK m \in S : \A i \in S : m <= i
  <2>. HIDE DEF S
  <2>. QED  BY <1>5, LeastOf
<1>7. /\ m \in DOMAIN Program[k] /\ m > at /\ Needed(Program[k][m], s)
      /\ \A i \in (at + 1) .. (m - 1) : ~Needed(Program[k][i], s)
  <2>1. m \in 1 .. n /\ m > at  BY <1>1, <1>6
  <2>2. ASSUME NEW i \in (at + 1) .. (m - 1), Needed(Program[k][i], s)  PROVE FALSE
    <3>1. i \in 1 .. n /\ i > at /\ ~(m <= i)  BY <2>1, <2>2
    <3>2. i \in S  BY <1>1, <2>2, <3>1
    <3>. QED  BY <1>6, <3>1, <3>2
  <2>. QED  BY <1>6, <2>2
<1>8. /\ j \in DOMAIN Program[k] /\ j > at /\ Needed(Program[k][j], s)
      /\ \A i \in (at + 1) .. (j - 1) : ~Needed(Program[k][i], s)
  BY <1>7, Zenon DEF Following
<1>. QED  BY <1>1, <1>8

(* What a statement changes of what was seen. *)
LEMMA ReadFields ==
    ASSUME NEW s, DOMAIN s = SeenFields, NEW step, NEW t, t = Read(step, s)
    PROVE  /\ DOMAIN t = SeenFields
           /\ t.latest = IF step = "latest" THEN Generation(LatestId)
                         ELSE IF step = "status" THEN Generation(s.latest[1]) ELSE s.latest
           /\ t.source = IF step = "source" THEN source ELSE s.source
           /\ t.fact = IF step = "fact" THEN Last(Current) ELSE s.fact
           /\ t.open = IF step = "open" THEN Last(Open)
                       ELSE IF step = "openAgain" THEN StillOpen(s.open) ELSE s.open
           /\ t.history = IF step = "history" THEN Past(s.fact)
                          ELSE IF step = "revoked" THEN Past(0) ELSE s.history
<1>. USE DEF Read, SeenFields
<1>1. CASE step = "latest"  BY <1>1
<1>2. CASE step = "status"  BY <1>2
<1>3. CASE step = "source"  BY <1>3
<1>4. CASE step = "fact"  BY <1>4
<1>5. CASE step = "open"  BY <1>5
<1>6. CASE step = "openAgain"  BY <1>6
<1>7. CASE step = "history"  BY <1>7
<1>8. CASE step = "revoked"  BY <1>8
<1>9. CASE step = "rights"  BY <1>9
<1>10. CASE step \notin {"latest", "status", "source", "fact", "open", "openAgain",
                          "history", "revoked", "rights"}
  BY <1>10
<1>. QED  BY <1>1, <1>2, <1>3, <1>4, <1>5, <1>6, <1>7, <1>8, <1>9, <1>10

(* What is read of a ledger that is in order. *)
LEMMA LedgerRead ==
    ASSUME LedgerOk(claims, facts)
    PROVE  /\ PastGeneration(claims, Generation(LatestId))
           /\ \A l : PastGeneration(claims, l) => PastGeneration(claims, Generation(l[1]))
           /\ Last(Current) # 0 => Last(Current) \in UsedFacts(facts)
           /\ Current \subseteq {Last(Current)}
           /\ Last(Open) # 0 => Last(Open) \in Open
<1>1. PICK n \in Nat : UsedClaims(claims) = 1 .. n /\ OpenIn(claims) \subseteq {n}
  BY DEF LedgerOk, ClaimsOk
<1>2. PICK m \in Nat : UsedFacts(facts) = 1 .. m /\ CurrentIn(facts) \subseteq {m}
  BY DEF LedgerOk, FactsOk
<1>3. Last(Open) = IF Open = {} THEN 0 ELSE n  BY <1>1, LedgerNames, LastOfOne
<1>4. Last(Current) = IF Current = {} THEN 0 ELSE m  BY <1>2, LedgerNames, LastOfOne
<1>5. Current \subseteq UsedFacts(facts)
  BY LedgerNames DEF CurrentIn, UsedFacts
<1>6. LatestId = n  BY <1>1, LedgerNames, LatestClaim
<1>7. \A x \in Nat : x = 0 \/ x \in UsedClaims(claims) =>
         PastGeneration(claims, Generation(x))
  BY DEF PastGeneration, Generation
<1>8. n = 0 \/ n \in UsedClaims(claims)  BY <1>1
<1>9. \A l : PastGeneration(claims, l) => l[1] = 0 \/ (l[1] \in Nat /\ l[1] \in UsedClaims(claims))
  BY <1>1 DEF PastGeneration
<1>10. Current # {} => m \in Current  BY <1>2, LedgerNames
<1>11. Open # {} => n \in Open  BY <1>1, LedgerNames
<1>12. Current \subseteq {Last(Current)}  BY <1>2, <1>4, LedgerNames
<1>. QED  BY <1>3, <1>4, <1>5, <1>6, <1>7, <1>8, <1>9, <1>10, <1>11, <1>12

(* One statement of a page: the fact is read before the open proposal, and *)
(* a claim that is behind a fact is never open again.                      *)
LEMMA PageRead ==
    ASSUME LedgerOk(claims, facts), NEW at \in 1 .. 10, NEW s, DOMAIN s = SeenFields,
           SeenOk(claims, facts, at, s), NEW t, t = Read(Page[at], s)
    PROVE  SeenOk(claims, facts, at + 1, t)
<1>. DEFINE step == Page[at]
<1>1. /\ t.latest = IF step = "latest" THEN Generation(LatestId)
                    ELSE IF step = "status" THEN Generation(s.latest[1]) ELSE s.latest
      /\ t.fact = IF step = "fact" THEN Last(Current) ELSE s.fact
      /\ t.open = IF step = "open" THEN Last(Open)
                  ELSE IF step = "openAgain" THEN StillOpen(s.open) ELSE s.open
  BY ReadFields
<1>2. /\ step = "latest" <=> at = 1
      /\ step = "status" <=> at = 2
      /\ step = "fact" <=> at = 4
      /\ step = "open" <=> at = 6
      /\ step = "openAgain" <=> at = 7
  BY DEF Page
<1>. HIDE DEF step
<1>3. PastGeneration(claims, t.latest)
  BY <1>1, LedgerRead DEF SeenOk
<1>4. t.fact # 0 => t.fact \in UsedFacts(facts)
  BY <1>1, LedgerRead DEF SeenOk
<1>5. at + 1 <= FactRead => t.open = 0
  BY <1>1, <1>2 DEF SeenOk, FactRead
<1>6. t.fact # 0 /\ t.open # 0 => facts[t.fact].claim # t.open
  <2>1. \A x \in Open : \A f \in UsedFacts(facts) : facts[f].claim # x
    BY LedgerNames DEF LedgerOk, FactOk, OpenIn
  <2>2. CASE step = "open"
    <3>1. t.open # 0 => t.open \in Open  BY <1>1, <2>2, LedgerRead
    <3>. QED  BY <1>4, <2>1, <3>1
  <2>3. CASE step = "fact"
    <3>1. t.open = 0  BY <1>1, <1>2, <2>3 DEF SeenOk, FactRead
    <3>. QED  BY <3>1
  <2>4. CASE step \notin {"open", "fact"}
    <3>1. t.fact = s.fact /\ t.open \in {0, s.open}  BY <1>1, <2>4 DEF StillOpen
    <3>. QED  BY <3>1 DEF SeenOk
  <2>. QED  BY <2>2, <2>3, <2>4
<1>7. at + 1 > FactRead => Settled(claims, facts, t.latest, t.fact)
  <2>1. CASE at = 4
    <3>1. CurrentIn(facts) \subseteq {t.fact}  BY <1>1, <1>2, <2>1, LedgerNames, LedgerRead
    <3>. QED  BY <3>1 DEF Settled
  <2>2. CASE at > 4
    BY <1>1, <1>2, <2>2 DEF SeenOk, FactRead
  <2>. QED  BY <2>1, <2>2 DEF FactRead
<1>. QED  BY <1>3, <1>4, <1>5, <1>6, <1>7 DEF SeenOk

(* The fact is always read. *)
LEMMA PageStep ==
    ASSUME LedgerOk(claims, facts), NEW k \in Reading, NEW at \in 1 .. 10, NEW s,
           DOMAIN s = SeenFields, SeenOk(claims, facts, at, s),
           NEW t, t = Read(Page[at], s), NEW j, j = Following(k, at, t)
    PROVE  j \in DOMAIN Program[k] /\ SeenOk(claims, facts, j, t) /\ Program[k][j] # "command"
<1>1. /\ DOMAIN Program[k] = 1 .. 11 /\ Program[k] = Page /\ Program[k][11] = "answer"
      /\ \A i \in 1 .. 10 : Program[k][i] \notin {"command", "answer"}
  BY ReadingProgram
<1>2. /\ j \in DOMAIN Program[k] /\ j \in Nat /\ j > at
      /\ \A i \in (at + 1) .. (j - 1) : ~Needed(Program[k][i], t)
  <2>1. k \in AllKinds /\ at \in Nat /\ at \in DOMAIN Program[k]
        /\ Program[k][at] \notin {"command", "answer"}
    BY <1>1 DEF AllKinds
  <2>. QED  BY <2>1, FollowingStatement, Zenon
<1>3. SeenOk(claims, facts, at + 1, t)  BY PageRead
<1>4. at < 4 => j <= 4
  <2>1. Page[4] = "fact" /\ Needed("fact", t)  BY DEF Page, Needed
  <2>2. ASSUME at < 4, ~(j <= 4)  PROVE FALSE
    <3>1. 4 \in (at + 1) .. (j - 1)  BY <1>2, <2>2
    <3>. QED  BY <1>1, <1>2, <2>1, <3>1
  <2>. QED  BY <2>2
<1>5. SeenOk(claims, facts, j, t)
  BY <1>2, <1>3, <1>4 DEF SeenOk, FactRead
<1>6. Program[k][j] # "command"  BY <1>1, <1>2
<1>. QED  BY <1>2, <1>5, <1>6

(* A proposal is given only on the generation and the source that it names.*)
AsNamed(r, j, t) ==
    /\ t.source.rev # 0 /\ t.source.rev = r.rev
    /\ j = 10 => t.latest = r.latest

LEMMA ProposalRead ==
    ASSUME NEW r, r.kind = "propose", NEW at \in 1 .. 9, NEW s, DOMAIN s = SeenFields,
           at > 1 => s.source.rev # 0 /\ s.source.rev = r.rev,
           NEW step, step = Program["propose"][at], NEW t, t = Read(step, s),
           ~Misfit(r, step, t), ~Fulfilled(r, step, t),
           NEW j, j = Following("propose", at, t)
    PROVE  AsNamed(r, j, t)
<1>1. /\ step = "source" <=> at = 1
      /\ step = "open" <=> at = 8
      /\ step = "openAgain" <=> at = 9
      /\ Program["propose"][8] = "open" /\ Program["propose"][9] = "openAgain"
  BY ProposeProgram
<1>2. /\ j \in 1 .. 10 /\ j > at
      /\ \A i \in (at + 1) .. (j - 1) : ~Needed(Program["propose"][i], t)
  <2>1. "propose" \in AllKinds  BY DEF AllKinds
  <2>2. at \in DOMAIN Program["propose"]
        /\ Program["propose"][at] \notin {"command", "answer"} /\ at \in Nat
    BY ProposeProgram
  <2>3. /\ j \in DOMAIN Program["propose"] /\ j \in Nat /\ j > at
        /\ \A i \in (at + 1) .. (j - 1) : ~Needed(Program["propose"][i], t)
    BY <2>1, <2>2, FollowingStatement, Zenon
  <2>. QED  BY <2>3, ProposeProgram
<1>3. t.source.rev # 0 /\ t.source.rev = r.rev
  <2>1. CASE at = 1
    BY <1>1, <2>1 DEF Misfit
  <2>2. CASE at # 1
    <3>1. t.source = s.source  BY <1>1, <2>2, ReadFields
    <3>. QED  BY <2>2, <3>1
  <2>. QED  BY <2>1, <2>2
<1>4. ASSUME j = 10  PROVE t.latest = r.latest
  <2>1. Needed("open", t)  BY <1>3 DEF Needed
  <2>2. at >= 8
    <3>1. at < 8 => 8 \in (at + 1) .. (j - 1)  BY <1>4
    <3>. QED  BY <1>1, <1>2, <2>1, <3>1
  <2>3. CASE at = 8
    <3>1. 9 \in (at + 1) .. (j - 1)  BY <1>4, <2>3
    <3>2. ~Needed("openAgain", t)  BY <1>1, <1>2, <3>1
    <3>3. t.open = 0  BY <3>2 DEF Needed
    <3>. QED  BY <1>1, <2>3, <3>3 DEF Misfit
  <2>4. CASE at = 9
    BY <1>1, <2>4 DEF Misfit, Fulfilled
  <2>. QED  BY <2>2, <2>3, <2>4
<1>. QED  BY <1>3, <1>4 DEF AsNamed

(* What a request has seen when its next statement is its command. *)
Seen(k, j, t) == IF Program[k][j] # "command" THEN t
                 ELSE [Unread EXCEPT !.latest = t.latest, !.source = t.source]

LEMMA SeenNext ==
    ASSUME NEW k, NEW j, NEW t, DOMAIN t = SeenFields, NEW w, w = Seen(k, j, t)
    PROVE  /\ DOMAIN w = SeenFields
           /\ w.latest = t.latest /\ w.source = t.source
BY DEF Seen, SeenFields, Unread

(* A statement of a request. *)
LEMMA CallRead ==
    ASSUME LedgerOk(claims, facts), NEW r, NEW at, NEW s, CallOk(claims, facts, r, at, s),
           NEW step, step = Program[r.kind][at], step \notin {"command", "answer"},
           NEW t, t = Read(step, s), ~Misfit(r, step, t), ~Fulfilled(r, step, t),
           NEW j, j = Following(r.kind, at, t), NEW w, w = Seen(r.kind, j, t)
    PROVE  CallOk(claims, facts, r, j, w)
<1>1. /\ r.kind \in AllKinds /\ at \in DOMAIN Program[r.kind] /\ DOMAIN s = SeenFields
      /\ RequestOk(claims, facts, r)
  BY DEF CallOk
<1>2. at \in Nat
  <2>1. PICK n \in Nat \ {0} : DOMAIN Program[r.kind] = 1 .. n  BY <1>1, ProgramEnds
  <2>. QED  BY <1>1, <2>1
<1>3. j \in DOMAIN Program[r.kind]
  BY <1>1, <1>2, FollowingStatement, Zenon
<1>4. DOMAIN t = SeenFields  BY <1>1, ReadFields, Zenon
<1>5. DOMAIN w = SeenFields /\ w.latest = t.latest /\ w.source = t.source
  BY <1>4, SeenNext
<1>6. ASSUME r.kind \in Reading  PROVE SeenOk(claims, facts, j, w)
  <2>1. /\ DOMAIN Program[r.kind] = 1 .. 11 /\ Program[r.kind] = Page
        /\ Program[r.kind][11] = "answer"
    BY <1>6, ReadingProgram, Zenon
  <2>2. at \in 1 .. 10 /\ step = Page[at]  BY <1>1, <2>1
  <2>3. SeenOk(claims, facts, at, s)  BY <1>6 DEF CallOk
  <2>4. SeenOk(claims, facts, j, t) /\ Program[r.kind][j] # "command"
    BY <1>1, <1>6, <2>2, <2>3, PageStep, Zenon
  <2>. QED  BY <2>4 DEF Seen
<1>7. ASSUME r.kind = "propose"
      PROVE  /\ w.source.rev # 0 /\ w.source.rev = r.rev
             /\ j = 10 => w.latest = r.latest
  <2>1. at \in 1 .. 9 /\ step = Program["propose"][at]
    BY <1>1, <1>7, ProposeProgram
  <2>2. at > 1 => s.source.rev # 0 /\ s.source.rev = r.rev
    BY <1>7 DEF CallOk
  <2>3. j = Following("propose", at, t)  BY <1>7
  <2>4. AsNamed(r, j, t)
    BY <1>1, <1>7, <2>1, <2>2, <2>3, ProposalRead, Zenon
  <2>. QED  BY <1>5, <2>4 DEF AsNamed
<1>8. ASSUME r.kind = "rework"  PROVE w.source.rev # 0 /\ w.source.rev = r.rev
  <2>1. DOMAIN Program["rework"] = 1 .. 2 /\ Program["rework"][1] = "source"
        /\ Program["rework"][2] = "command"
    BY ShortPrograms
  <2>2. step = "source"  BY <1>1, <1>8, <2>1
  <2>3. t.source.rev # 0 /\ t.source.rev = r.rev  BY <1>8, <2>2 DEF Misfit
  <2>. QED  BY <1>5, <2>3
<1>. QED  BY <1>1, <1>3, <1>5, <1>6, <1>7, <1>8 DEF CallOk, Reading

(* A request that begins. *)
LEMMA CallBegins ==
    ASSUME NEW cl, NEW fa, NEW r, r.kind \in AllKinds, RequestOk(cl, fa, r),
           NEW j, j = Following(r.kind, 0, Unread)
    PROVE  CallOk(cl, fa, r, j, Unread)
<1>1. /\ j \in DOMAIN Program[r.kind] /\ j \in Nat /\ j > 0
      /\ \A i \in (0 + 1) .. (j - 1) : ~Needed(Program[r.kind][i], Unread)
  <2>1. 0 \in Nat  OBVIOUS
  <2>. QED  BY <2>1, FollowingStatement, Zenon
<1>2. Needed("latest", Unread) /\ Needed("source", Unread)  BY DEF Needed
<1>3. ASSUME r.kind \in Reading \cup {"propose", "rework"}  PROVE j = 1
  <2>1. Program[r.kind][1] \in {"latest", "source"}
    <3>1. CASE r.kind \in Reading
      <4>1. Program[r.kind] = Page  BY <3>1, ReadingProgram, Zenon
      <4>. QED  BY <4>1 DEF Page
    <3>2. CASE r.kind = "propose"  BY <3>2, ProposeProgram
    <3>3. CASE r.kind = "rework"
      <4>1. Program["rework"][1] = "source"  BY ShortPrograms
      <4>. QED  BY <3>3, <4>1
    <3>. QED  BY <1>3, <3>1, <3>2, <3>3
  <2>2. Needed(Program[r.kind][1], Unread)  BY <1>2, <2>1
  <2>3. j # 1 => 1 \in (0 + 1) .. (j - 1)  BY <1>1
  <2>. QED  BY <1>1, <2>2, <2>3
<1>4. DOMAIN Unread = SeenFields /\ Unread.fact = 0 /\ Unread.open = 0
      /\ Unread.latest[1] = 0
  BY DEF Unread, SeenFields
<1>5. SeenOk(cl, fa, 1, Unread)
  BY <1>4 DEF SeenOk, PastGeneration, FactRead
<1>. QED  BY <1>1, <1>3, <1>4, <1>5 DEF CallOk

LEMMA AskedOk ==
    ASSUME NEW cl, NEW fa, NEW r, r.kind \in AllKinds, RequestOk(cl, fa, r), NEW quiet
    PROVE  CallInv(cl, fa, Asked(r, quiet))
<1>. DEFINE call == Asked(r, quiet)
<1>1. /\ DOMAIN call = CallFields
      /\ call.req = r /\ call.at = Following(r.kind, 0, Unread) /\ call.seen = Unread
  BY DEF Asked, CallFields
<1>2. CallOk(cl, fa, r, Following(r.kind, 0, Unread), Unread)  BY CallBegins, Zenon
<1>. QED  BY <1>1, <1>2 DEF CallInv

LEMMA AnsweringOk ==
    ASSUME NEW cl, NEW fa, NEW call
    PROVE  Answering(call) = None \/ CallInv(cl, fa, Answering(call))
<1>1. CASE call.awaited
  <2>. DEFINE done == Asked(Done, call.quiet)
  <2>1. Done.kind \in AllKinds /\ RequestOk(cl, fa, Done)
    BY DEF Done, AllKinds, Reading, RequestOk
  <2>2. CallInv(cl, fa, done)  BY <2>1, AskedOk, Zenon
  <2>. HIDE DEF done
  <2>3. DOMAIN done = CallFields  BY <2>2 DEF CallInv
  <2>4. Answering(call) = [done EXCEPT !.interrupted = call.interrupted]
    BY <1>1 DEF Answering, done
  <2>5. /\ DOMAIN Answering(call) = CallFields
        /\ Answering(call).req = done.req /\ Answering(call).at = done.at
        /\ Answering(call).seen = done.seen
    BY <2>3, <2>4 DEF CallFields
  <2>. QED  BY <2>2, <2>5 DEF CallInv
<1>2. CASE ~call.awaited
  BY <1>2 DEF Answering
<1>. QED  BY <1>1, <1>2

LEMMA LoadOk ==
    ASSUME NEW cl, NEW fa
    PROVE  Load.kind \in AllKinds /\ RequestOk(cl, fa, Load)
BY DEF Load, AllKinds, Reading, RequestOk

LEMMA ReloadOk ==
    ASSUME NEW cl, NEW fa
    PROVE  CallInv(cl, fa, Reload)
BY LoadOk, AskedOk, Zenon DEF Reload

(* The buttons of a page name what the page showed. *)
LEMMA OffersOk ==
    ASSUME NEW v, PageOk(claims, facts, v), NEW r \in Offers(v) \cup {Load}
    PROVE  r.kind \in AllKinds /\ RequestOk(claims, facts, r)
<1>1. CASE r = Load
  BY <1>1, LoadOk
<1>2. CASE r = [kind |-> "draft"]
  BY <1>2 DEF AllKinds, Reading, RequestOk
<1>3. ASSUME NEW k \in {"capture", "propose", "rework", "withdraw", "accept", "supersede",
                       "revoke"},
             NEW data, r = Request(k, data, v)
      PROVE  r.kind \in AllKinds /\ RequestOk(claims, facts, r)
  <2>1. r.kind = k  BY <1>3 DEF Request
  <2>2. CASE k = "propose"
    <3>1. r.latest = v.latest /\ r.fact = v.fact  BY <1>3, <2>2 DEF Request, Names
    <3>2. PastGeneration(claims, v.latest) /\ Settled(claims, facts, v.latest, v.fact)
      BY DEF PageOk, SeenOk, FactRead
    <3>. QED  BY <2>1, <2>2, <3>1, <3>2 DEF RequestOk, AllKinds
  <2>3. CASE k = "accept"
    <3>1. r.fact = 0  BY <1>3, <2>3 DEF Request, Names
    <3>. QED  BY <2>1, <2>3, <3>1 DEF RequestOk, AllKinds
  <2>4. CASE k = "revoke"
    <3>1. r.open = 0  BY <1>3, <2>4 DEF Request, Names
    <3>. QED  BY <2>1, <2>4, <3>1 DEF RequestOk, AllKinds
  <2>5. CASE k \notin {"propose", "accept", "revoke"}
    BY <2>1, <2>5 DEF RequestOk, AllKinds
  <2>. QED  BY <2>2, <2>3, <2>4, <2>5
<1>4. \/ r = Load \/ r = [kind |-> "draft"]
      \/ \E k \in {"capture", "propose", "rework", "withdraw", "accept", "supersede", "revoke"} :
            \E data : r = Request(k, data, v)
  BY DEF Offers
<1>. QED  BY <1>1, <1>2, <1>3, <1>4

(* A commit by somebody else. *)
LEMMA OthersStay ==
    ASSUME NEW cl, NEW fa, NEW later, NEW laterFa, LedgerOk(cl, fa),
           LedgerOk(later, laterFa), Keeps(cl, fa, later, laterFa),
           NEW call, CallInv(cl, fa, call)
    PROVE  CallInv(later, laterFa, [call EXCEPT !.quiet = FALSE, !.interrupted = @ + 1])
<1>. DEFINE disturbed == [call EXCEPT !.quiet = FALSE, !.interrupted = @ + 1]
<1>1. CallOk(cl, fa, call.req, call.at, call.seen) /\ DOMAIN call = CallFields
  BY DEF CallInv
<1>2. CallOk(later, laterFa, call.req, call.at, call.seen)  BY <1>1, StillCalled, Zenon
<1>3. /\ DOMAIN disturbed = CallFields
      /\ disturbed.req = call.req /\ disturbed.at = call.at /\ disturbed.seen = call.seen
  BY <1>1 DEF CallFields
<1>. QED  BY <1>2, <1>3 DEF CallInv

LEMMA InterruptedOk ==
    ASSUME Inv, LedgerOk(claims', facts'), Keeps(claims, facts, claims', facts')
    PROVE  \A d \in Calls : Interrupted[d] # None => CallInv(claims', facts', Interrupted[d])
<1>. SUFFICES ASSUME NEW d \in Calls, Interrupted[d] # None
              PROVE  CallInv(claims', facts', Interrupted[d])
  OBVIOUS
<1>1. Interrupted[d] = IF calls[d] = None THEN None
                       ELSE [calls[d] EXCEPT !.quiet = FALSE, !.interrupted = @ + 1]
  BY DEF Interrupted
<1>2. calls[d] # None  BY <1>1
<1>3. LedgerOk(claims, facts) /\ CallInv(claims, facts, calls[d])  BY <1>2 DEF Inv
<1>4. CallInv(claims', facts', [calls[d] EXCEPT !.quiet = FALSE, !.interrupted = @ + 1])
  BY <1>3, OthersStay, Zenon
<1>. QED  BY <1>1, <1>2, <1>4, Zenon

LEMMA PageStays ==
    ASSUME Inv, LedgerOk(claims', facts'), Keeps(claims, facts, claims', facts'),
           page # None
    PROVE  PageOk(claims', facts', page)
<1>1. LedgerOk(claims, facts) /\ SeenOk(claims, facts, FactRead + 1, page)
  BY DEF Inv, PageOk
<1>. QED  BY <1>1, StillSeen, Zenon DEF PageOk

(* A step that leaves the ledger alone. *)
LEMMA QuietStep ==
    ASSUME Inv, UNCHANGED <<claims, facts>>,
           page' # None => page' = page \/ PageOk(claims, facts, page'),
           DOMAIN calls' = Calls,
           \A d \in Calls : calls'[d] # None =>
              calls'[d] = calls[d] \/ CallInv(claims, facts, calls'[d])
    PROVE  Inv'
<1>1. LedgerOk(claims', facts')  BY DEF Inv
<1>2. page' # None => PageOk(claims', facts', page')  BY DEF Inv
<1>3. \A d \in Calls : calls'[d] # None => CallInv(claims', facts', calls'[d])
  BY DEF Inv
<1>. QED  BY <1>1, <1>2, <1>3 DEF Inv

LEMMA ReadStepOk ==
    ASSUME Inv, NEW c \in Calls, ReadStep(c), UNCHANGED page
    PROVE  Inv'
<1>. DEFINE call == calls[c]
            r == call.req
            t == Read(Step(c), call.seen)
<1>1. /\ call # None /\ Step(c) \notin {"command", "answer"} /\ ~Misfit(r, Step(c), t)
      /\ calls' = [calls EXCEPT ![c] = IF Fulfilled(r, Step(c), t) THEN Answering(call)
                                       ELSE GoOn(call, t)]
      /\ UNCHANGED <<claims, facts>>
  BY DEF ReadStep, ledger
<1>2. LedgerOk(claims, facts) /\ DOMAIN call = CallFields
      /\ CallOk(claims, facts, r, call.at, call.seen)
  BY <1>1 DEF Inv, CallInv
<1>3. CASE Fulfilled(r, Step(c), t)
  <2>1. calls' = [calls EXCEPT ![c] = Answering(call)]  BY <1>1, <1>3
  <2>. QED  BY <1>1, <2>1, AnsweringOk, QuietStep DEF Inv
<1>4. CASE ~Fulfilled(r, Step(c), t)
  <2>. DEFINE j == Following(r.kind, call.at, t)
              w == Seen(r.kind, j, t)
  <2>1. Step(c) = Program[r.kind][call.at]  BY DEF Step
  <2>2. CallOk(claims, facts, r, j, w)
    BY <1>1, <1>2, <1>4, <2>1, CallRead, Zenon
  <2>3. GoOn(call, t) = [call EXCEPT !.at = j, !.seen = w]
    BY DEF GoOn, Seen
  <2>4. CallInv(claims, facts, GoOn(call, t))
    <3>. HIDE DEF j, w
    <3>1. /\ DOMAIN GoOn(call, t) = CallFields
          /\ GoOn(call, t).req = r /\ GoOn(call, t).at = j /\ GoOn(call, t).seen = w
      BY <1>2, <2>3 DEF CallFields
    <3>. QED  BY <2>2, <3>1 DEF CallInv
  <2>5. calls' = [calls EXCEPT ![c] = GoOn(call, t)]  BY <1>1, <1>4
  <2>. QED  BY <1>1, <2>4, <2>5, QuietStep DEF Inv
<1>. QED  BY <1>3, <1>4

LEMMA ExecuteOk ==
    ASSUME Inv, NEW c \in Calls, Execute(c), UNCHANGED page
    PROVE  Inv'
<1>1. CASE UNCHANGED ledger /\ calls' = [calls EXCEPT ![c] = Answering(@)]
  BY <1>1, AnsweringOk, QuietStep DEF Inv, ledger
<1>2. CASE /\ Commit(User, CommandOf(c))
           /\ calls' = [Interrupted EXCEPT ![c] = Answering(calls[c])]
  <2>1. LedgerOk(claims', facts') /\ Keeps(claims, facts, claims', facts')
    BY <1>2, CommitStep DEF Inv
  <2>2. DOMAIN Interrupted = Calls  BY DEF Interrupted
  <2>3. \A d \in Calls : Interrupted[d] # None => CallInv(claims', facts', Interrupted[d])
    BY <2>1, InterruptedOk, Zenon
  <2>4. Answering(calls[c]) = None \/ CallInv(claims', facts', Answering(calls[c]))
    BY AnsweringOk, Zenon
  <2>5. page' # None => PageOk(claims', facts', page')  BY <2>1, PageStays
  <2>6. DOMAIN calls' = Calls
        /\ \A d \in Calls : calls'[d] # None => CallInv(claims', facts', calls'[d])
    BY <1>2, <2>2, <2>3, <2>4
  <2>. QED  BY <2>1, <2>5, <2>6 DEF Inv
<1>. QED  BY <1>1, <1>2 DEF Execute

LEMMA OthersOk ==
    ASSUME Inv, Others, UNCHANGED page
    PROVE  Inv'
<1>1. LedgerOk(claims', facts') /\ Keeps(claims, facts, claims', facts')
  <2>1. CASE \E u \in cast.people, b \in Sendable : Commit(u, b)
    BY <2>1, CommitStep DEF Inv
  <2>2. CASE (\E n \in Notes : Correct(n)) \/ Tombstone
    <3>1. claims' = claims /\ facts' = facts  BY <2>2 DEF Correct, Tombstone
    <3>2. LedgerOk(claims, facts)  BY DEF Inv
    <3>3. Keeps(claims, facts, claims, facts)  BY <3>2, NothingStep, Zenon
    <3>. QED  BY <3>1, <3>2, <3>3, Zenon
  <2>. QED  BY <2>1, <2>2 DEF Others
<1>2. \A d \in Calls : Interrupted[d] # None => CallInv(claims', facts', Interrupted[d])
  BY <1>1, InterruptedOk, Zenon
<1>3. calls' = Interrupted /\ DOMAIN Interrupted = Calls  BY DEF Others, Interrupted
<1>4. page' # None => PageOk(claims', facts', page')  BY <1>1, PageStays
<1>. QED  BY <1>1, <1>2, <1>3, <1>4 DEF Inv

LEMMA SendOk ==
    ASSUME Inv, NEW c \in Calls, NEW r, r.kind \in AllKinds, RequestOk(claims, facts, r),
           Send(c, r)
    PROVE  Inv'
<1>1. CallInv(claims, facts, Asked(r, r.kind = "load" \/ page = PageNow))
  BY AskedOk, Zenon
<1>2. /\ calls' = [calls EXCEPT ![c] = Asked(r, r.kind = "load" \/ page = PageNow)]
      /\ UNCHANGED <<claims, facts, page>>
  BY DEF Send, ledger
<1>. HIDE DEF Asked
<1>. QED  BY <1>1, <1>2, QuietStep DEF Inv

(* What is answered is a page that was read to its end. *)
LEMMA AnswersAPage ==
    ASSUME Inv, NEW c \in Calls, Answer(c)
    PROVE  /\ calls[c] # None /\ calls[c].req.kind \in Reading /\ calls[c].at = 11
           /\ CallOk(claims, facts, calls[c].req, calls[c].at, calls[c].seen)
<1>. DEFINE call == calls[c]
            k == call.req.kind
<1>1. call # None /\ Program[k][call.at] = "answer"  BY DEF Answer, Step
<1>2. CallOk(claims, facts, call.req, call.at, call.seen)  BY <1>1 DEF Inv, CallInv
<1>3. k \in AllKinds /\ call.at \in DOMAIN Program[k]  BY <1>2 DEF CallOk
<1>4. k \in Reading
  <2>1. CASE k = "propose"  BY <1>1, <1>3, <2>1, ProposeProgram
  <2>2. CASE k = "accept"  BY <1>1, <1>3, <2>2, AcceptProgram
  <2>3. CASE k = "revoke"  BY <1>1, <1>3, <2>3, RevokeProgram
  <2>4. CASE k \in {"capture", "rework"}
    <3>1. /\ DOMAIN Program[k] = 1 .. 2
          /\ Program[k][1] = "source" /\ Program[k][2] = "command"
      BY <2>4, ShortPrograms, Zenon
    <3>. QED  BY <1>1, <1>3, <3>1
  <2>5. CASE k \in {"withdraw", "supersede"}
    <3>1. DOMAIN Program[k] = 1 .. 1 /\ Program[k][1] = "command"
      BY <2>5, BareCommands, Zenon
    <3>. QED  BY <1>1, <1>3, <3>1
  <2>. QED  BY <1>3, <2>1, <2>2, <2>3, <2>4, <2>5 DEF AllKinds
<1>5. call.at = 11
  <2>1. /\ DOMAIN Program[k] = 1 .. 11
        /\ \A i \in 1 .. 10 : Program[k][i] \notin {"command", "answer"}
    BY <1>4, ReadingProgram, Zenon
  <2>. QED  BY <1>1, <1>3, <2>1
<1>. QED  BY <1>1, <1>2, <1>4, <1>5

LEMMA AnswerOk ==
    ASSUME Inv, NEW c \in Calls, Answer(c)
    PROVE  Inv'
<1>1. PageOk(claims, facts, calls[c].seen)
  BY AnswersAPage DEF CallOk, SeenOk, PageOk, FactRead
<1>2. /\ page' = page \/ page' = calls[c].seen
      /\ calls' = [calls EXCEPT ![c] = None] /\ UNCHANGED <<claims, facts>>
  BY DEF Answer, ledger
<1>. QED  BY <1>1, <1>2, QuietStep DEF Inv

LEMMA FailedOk ==
    ASSUME Inv, NEW c \in Calls, Failed(c), UNCHANGED ledger
    PROVE  Inv'
<1>1. CallInv(claims, facts, Reload)  BY ReloadOk, Zenon
<1>2. /\ page' # None => page' = page
      /\ \/ calls' = [calls EXCEPT ![c] = None]
         \/ calls' = [calls EXCEPT ![c] = Reload]
      /\ UNCHANGED <<claims, facts>>
  BY DEF Failed, ledger
<1>. QED  BY <1>1, <1>2, QuietStep DEF Inv

LEMMA RefuseOk ==
    ASSUME Inv, NEW c \in Calls, Refuse(c)
    PROVE  Inv'
<1>1. CASE Failed(c)
  BY <1>1, FailedOk DEF Refuse
<1>2. CASE calls' = [calls EXCEPT ![c] = None] /\ UNCHANGED page
  BY <1>2, QuietStep DEF Refuse, Inv, ledger
<1>. QED  BY <1>1, <1>2 DEF Refuse

LEMMA TimeoutOk ==
    ASSUME Inv, NEW c \in Calls, Timeout(c)
    PROVE  Inv'
<1>1. CASE Step(c) = "command"
  <2>. DEFINE late == [calls[c] EXCEPT !.awaited = FALSE, !.quiet = FALSE, !.interrupted = 0]
  <2>1. PICK d \in Calls :
           /\ calls[d] = None /\ calls[c] # None
           /\ calls' = [calls EXCEPT ![d] = Reload, ![c].awaited = FALSE,
                                     ![c].quiet = FALSE, ![c].interrupted = 0]
           /\ UNCHANGED <<claims, facts, page>>
    BY <1>1 DEF Timeout, Free, ledger
  <2>2. d # c  BY <2>1
  <2>3. CallInv(claims, facts, Reload)  BY ReloadOk, Zenon
  <2>4. DOMAIN calls = Calls /\ CallInv(claims, facts, calls[c])  BY <2>1 DEF Inv
  <2>5. CallInv(claims, facts, late)
    <3>1. DOMAIN calls[c] = CallFields  BY <2>4 DEF CallInv
    <3>2. /\ DOMAIN late = CallFields
          /\ late.req = calls[c].req /\ late.at = calls[c].at /\ late.seen = calls[c].seen
      BY <3>1 DEF CallFields
    <3>. QED  BY <2>4, <3>2 DEF CallInv
  <2>6. /\ DOMAIN calls' = Calls
        /\ calls'[d] = Reload /\ calls'[c] = late
        /\ \A e \in Calls : e # c /\ e # d => calls'[e] = calls[e]
    <3>. HIDE DEF Reload
    <3>. QED  BY <2>1, <2>2, <2>4
  <2>. HIDE DEF late, Reload
  <2>7. \A e \in Calls : calls'[e] # None =>
           calls'[e] = calls[e] \/ CallInv(claims, facts, calls'[e])
    BY <2>3, <2>5, <2>6
  <2>. QED  BY <2>1, <2>6, <2>7, QuietStep
<1>2. CASE Step(c) # "command"
  BY <1>2, FailedOk DEF Timeout
<1>. QED  BY <1>1, <1>2

LEMMA InitInv == Init => Inv
<1>. SUFFICES ASSUME Init  PROVE Inv
  OBVIOUS
<1>1. UsedClaims(claims) = {} /\ OpenIn(claims) = {}
  BY DEF Init, NoClaim, UsedClaims, OpenIn
<1>2. UsedFacts(facts) = {} /\ CurrentIn(facts) = {}
  BY DEF Init, NoFact, UsedFacts, CurrentIn
<1>3. 0 \in Nat /\ 1 .. 0 = {}  OBVIOUS
<1>4. ClaimsOk(claims)
  <2>1. DOMAIN claims = ClaimIds /\ \A x \in ClaimIds : "status" \in DOMAIN claims[x]
    BY DEF Init, NoClaim
  <2>. QED  BY <1>1, <1>3, <2>1 DEF ClaimsOk
<1>5. FactsOk(facts)
  <2>1. /\ DOMAIN facts = FactIds
        /\ \A f \in FactIds : {"status", "claim", "prior"} \subseteq DOMAIN facts[f]
    BY DEF Init, NoFact
  <2>. QED  BY <1>2, <1>3, <2>1 DEF FactsOk
<1>6. LedgerOk(claims, facts)  BY <1>2, <1>4, <1>5 DEF LedgerOk
<1>. QED  BY <1>6 DEF Init, Inv

LEMMA NextInv == Inv /\ [Next]_vars => Inv'
<1>. SUFFICES ASSUME Inv, [Next]_vars  PROVE Inv'
  OBVIOUS
<1>1. CASE UNCHANGED vars
  <2>1. claims' = claims /\ facts' = facts /\ calls' = calls /\ page' = page
    BY <1>1 DEF vars, ledger
  <2>. QED  BY <2>1 DEF Inv
<1>2. ASSUME NEW c \in Calls, Start(c) \/ OpenPage(c)  PROVE Inv'
  <2>1. CASE Start(c)
    <3>1. PICK r \in Offers(page) \cup {Load} : page # None /\ Send(c, r)
      BY <2>1 DEF Start
    <3>2. PageOk(claims, facts, page)  BY <3>1 DEF Inv
    <3>3. r.kind \in AllKinds /\ RequestOk(claims, facts, r)
      BY <3>2, OffersOk, Zenon
    <3>. QED  BY <3>1, <3>3, SendOk
  <2>2. CASE OpenPage(c)
    <3>1. Load.kind \in AllKinds /\ RequestOk(claims, facts, Load)  BY LoadOk, Zenon
    <3>. QED  BY <2>2, <3>1, SendOk DEF OpenPage
  <2>. QED  BY <1>2, <2>1, <2>2
<1>3. ASSUME NEW c \in Calls, Answer(c) \/ Refuse(c) \/ Timeout(c)  PROVE Inv'
  BY <1>3, AnswerOk, RefuseOk, TimeoutOk
<1>4. ASSUME NEW c \in Calls, ReadStep(c) \/ Execute(c), UNCHANGED page  PROVE Inv'
  BY <1>4, ReadStepOk, ExecuteOk
<1>5. CASE Others /\ UNCHANGED page
  BY <1>5, OthersOk
<1>. QED  BY <1>1, <1>2, <1>3, <1>4, <1>5 DEF Next

(* Requests that began on a page are still about what the page showed when *)
(* they end, whatever others committed: the inductive invariant.           *)
THEOREM Invariance == Spec => []Inv
BY InitInv, NextInv, PTL DEF Spec

(* A page never shows one claim as the accepted memory and as what would   *)
(* replace it, for any number of people, requests and commits in between.  *)
THEOREM NoClaimIsShownTwice == Spec => []NoClaimShownTwice
<1>1. Inv => NoClaimShownTwice  BY DEF Inv, PageOk, SeenOk, NoClaimShownTwice
<1>. QED  BY <1>1, Invariance, PTL

----------------------------------------------------------------------------
(***************************************************************************)
(* What a request commits.                                                 *)
(***************************************************************************)
LEMMA CommitsItsCommand ==
    ASSUME NEW c \in Calls, Commits(c)
    PROVE  /\ calls[c] # None /\ Step(c) = "command"
           /\ Legal(CommandOf(c))
<1>1. Commit(User, CommandOf(c))
  BY DEF Commits, Execute, ledger
<1>. QED  BY <1>1 DEF Commits, Execute, Commit, Admissible

(* At most one proposal is open and one fact current, so that what is      *)
(* decided is all there is.                                                *)
LEMMA OnlyOnes ==
    ASSUME LedgerOk(claims, facts)
    PROVE  /\ \A x \in Open : Last(Open) = x
           /\ \A f \in Current : Last(Current) = f
           /\ Open = {} => Last(Open) = 0
           /\ Current = {} => Last(Current) = 0
<1>1. PICK n \in Nat : OpenIn(claims) \subseteq {n}  BY DEF LedgerOk, ClaimsOk
<1>2. PICK m \in Nat : CurrentIn(facts) \subseteq {m}  BY DEF LedgerOk, FactsOk
<1>3. Last(Open) = IF Open = {} THEN 0 ELSE n  BY <1>1, LedgerNames, LastOfOne
<1>4. Last(Current) = IF Current = {} THEN 0 ELSE m  BY <1>2, LedgerNames, LastOfOne
<1>. QED  BY <1>1, <1>2, <1>3, <1>4, LedgerNames

LEMMA DecisionIsSeen ==
    ASSUME Inv, NEW c \in Calls, Commits(c), calls[c].req.kind \in OwnerDecides
    PROVE  /\ Last(Current) = calls[c].req.fact
           /\ Last(Open) = calls[c].req.open
<1>. DEFINE r == calls[c].req
            b == CommandOf(c)
<1>1. calls[c] # None /\ Legal(b)  BY CommitsItsCommand
<1>2. LedgerOk(claims, facts) /\ RequestOk(claims, facts, r)
  BY <1>1 DEF Inv, CallInv, CallOk
<1>3. CASE r.kind = "accept"
  <2>1. b.kind = "accept" /\ b.claim = r.open  BY <1>3 DEF CommandOf, Command
  <2>2. r.open \in Open /\ Current = {}  BY <1>1, <2>1 DEF Legal
  <2>3. r.fact = 0  BY <1>2, <1>3 DEF RequestOk
  <2>. QED  BY <1>2, <2>2, <2>3, OnlyOnes
<1>4. CASE r.kind = "supersede"
  <2>1. b.kind = "supersede" /\ b.fact = r.fact /\ b.claim = r.open
    BY <1>4 DEF CommandOf, Command
  <2>2. r.open \in Open /\ r.fact \in Current  BY <1>1, <2>1 DEF Legal
  <2>. QED  BY <1>2, <2>2, OnlyOnes
<1>5. CASE r.kind = "revoke"
  <2>1. b.kind = "revoke" /\ b.fact = r.fact  BY <1>5 DEF CommandOf, Command
  <2>2. r.fact \in Current /\ Open = {}  BY <1>1, <2>1 DEF Legal
  <2>3. r.open = 0  BY <1>2, <1>5 DEF RequestOk
  <2>. QED  BY <1>2, <2>2, <2>3, OnlyOnes
<1>. QED  BY <1>3, <1>4, <1>5 DEF OwnerDecides

LEMMA ProposalIsSeen ==
    ASSUME Inv, NEW c \in Calls, Commits(c), calls[c].req.kind \in {"propose", "rework"}
    PROVE  /\ source.rev = calls[c].req.rev
           /\ calls[c].req.kind = "propose" => Current \subseteq {calls[c].req.fact}
<1>. DEFINE r == calls[c].req
            at == calls[c].at
            s == calls[c].seen
            b == CommandOf(c)
<1>1. calls[c] # None /\ Legal(b) /\ Program[r.kind][at] = "command"
  BY CommitsItsCommand DEF Step
<1>2. LedgerOk(claims, facts) /\ CallOk(claims, facts, r, at, s)
  BY <1>1 DEF Inv, CallInv
<1>3. CASE r.kind = "propose"
  <2>1. /\ b.kind = "propose" /\ b.gen = s.latest /\ b.rev = s.source.rev
    BY <1>3 DEF CommandOf, Command
  <2>2. at = 10
    <3>1. at \in DOMAIN Program["propose"]  BY <1>2, <1>3 DEF CallOk
    <3>. QED  BY <1>1, <1>3, <3>1, ProposeProgram
  <2>3. s.source.rev = r.rev /\ s.latest = r.latest  BY <1>2, <1>3, <2>2 DEF CallOk
  <2>4. Open = {} /\ s.latest = Generation(LatestId) /\ s.source.rev = source.rev
    BY <1>1, <2>1 DEF Legal, Novel
  <2>5. Settled(claims, facts, r.latest, r.fact)  BY <1>2, <1>3 DEF CallOk, RequestOk
  <2>6. Current \subseteq {r.fact}
    BY <2>3, <2>4, <2>5, LedgerNames DEF Settled
  <2>. QED  BY <2>3, <2>4, <2>6
<1>4. CASE r.kind = "rework"
  <2>1. b.kind = "rework" /\ b.rev = s.source.rev  BY <1>4 DEF CommandOf, Command
  <2>2. at = 2
    <3>1. at \in DOMAIN Program["rework"]  BY <1>2, <1>4 DEF CallOk
    <3>2. DOMAIN Program["rework"] = 1 .. 2 /\ Program["rework"][1] = "source"
      BY ShortPrograms
    <3>. QED  BY <1>1, <1>4, <3>1, <3>2
  <2>3. s.source.rev = r.rev  BY <1>2, <1>4, <2>2 DEF CallOk
  <2>4. s.source.rev = source.rev  BY <1>1, <2>1 DEF Legal
  <2>. QED  BY <1>4, <2>3, <2>4
<1>. QED  BY <1>3, <1>4

(* An owner's decision commits only on the accepted memory and the         *)
(* proposal, all of them and no others, that its page showed, however late *)
(* it arrives (accept, supersede, revoke).                                 *)
THEOREM DecisionsAreAboutThePage == Spec => DecisionsMatchThePage
<1>1. Inv => \A c \in Calls :
         Commits(c) /\ calls[c].req.kind \in OwnerDecides =>
            /\ Last(Current) = calls[c].req.fact
            /\ Last(Open) = calls[c].req.open
  BY DecisionIsSeen
<1>. QED  BY <1>1, Invariance, PTL DEF DecisionsMatchThePage

(* A proposal commits only on the revision of the note its author read,    *)
(* and, when it was sent from a page, only if no objective is current but  *)
(* the one that page showed, whatever was committed in between.            *)
THEOREM ProposalsAreAboutThePage == Spec => ProposalsMatchThePage
<1>1. Inv => \A c \in Calls :
         Commits(c) /\ calls[c].req.kind \in {"propose", "rework"} =>
            /\ source.rev = calls[c].req.rev
            /\ calls[c].req.kind = "propose" => Current \subseteq {calls[c].req.fact}
  BY ProposalIsSeen
<1>. QED  BY <1>1, Invariance, PTL DEF ProposalsMatchThePage

----------------------------------------------------------------------------
(***************************************************************************)
(* What a page shows never goes back.                                      *)
(***************************************************************************)
(* What a page shows of the past is past. *)
HistoryOk(fa, s) == s.history # 0 => Gone(fa, s.history)

HistoryRead == 8

(* What was read up to the statement at, all of it after the page v was    *)
(* answered, is not older than v.                                          *)
NotOlder(fa, v, at, s) ==
    /\ at > 1 => s.latest[1] >= v.latest[1]
    /\ at > FactRead /\ s.fact # 0 => s.fact >= v.fact /\ s.fact > v.history
    /\ at > FactRead /\ s.fact = 0 /\ v.history # 0 =>
          \E k \in FactIds : k >= v.history /\ fa[k].status = "revoked"
    /\ at > HistoryRead => s.history >= v.history

(* A request that nobody waits for is about to give its command.           *)
CallView(fa, v, call) ==
    /\ ~call.awaited => Program[call.req.kind][call.at] = "command"
    /\ call.req.kind \in Reading =>
          /\ HistoryOk(fa, call.seen)
          /\ v # None => NotOlder(fa, v, call.at, call.seen)

(* runSingleFlight *)
OneAwaited ==
    \A c, d \in Calls :
       calls[c] # None /\ calls[d] # None /\ calls[c].awaited /\ calls[d].awaited => c = d

ViewInv ==
    /\ page # None => HistoryOk(facts, page)
    /\ \A c \in Calls : calls[c] # None => CallView(facts, page, calls[c])
    /\ OneAwaited

LEMMA GreatestOf ==
    ASSUME NEW m \in Nat, NEW S, S \subseteq 1 .. m, S # {}
    PROVE  Last(S) \in S /\ \A y \in S : y <= Last(S)
<1>. DEFINE D == {m - x : x \in S}
<1>0. \A x \in S : m - x \in Nat
  <2>1. \A x \in 1 .. m : m - x \in Nat  OBVIOUS
  <2>. QED  BY <2>1
<1>1. D \subseteq Nat /\ D # {}  BY <1>0
<1>2. PICK d \in D : \A k \in D : d <= k
  <2>. HIDE DEF D
  <2>. QED  BY <1>1, LeastOf
<1>3. PICK x \in S : d = m - x  BY <1>2
<1>4. \A y \in S : y <= x
  <2>. SUFFICES ASSUME NEW y \in S  PROVE y <= x
    OBVIOUS
  <2>1. m - x <= m - y  BY <1>2, <1>3
  <2>. QED  BY <2>1
<1>. QED  BY <1>4, Zenon DEF Last

(* Facts are given in order, and one that is past was before the last.     *)
LEMMA NewestFact ==
    ASSUME LedgerOk(claims, facts)
    PROVE  /\ Last(Current) # 0 =>
                 /\ \A g \in UsedFacts(facts) : Last(Current) >= g
                 /\ \A h : Gone(facts, h) => Last(Current) > h
           /\ Last(Current) = 0 =>
                 \A h : Gone(facts, h) =>
                    \E k \in FactIds : k >= h /\ facts[k].status = "revoked"
<1>1. PICK m \in Nat : /\ UsedFacts(facts) = 1 .. m /\ CurrentIn(facts) \subseteq {m}
                       /\ m # 0 => facts[m].status \in {"current", "revoked"}
  BY DEF LedgerOk, FactsOk
<1>2. Last(Current) = IF Current = {} THEN 0 ELSE m  BY <1>1, LedgerNames, LastOfOne
<1>3. \A h : Gone(facts, h) => h \in 1 .. m /\ h \notin Current
  BY <1>1, LedgerNames DEF Gone, UsedFacts, CurrentIn
<1>4. CASE Current = {}
  <2>. SUFFICES ASSUME NEW h, Gone(facts, h)
                PROVE  \E k \in FactIds : k >= h /\ facts[k].status = "revoked"
    BY <1>2, <1>4
  <2>1. h \in 1 .. m  BY <1>3
  <2>2. m \in UsedFacts(facts) /\ m >= h /\ m # 0  BY <1>1, <2>1
  <2>3. facts[m].status = "revoked" /\ m \in FactIds
    BY <1>1, <1>4, <2>2, LedgerNames DEF UsedFacts, CurrentIn
  <2>. QED  BY <2>2, <2>3
<1>5. CASE Current # {}
  <2>1. Last(Current) = m /\ m \in Current  BY <1>1, <1>2, <1>5, LedgerNames
  <2>2. m # 0
    <3>1. m \in UsedFacts(facts)  BY <2>1, LedgerNames DEF CurrentIn, UsedFacts
    <3>. QED  BY <1>1, <3>1
  <2>3. \A h : Gone(facts, h) => m > h  BY <1>1, <1>3, <2>1
  <2>. QED  BY <1>1, <2>1, <2>2, <2>3
<1>. QED  BY <1>4, <1>5

LEMMA LatestIsLatest ==
    ASSUME LedgerOk(claims, facts)
    PROVE  /\ LatestId \in Nat
           /\ \A l : PastGeneration(claims, l) => l[1] \in Nat /\ LatestId >= l[1]
           /\ \A x : Generation(x)[1] = x
<1>1. PICK n \in Nat : UsedClaims(claims) = 1 .. n  BY DEF LedgerOk, ClaimsOk
<1>2. LatestId = n  BY <1>1, LedgerNames, LatestClaim
<1>3. \A x : Generation(x)[1] = x  BY DEF Generation
<1>. QED  BY <1>1, <1>2, <1>3 DEF PastGeneration

(* readLifecycleHistory answers a fact that is past, and none before one   *)
(* that was past when f was current.                                       *)
LEMMA PastRead ==
    ASSUME LedgerOk(claims, facts), NEW f, f # 0 => f \in UsedFacts(facts)
    PROVE  /\ Past(f) # 0 => Gone(facts, Past(f))
           /\ Past(f) \in Nat
           /\ f # 0 => f \in Nat /\ \A h \in Nat : h < f => Past(f) >= h
           /\ f = 0 => \A k \in FactIds : facts[k].status = "revoked" => Past(f) >= k
<1>. DEFINE R == FactsThatAre("revoked")
<1>1. PICK m \in Nat : UsedFacts(facts) = 1 .. m  BY DEF LedgerOk, FactsOk
<1>2. R \subseteq 1 .. m /\ \A k \in R : k \in FactIds /\ facts[k].status = "revoked"
  BY <1>1 DEF FactsThatAre, UsedFacts
<1>3. \A k \in FactIds : facts[k].status = "revoked" => k \in R
  BY DEF FactsThatAre
<1>. HIDE DEF R
<1>4. /\ Last(R) # 0 => Last(R) \in R
      /\ Last(R) \in Nat /\ \A k \in R : Last(R) >= k
  <2>1. CASE R = {}
    <3>1. Last(R) = 0  BY <2>1 DEF Last
    <3>. QED  BY <2>1, <3>1
  <2>2. CASE R # {}
    <3>1. Last(R) \in R /\ \A y \in R : y <= Last(R)  BY <1>2, <2>2, GreatestOf, Zenon
    <3>2. Last(R) \in 1 .. m  BY <1>2, <3>1
    <3>3. \A k \in R : k \in Nat /\ k <= Last(R)  BY <1>2, <3>1
    <3>4. \A k \in R : Last(R) >= k  BY <3>2, <3>3
    <3>. QED  BY <3>1, <3>2, <3>4
  <2>. QED  BY <2>1, <2>2
<1>5. Last(R) # 0 => Gone(facts, Last(R))  BY <1>2, <1>4 DEF Gone
<1>6. CASE f # 0 /\ facts[f].prior # 0
  <2>1. FactOk(claims, facts, f) /\ f \in 1 .. m  BY <1>1, <1>6 DEF LedgerOk
  <2>2. /\ Past(f) = f - 1 /\ f # 1 /\ facts[f - 1].status = "superseded"
    BY <1>6, <2>1 DEF Past, FactOk
  <2>3. f - 1 \in 1 .. m  BY <2>1, <2>2
  <2>4. Gone(facts, f - 1)  BY <1>1, <2>2, <2>3 DEF Gone, UsedFacts
  <2>. QED  BY <1>6, <2>1, <2>2, <2>4
<1>7. CASE f # 0 /\ facts[f].prior = 0
  <2>1. FactOk(claims, facts, f) /\ f \in 1 .. m  BY <1>1, <1>7 DEF LedgerOk
  <2>2. Past(f) = Last(R)  BY <1>7 DEF Past, R
  <2>3. CASE f = 1
    <3>1. \A h \in Nat : h < f => h = 0  BY <2>3
    <3>. QED  BY <1>4, <1>5, <1>7, <2>2, <2>3, <3>1
  <2>4. CASE f # 1
    <3>1. facts[f - 1].status = "revoked"  BY <1>7, <2>1, <2>4 DEF FactOk
    <3>2. f - 1 \in 1 .. m  BY <2>1, <2>4
    <3>3. f - 1 \in R  BY <1>1, <1>3, <3>1, <3>2 DEF UsedFacts
    <3>4. Last(R) >= f - 1 /\ f \in Nat  BY <1>4, <2>1, <3>3
    <3>. QED  BY <1>4, <1>5, <1>7, <2>2, <3>4
  <2>. QED  BY <2>3, <2>4
<1>8. CASE f = 0
  <2>1. Past(f) = Last(R)  BY <1>8 DEF Past, R
  <2>. QED  BY <1>3, <1>4, <1>5, <1>8, <2>1
<1>. QED  BY <1>6, <1>7, <1>8

LEMMA HistoryStays ==
    ASSUME NEW cl, NEW fa, NEW later, NEW laterFa, Keeps(cl, fa, later, laterFa),
           NEW s, HistoryOk(fa, s)
    PROVE  HistoryOk(laterFa, s)
BY DEF Keeps, Gone, HistoryOk

LEMMA ViewStays ==
    ASSUME NEW cl, NEW fa, NEW later, NEW laterFa, Keeps(cl, fa, later, laterFa),
           NEW v, NEW call, CallView(fa, v, call),
           NEW after, after.req = call.req, after.at = call.at, after.seen = call.seen,
           after.awaited = call.awaited
    PROVE  CallView(laterFa, v, after)
<1>1. HistoryOk(fa, call.seen) => HistoryOk(laterFa, call.seen)
  BY HistoryStays, Zenon
<1>2. \A k \in FactIds : fa[k].status = "revoked" => laterFa[k].status = "revoked"
  BY DEF Keeps, Gone
<1>3. NotOlder(fa, v, call.at, call.seen) => NotOlder(laterFa, v, call.at, call.seen)
  BY <1>2 DEF NotOlder
<1>. QED  BY <1>1, <1>3 DEF CallView

(* One statement of a page that is read after the page v was shown.        *)
LEMMA ViewRead ==
    ASSUME LedgerOk(claims, facts), NEW at \in 1 .. 10, NEW s, DOMAIN s = SeenFields,
           SeenOk(claims, facts, at, s), HistoryOk(facts, s), NEW t, t = Read(Page[at], s)
    PROVE  /\ HistoryOk(facts, t)
           /\ \A v : PageOk(claims, facts, v) /\ HistoryOk(facts, v)
                        /\ NotOlder(facts, v, at, s) =>
                     NotOlder(facts, v, at + 1, t)
<1>. DEFINE step == Page[at]
<1>1. /\ t.latest = IF step = "latest" THEN Generation(LatestId)
                    ELSE IF step = "status" THEN Generation(s.latest[1]) ELSE s.latest
      /\ t.fact = IF step = "fact" THEN Last(Current) ELSE s.fact
      /\ t.history = IF step = "history" THEN Past(s.fact)
                     ELSE IF step = "revoked" THEN Past(0) ELSE s.history
  BY ReadFields
<1>2. /\ step = "latest" <=> at = 1
      /\ step = "fact" <=> at = 4
      /\ step = "history" <=> at = 8
      /\ step # "revoked"
  BY DEF Page
<1>. HIDE DEF step
<1>3. s.fact # 0 => s.fact \in UsedFacts(facts)  BY DEF SeenOk
<1>4. HistoryOk(facts, t)
  <2>1. CASE step = "history"
    <3>1. t.history = Past(s.fact)  BY <1>1, <2>1
    <3>2. Past(s.fact) # 0 => Gone(facts, Past(s.fact))  BY <1>3, PastRead, Zenon
    <3>. QED  BY <3>1, <3>2 DEF HistoryOk
  <2>2. CASE step # "history"
    <3>1. t.history = s.history  BY <1>1, <1>2, <2>2
    <3>. QED  BY <3>1 DEF HistoryOk
  <2>. QED  BY <2>1, <2>2
<1>5. ASSUME NEW v, PageOk(claims, facts, v), HistoryOk(facts, v),
             NotOlder(facts, v, at, s)
      PROVE  NotOlder(facts, v, at + 1, t)
  <2>1. /\ PastGeneration(claims, v.latest)
        /\ v.fact # 0 => v.fact \in UsedFacts(facts)
    BY <1>5 DEF PageOk, SeenOk
  <2>2. v.history # 0 => Gone(facts, v.history)  BY <1>5 DEF HistoryOk
  <2>3. v.history \in Nat /\ v.fact \in Nat
    <3>1. v.fact = 0 \/ v.fact \in FactIds  BY <2>1 DEF UsedFacts
    <3>2. v.history = 0 \/ v.history \in FactIds  BY <2>2 DEF Gone
    <3>3. \A f \in FactIds : f \in Nat  BY ObjectiveAssumption
    <3>. QED  BY <3>1, <3>2, <3>3
  <2>4. t.latest[1] >= v.latest[1]
    <3>1. CASE at = 1
      BY <1>1, <1>2, <2>1, <3>1, LatestIsLatest
    <3>2. CASE at # 1
      <4>1. t.latest[1] = s.latest[1]  BY <1>1, <1>2, <3>2, LatestIsLatest
      <4>. QED  BY <1>5, <3>2, <4>1 DEF NotOlder
    <3>. QED  BY <3>1, <3>2
  <2>5. ASSUME at + 1 > FactRead, t.fact # 0
        PROVE  t.fact >= v.fact /\ t.fact > v.history
    <3>1. CASE at = 4
      <4>1. t.fact = Last(Current) /\ Last(Current) # 0  BY <1>1, <1>2, <2>5, <3>1
      <4>2. Last(Current) \in UsedFacts(facts)  BY <4>1, LedgerRead
      <4>3. t.fact \in Nat /\ t.fact # 0
        BY <4>1, <4>2, ObjectiveAssumption DEF UsedFacts
      <4>4. v.fact = 0 \/ t.fact >= v.fact  BY <2>1, <4>1, NewestFact
      <4>5. v.history = 0 \/ t.fact > v.history  BY <2>2, <4>1, NewestFact
      <4>. QED  BY <4>3, <4>4, <4>5
    <3>2. CASE at # 4
      BY <1>1, <1>2, <1>5, <2>5, <3>2 DEF NotOlder, FactRead
    <3>. QED  BY <3>1, <3>2
  <2>6. ASSUME at + 1 > FactRead, t.fact = 0, v.history # 0
        PROVE  \E k \in FactIds : k >= v.history /\ facts[k].status = "revoked"
    <3>1. CASE at = 4
      <4>1. Last(Current) = 0  BY <1>1, <1>2, <2>6, <3>1
      <4>. QED  BY <2>2, <2>6, <4>1, NewestFact
    <3>2. CASE at # 4
      BY <1>1, <1>2, <1>5, <2>6, <3>2 DEF NotOlder, FactRead
    <3>. QED  BY <3>1, <3>2
  <2>7. ASSUME at + 1 > HistoryRead  PROVE t.history >= v.history
    <3>1. CASE at = 8
      <4>1. t.history = Past(s.fact)  BY <1>1, <1>2, <3>1
      <4>2. Past(s.fact) \in Nat  BY <1>3, PastRead, Zenon
      <4>3. CASE s.fact # 0
        <5>1. s.fact > v.history  BY <1>5, <3>1, <4>3 DEF NotOlder, FactRead
        <5>2. s.fact \in Nat /\ \A h \in Nat : h < s.fact => Past(s.fact) >= h
          BY <1>3, <4>3, PastRead, Zenon
        <5>. QED  BY <2>3, <4>1, <5>1, <5>2
      <4>4. CASE s.fact = 0 /\ v.history # 0
        <5>1. PICK k \in FactIds : k >= v.history /\ facts[k].status = "revoked"
          BY <1>5, <3>1, <4>4 DEF NotOlder, FactRead
        <5>2. Past(s.fact) >= k  BY <1>3, <4>4, <5>1, PastRead, Zenon
        <5>3. k \in Nat  BY ObjectiveAssumption
        <5>. QED  BY <2>3, <4>1, <4>2, <5>1, <5>2, <5>3
      <4>5. CASE v.history = 0
        BY <4>1, <4>2, <4>5
      <4>. QED  BY <4>3, <4>4, <4>5
    <3>2. CASE at # 8
      <4>1. t.history = s.history /\ at > HistoryRead
        BY <1>1, <1>2, <2>7, <3>2 DEF HistoryRead
      <4>. QED  BY <1>5, <4>1 DEF NotOlder
    <3>. QED  BY <3>1, <3>2
  <2>. QED  BY <2>4, <2>5, <2>6, <2>7 DEF NotOlder
<1>. QED  BY <1>4, <1>5

(* The accepted memory and the history of a page are always read.          *)
LEMMA ViewStep ==
    ASSUME LedgerOk(claims, facts), NEW k \in Reading, NEW at \in 1 .. 10, NEW s,
           DOMAIN s = SeenFields, SeenOk(claims, facts, at, s), HistoryOk(facts, s),
           NEW t, t = Read(Page[at], s), NEW j, j = Following(k, at, t)
    PROVE  \A v : PageOk(claims, facts, v) /\ HistoryOk(facts, v)
                     /\ NotOlder(facts, v, at, s) =>
                  NotOlder(facts, v, j, t)
<1>. SUFFICES ASSUME NEW v, PageOk(claims, facts, v), HistoryOk(facts, v),
                     NotOlder(facts, v, at, s)
              PROVE  NotOlder(facts, v, j, t)
  OBVIOUS
<1>1. /\ DOMAIN Program[k] = 1 .. 11 /\ Program[k] = Page
      /\ \A i \in 1 .. 10 : Program[k][i] \notin {"command", "answer"}
  BY ReadingProgram
<1>2. /\ j \in Nat /\ j > at
      /\ \A i \in (at + 1) .. (j - 1) : ~Needed(Program[k][i], t)
  <2>1. k \in AllKinds /\ at \in Nat /\ at \in DOMAIN Program[k]
        /\ Program[k][at] \notin {"command", "answer"}
    BY <1>1 DEF AllKinds
  <2>. QED  BY <2>1, FollowingStatement, Zenon
<1>3. NotOlder(facts, v, at + 1, t)  BY ViewRead, Zenon
<1>4. /\ Page[4] = "fact" /\ Needed("fact", t)
      /\ Page[8] = "history" /\ Needed("history", t)
  BY DEF Page, Needed
<1>5. at < 4 => j <= 4
  <2>1. at < 4 /\ ~(j <= 4) => 4 \in (at + 1) .. (j - 1)  BY <1>2
  <2>. QED  BY <1>1, <1>2, <1>4, <2>1
<1>6. at < 8 => j <= 8
  <2>1. at < 8 /\ ~(j <= 8) => 8 \in (at + 1) .. (j - 1)  BY <1>2
  <2>. QED  BY <1>1, <1>2, <1>4, <2>1
<1>7. /\ at + 1 > 1
      /\ j > FactRead => at + 1 > FactRead
      /\ j > HistoryRead => at + 1 > HistoryRead
  BY <1>2, <1>5, <1>6 DEF FactRead, HistoryRead
<1>. QED  BY <1>3, <1>7 DEF NotOlder

(* A request that begins has seen nothing. *)
LEMMA AskedView ==
    ASSUME NEW fa, NEW v, NEW r, r.kind \in AllKinds, NEW quiet
    PROVE  CallView(fa, v, Asked(r, quiet))
<1>. DEFINE call == Asked(r, quiet)
<1>1. /\ call.req = r /\ call.at = Following(r.kind, 0, Unread) /\ call.seen = Unread
      /\ call.awaited
  BY DEF Asked
<1>2. ASSUME r.kind \in Reading  PROVE Following(r.kind, 0, Unread) = 1
  <2>. DEFINE j == Following(r.kind, 0, Unread)
  <2>1. Program[r.kind] = Page  BY <1>2, ReadingProgram, Zenon
  <2>2. Page[1] = "latest" /\ Needed("latest", Unread)  BY DEF Page, Needed
  <2>3. 0 \in Nat  OBVIOUS
  <2>4. /\ j \in DOMAIN Program[r.kind] /\ j \in Nat /\ j > 0
        /\ \A i \in (0 + 1) .. (j - 1) : ~Needed(Program[r.kind][i], Unread)
    BY <2>3, FollowingStatement, Zenon
  <2>. HIDE DEF j
  <2>5. j # 1 => 1 \in (0 + 1) .. (j - 1)  BY <2>4
  <2>6. j = 1  BY <2>1, <2>2, <2>4, <2>5
  <2>. QED  BY <2>6 DEF j
<1>3. HistoryOk(fa, Unread)  BY DEF HistoryOk, Unread
<1>4. NotOlder(fa, v, 1, Unread)  BY DEF NotOlder, FactRead, HistoryRead
<1>. QED  BY <1>1, <1>2, <1>3, <1>4 DEF CallView

LEMMA AnsweringView ==
    ASSUME NEW fa, NEW v, NEW call
    PROVE  /\ Answering(call) = None \/ CallView(fa, v, Answering(call))
           /\ Answering(call) # None => call.awaited
<1>1. CASE call.awaited
  <2>. DEFINE done == Asked(Done, call.quiet)
  <2>1. Done.kind \in AllKinds  BY DEF Done, AllKinds, Reading
  <2>2. CallView(fa, v, done)  BY <2>1, AskedView, Zenon
  <2>3. DOMAIN done = CallFields  BY DEF Asked, CallFields
  <2>. HIDE DEF done
  <2>4. Answering(call) = [done EXCEPT !.interrupted = call.interrupted]
    BY <1>1 DEF Answering, done
  <2>5. /\ Answering(call).req = done.req /\ Answering(call).at = done.at
        /\ Answering(call).seen = done.seen /\ Answering(call).awaited = done.awaited
    BY <2>3, <2>4 DEF CallFields
  <2>. QED  BY <1>1, <2>2, <2>5 DEF CallView
<1>2. CASE ~call.awaited
  BY <1>2 DEF Answering
<1>. QED  BY <1>1, <1>2

(* Steps of one request that leave the ledger and the page alone. *)
LEMMA OneCallView ==
    ASSUME Inv, ViewInv, facts' = facts, page' = page, NEW c \in Calls, NEW X,
           calls' = [calls EXCEPT ![c] = X],
           X # None => CallView(facts, page, X) /\ calls[c] # None /\ calls[c].awaited
    PROVE  ViewInv'
<1>1. /\ calls'[c] = X
      /\ \A d \in Calls : d # c => calls'[d] = calls[d]
  BY DEF Inv
<1>2. \A d \in Calls : calls'[d] # None => CallView(facts', page', calls'[d])
  BY <1>1 DEF ViewInv
<1>3. \A d \in Calls : calls'[d] # None /\ calls'[d].awaited =>
         calls[d] # None /\ calls[d].awaited
  BY <1>1
<1>4. OneAwaited'
  BY <1>3 DEF ViewInv, OneAwaited
<1>. QED  BY <1>2, <1>4 DEF ViewInv

LEMMA ReadStepView ==
    ASSUME Inv, ViewInv, NEW c \in Calls, ReadStep(c), UNCHANGED page
    PROVE  ViewInv'
<1>. DEFINE call == calls[c]
            r == call.req
            t == Read(Step(c), call.seen)
            X == IF Fulfilled(r, Step(c), t) THEN Answering(call) ELSE GoOn(call, t)
<1>1. /\ call # None /\ Step(c) \notin {"command", "answer"} /\ ~Misfit(r, Step(c), t)
      /\ calls' = [calls EXCEPT ![c] = X]
      /\ UNCHANGED <<claims, facts>>
  BY DEF ReadStep, ledger
<1>2. /\ LedgerOk(claims, facts) /\ DOMAIN call = CallFields
      /\ CallOk(claims, facts, r, call.at, call.seen)
      /\ page # None => PageOk(claims, facts, page)
  BY <1>1 DEF Inv, CallInv
<1>3. CallView(facts, page, call) /\ (page # None => HistoryOk(facts, page))
  BY <1>1 DEF ViewInv
<1>4. call.awaited  BY <1>1, <1>3 DEF CallView, Step
<1>5. CASE Fulfilled(r, Step(c), t)
  <2>1. X = Answering(call)  BY <1>5
  <2>2. X # None => CallView(facts, page, X)  BY <2>1, AnsweringView, Zenon
  <2>. HIDE DEF X
  <2>. QED  BY <1>1, <1>4, <2>2, OneCallView, Zenon
<1>6. CASE ~Fulfilled(r, Step(c), t)
  <2>. DEFINE j == Following(r.kind, call.at, t)
              w == Seen(r.kind, j, t)
              next == GoOn(call, t)
  <2>1. X = next  BY <1>6
  <2>2. next = [call EXCEPT !.at = j, !.seen = w]  BY DEF GoOn, Seen
  <2>3. next.req = r /\ next.at = j /\ next.seen = w /\ next.awaited = call.awaited
    <3>. HIDE DEF j, w, next
    <3>. QED  BY <1>2, <2>2 DEF CallFields
  <2>4. ASSUME r.kind \in Reading
        PROVE  HistoryOk(facts, w) /\ (page # None => NotOlder(facts, page, j, w))
    <3>1. /\ DOMAIN Program[r.kind] = 1 .. 11 /\ Program[r.kind] = Page
          /\ Program[r.kind][11] = "answer"
      BY <2>4, ReadingProgram, Zenon
    <3>2. /\ call.at \in DOMAIN Program[r.kind] /\ DOMAIN call.seen = SeenFields
          /\ SeenOk(claims, facts, call.at, call.seen)
      BY <1>2, <2>4 DEF CallOk
    <3>3. call.at \in 1 .. 10 /\ Step(c) = Page[call.at]
      BY <1>1, <3>1, <3>2 DEF Step
    <3>4. t = Read(Page[call.at], call.seen)  BY <3>3
    <3>5. /\ HistoryOk(facts, call.seen)
          /\ page # None => NotOlder(facts, page, call.at, call.seen)
      BY <1>3, <2>4 DEF CallView
    <3>. HIDE DEF t
    <3>6. HistoryOk(facts, t)
      BY <1>2, <3>2, <3>3, <3>4, <3>5, ViewRead, Zenon
    <3>7. ASSUME page # None  PROVE NotOlder(facts, page, j, t)
      <4>1. /\ PageOk(claims, facts, page) /\ HistoryOk(facts, page)
            /\ NotOlder(facts, page, call.at, call.seen)
        BY <1>2, <1>3, <3>5, <3>7
      <4>2. \A v : PageOk(claims, facts, v) /\ HistoryOk(facts, v)
                      /\ NotOlder(facts, v, call.at, call.seen) =>
                   NotOlder(facts, v, j, t)
        BY <1>2, <2>4, <3>2, <3>3, <3>4, <3>5, ViewStep, SMT
      <4>. QED  BY <4>1, <4>2, Zenon
    <3>8. Program[r.kind][j] # "command"
      BY <1>2, <2>4, <3>2, <3>3, <3>4, PageStep, Zenon
    <3>9. w = t  BY <3>8 DEF Seen
    <3>. QED  BY <3>6, <3>7, <3>9
  <2>5. CallView(facts, page, next)
    <3>. HIDE DEF j, w, next
    <3>. QED  BY <1>4, <2>3, <2>4 DEF CallView
  <2>. HIDE DEF X, next
  <2>. QED  BY <1>1, <1>4, <2>1, <2>5, OneCallView, Zenon
<1>. QED  BY <1>5, <1>6

(* A commit. *)
LEMMA InterruptedView ==
    ASSUME Inv, ViewInv, Keeps(claims, facts, claims', facts')
    PROVE  \A d \in Calls : Interrupted[d] # None =>
              /\ CallView(facts', page, Interrupted[d])
              /\ calls[d] # None /\ Interrupted[d].awaited = calls[d].awaited
<1>. SUFFICES ASSUME NEW d \in Calls, Interrupted[d] # None
              PROVE  /\ CallView(facts', page, Interrupted[d])
                     /\ calls[d] # None /\ Interrupted[d].awaited = calls[d].awaited
  OBVIOUS
<1>1. Interrupted[d] = IF calls[d] = None THEN None
                       ELSE [calls[d] EXCEPT !.quiet = FALSE, !.interrupted = @ + 1]
  BY DEF Interrupted
<1>. DEFINE after == Interrupted[d]
<1>2. calls[d] # None  BY <1>1
<1>3. DOMAIN calls[d] = CallFields /\ CallView(facts, page, calls[d])
  BY <1>2 DEF Inv, CallInv, ViewInv
<1>4. after = [calls[d] EXCEPT !.quiet = FALSE, !.interrupted = @ + 1]
  BY <1>1, <1>2
<1>. HIDE DEF after
<1>5. /\ after.req = calls[d].req /\ after.at = calls[d].at
      /\ after.seen = calls[d].seen /\ after.awaited = calls[d].awaited
  BY <1>3, <1>4 DEF CallFields
<1>6. CallView(facts', page, after)
  BY <1>3, <1>5, ViewStays, Zenon
<1>. QED  BY <1>2, <1>5, <1>6 DEF after

LEMMA CommitView ==
    ASSUME Inv, ViewInv, Keeps(claims, facts, claims', facts'), page' = page,
           \A d \in Calls : calls'[d] # None =>
              \/ calls'[d] = Interrupted[d]
              \/ calls[d] # None /\ calls[d].awaited /\ CallView(facts', page, calls'[d])
    PROVE  ViewInv'
<1>1. \A d \in Calls : calls'[d] # None =>
         /\ CallView(facts', page', calls'[d])
         /\ calls[d] # None /\ (calls'[d].awaited => calls[d].awaited)
  <2>. SUFFICES ASSUME NEW d \in Calls, calls'[d] # None
                PROVE  /\ CallView(facts', page, calls'[d])
                       /\ calls[d] # None /\ (calls'[d].awaited => calls[d].awaited)
    OBVIOUS
  <2>1. CASE calls'[d] = Interrupted[d]
    <3>1. /\ CallView(facts', page, Interrupted[d])
          /\ calls[d] # None /\ Interrupted[d].awaited = calls[d].awaited
      BY <2>1, InterruptedView, Zenon
    <3>. QED  BY <2>1, <3>1, Zenon
  <2>2. CASE calls[d] # None /\ calls[d].awaited /\ CallView(facts', page, calls'[d])
    BY <2>2
  <2>. QED  BY <2>1, <2>2
<1>2. page # None => HistoryOk(facts', page)
  BY HistoryStays DEF ViewInv
<1>3. OneAwaited'
  BY <1>1 DEF ViewInv, OneAwaited
<1>. QED  BY <1>1, <1>2, <1>3 DEF ViewInv

LEMMA ExecuteView ==
    ASSUME Inv, ViewInv, NEW c \in Calls, Execute(c), UNCHANGED page
    PROVE  ViewInv'
<1>1. calls[c] # None  BY DEF Execute
<1>2. /\ Answering(calls[c]) # None => calls[c].awaited
      /\ \A fa : Answering(calls[c]) # None => CallView(fa, page, Answering(calls[c]))
  BY AnsweringView, Zenon
<1>3. CASE UNCHANGED ledger /\ calls' = [calls EXCEPT ![c] = Answering(@)]
  <2>1. facts' = facts /\ calls' = [calls EXCEPT ![c] = Answering(calls[c])]
    BY <1>3 DEF ledger
  <2>. QED  BY <1>1, <1>2, <2>1, OneCallView, Zenon
<1>4. CASE /\ Commit(User, CommandOf(c))
           /\ calls' = [Interrupted EXCEPT ![c] = Answering(calls[c])]
  <2>1. Keeps(claims, facts, claims', facts')
    BY <1>4, CommitStep DEF Inv
  <2>2. DOMAIN Interrupted = Calls  BY DEF Interrupted
  <2>3. /\ calls'[c] = Answering(calls[c])
        /\ \A d \in Calls : d # c => calls'[d] = Interrupted[d]
    BY <1>4, <2>2
  <2>4. calls'[c] # None =>
           calls[c] # None /\ calls[c].awaited /\ CallView(facts', page, calls'[c])
    BY <1>1, <1>2, <2>3, Zenon
  <2>. QED  BY <2>1, <2>3, <2>4, CommitView, Zenon
<1>. QED  BY <1>3, <1>4 DEF Execute

LEMMA OthersView ==
    ASSUME Inv, ViewInv, Others, UNCHANGED page
    PROVE  ViewInv'
<1>1. Keeps(claims, facts, claims', facts')
  <2>1. CASE \E u \in cast.people, b \in Sendable : Commit(u, b)
    BY <2>1, CommitStep DEF Inv
  <2>2. CASE (\E n \in Notes : Correct(n)) \/ Tombstone
    <3>1. claims' = claims /\ facts' = facts  BY <2>2 DEF Correct, Tombstone
    <3>2. Keeps(claims, facts, claims, facts)  BY NothingStep, Zenon DEF Inv
    <3>. QED  BY <3>1, <3>2, Zenon
  <2>. QED  BY <2>1, <2>2 DEF Others
<1>2. calls' = Interrupted  BY DEF Others
<1>. QED  BY <1>1, <1>2, CommitView, Zenon

(* A request is sent while nobody waits for another. *)
LEMMA SendView ==
    ASSUME Inv, ViewInv, NEW c \in Calls, NEW r, r.kind \in AllKinds, ~Busy, Send(c, r)
    PROVE  ViewInv'
<1>. DEFINE X == Asked(r, r.kind = "load" \/ page = PageNow)
<1>1. CallView(facts, page, X)  BY AskedView, Zenon
<1>2. calls' = [calls EXCEPT ![c] = X] /\ facts' = facts /\ page' = page
  BY DEF Send, ledger
<1>. HIDE DEF X
<1>3. /\ calls'[c] = X
      /\ \A d \in Calls : d # c => calls'[d] = calls[d]
  BY <1>2 DEF Inv
<1>4. \A d \in Calls : calls'[d] # None => CallView(facts', page', calls'[d])
  BY <1>1, <1>2, <1>3 DEF ViewInv
<1>5. OneAwaited'
  BY <1>3 DEF Busy, OneAwaited
<1>. QED  BY <1>2, <1>4, <1>5 DEF ViewInv

(* What nobody waits for shows nothing. *)
LEMMA NobodyWaits ==
    ASSUME NEW fa, NEW v, NEW call, CallInv(claims, facts, call), CallView(fa, v, call),
           ~call.awaited
    PROVE  \A w : CallView(fa, w, call)
<1>. DEFINE k == call.req.kind
<1>1. Program[k][call.at] = "command"  BY DEF CallView
<1>2. k \in AllKinds /\ call.at \in DOMAIN Program[k]  BY DEF CallInv, CallOk
<1>3. k \notin Reading
  <2>. SUFFICES ASSUME k \in Reading  PROVE FALSE
    OBVIOUS
  <2>1. /\ DOMAIN Program[k] = 1 .. 11 /\ Program[k][11] = "answer"
        /\ \A i \in 1 .. 10 : Program[k][i] \notin {"command", "answer"}
    BY ReadingProgram, Zenon
  <2>. QED  BY <1>1, <1>2, <2>1
<1>. QED  BY <1>1, <1>3 DEF CallView

LEMMA AnswerView ==
    ASSUME Inv, ViewInv, NEW c \in Calls, Answer(c)
    PROVE  ViewInv'
<1>1. calls[c] # None /\ calls[c].req.kind \in Reading  BY AnswersAPage
<1>2. CallInv(claims, facts, calls[c]) /\ CallView(facts, page, calls[c])
  BY <1>1 DEF Inv, ViewInv
<1>3. /\ page' = page \/ page' = calls[c].seen
      /\ calls' = [calls EXCEPT ![c] = None] /\ facts' = facts
  BY DEF Answer, ledger
<1>4. HistoryOk(facts, calls[c].seen)  BY <1>1, <1>2 DEF CallView
<1>5. calls[c].awaited
  <2>1. Program[calls[c].req.kind][calls[c].at] = "answer"  BY DEF Answer, Step
  <2>. QED  BY <1>2, <2>1 DEF CallView
<1>6. calls'[c] = None /\ \A d \in Calls : d # c => calls'[d] = calls[d]
  BY <1>3 DEF Inv
<1>7. ASSUME NEW d \in Calls, calls'[d] # None  PROVE CallView(facts', page', calls'[d])
  <2>1. d # c /\ calls'[d] = calls[d]  BY <1>6, <1>7
  <2>2. ~calls[d].awaited  BY <1>1, <1>5, <1>7, <2>1 DEF ViewInv, OneAwaited
  <2>3. CallInv(claims, facts, calls[d]) /\ CallView(facts, page, calls[d])
    BY <1>7, <2>1 DEF Inv, ViewInv
  <2>4. \A w : CallView(facts, w, calls[d])  BY <2>2, <2>3, NobodyWaits, Zenon
  <2>. QED  BY <1>3, <2>1, <2>4
<1>8. OneAwaited'  BY <1>6 DEF ViewInv, OneAwaited
<1>9. page' # None => HistoryOk(facts', page')  BY <1>3, <1>4 DEF ViewInv
<1>. QED  BY <1>7, <1>8, <1>9 DEF ViewInv

LEMMA ReloadView ==
    ASSUME NEW fa, NEW v
    PROVE  CallView(fa, v, Reload)
<1>1. Load.kind \in AllKinds  BY LoadOk
<1>. QED  BY <1>1, AskedView, Zenon DEF Reload

LEMMA FailedView ==
    ASSUME Inv, ViewInv, NEW c \in Calls, calls[c] # None, calls[c].awaited, Failed(c),
           UNCHANGED ledger
    PROVE  ViewInv'
<1>0. facts' = facts  BY DEF ledger
<1>1. CASE calls' = [calls EXCEPT ![c] = None] /\ page' = None
  <2>1. calls'[c] = None /\ \A d \in Calls : d # c => calls'[d] = calls[d]
    BY <1>1 DEF Inv
  <2>2. \A d \in Calls : calls'[d] # None => CallView(facts', page', calls'[d])
    BY <1>0, <1>1, <2>1 DEF ViewInv, CallView
  <2>3. OneAwaited'  BY <2>1 DEF ViewInv, OneAwaited
  <2>. QED  BY <1>1, <2>2, <2>3 DEF ViewInv
<1>2. CASE calls' = [calls EXCEPT ![c] = Reload] /\ UNCHANGED page
  <2>1. CallView(facts, page, Reload)  BY ReloadView, Zenon
  <2>. QED  BY <1>0, <1>2, <2>1, OneCallView, Zenon
<1>. QED  BY <1>1, <1>2 DEF Failed

LEMMA RefuseView ==
    ASSUME Inv, ViewInv, NEW c \in Calls, Refuse(c)
    PROVE  ViewInv'
<1>1. calls[c] # None /\ UNCHANGED ledger  BY DEF Refuse, Refused
<1>2. CASE calls[c].awaited /\ Failed(c)
  BY <1>1, <1>2, FailedView
<1>3. CASE calls' = [calls EXCEPT ![c] = None] /\ UNCHANGED page
  <2>1. facts' = facts  BY <1>1 DEF ledger
  <2>. QED  BY <1>3, <2>1, OneCallView, Zenon
<1>. QED  BY <1>2, <1>3 DEF Refuse

LEMMA TimeoutView ==
    ASSUME Inv, ViewInv, NEW c \in Calls, Timeout(c)
    PROVE  ViewInv'
<1>0. calls[c] # None /\ calls[c].awaited /\ UNCHANGED ledger  BY DEF Timeout
<1>1. CASE Step(c) = "command"
  <2>. DEFINE late == [calls[c] EXCEPT !.awaited = FALSE, !.quiet = FALSE, !.interrupted = 0]
  <2>1. PICK d \in Calls :
           /\ calls[d] = None
           /\ calls' = [calls EXCEPT ![d] = Reload, ![c].awaited = FALSE,
                                     ![c].quiet = FALSE, ![c].interrupted = 0]
           /\ UNCHANGED <<claims, facts, page>>
    BY <1>1 DEF Timeout, Free, ledger
  <2>2. d # c  BY <1>0, <2>1
  <2>3. CallView(facts, page, Reload)  BY ReloadView, Zenon
  <2>4. DOMAIN calls = Calls /\ DOMAIN calls[c] = CallFields
        /\ CallView(facts, page, calls[c])
    BY <1>0 DEF Inv, CallInv, ViewInv
  <2>5. /\ late.req = calls[c].req /\ late.at = calls[c].at /\ late.seen = calls[c].seen
        /\ ~late.awaited
    BY <2>4 DEF CallFields
  <2>6. /\ calls'[d] = Reload /\ calls'[c] = late
        /\ \A e \in Calls : e # c /\ e # d => calls'[e] = calls[e]
    <3>. HIDE DEF Reload
    <3>. QED  BY <2>1, <2>2, <2>4
  <2>. HIDE DEF late, Reload
  <2>7. CallView(facts, page, late)
    <3>1. Program[late.req.kind][late.at] = "command"  BY <1>1, <2>5 DEF Step
    <3>. QED  BY <2>4, <2>5, <3>1 DEF CallView
  <2>8. \A e \in Calls : calls'[e] # None => CallView(facts', page', calls'[e])
    BY <2>1, <2>3, <2>6, <2>7 DEF ViewInv
  <2>9. \A e \in Calls : calls'[e] # None /\ calls'[e].awaited => e = d
    BY <1>0, <2>5, <2>6 DEF ViewInv, OneAwaited
  <2>10. OneAwaited'  BY <2>9 DEF OneAwaited
  <2>. QED  BY <2>1, <2>8, <2>10 DEF ViewInv
<1>2. CASE Step(c) # "command"
  BY <1>0, <1>2, FailedView DEF Timeout
<1>. QED  BY <1>1, <1>2

LEMMA NextView == Inv /\ ViewInv /\ [Next]_vars => ViewInv'
<1>. SUFFICES ASSUME Inv, ViewInv, [Next]_vars  PROVE ViewInv'
  OBVIOUS
<1>1. CASE UNCHANGED vars
  <2>1. facts' = facts /\ calls' = calls /\ page' = page
    BY <1>1 DEF vars, ledger
  <2>. QED  BY <2>1 DEF ViewInv, OneAwaited
<1>2. ASSUME NEW c \in Calls, Start(c)  PROVE ViewInv'
  <2>1. PICK r \in Offers(page) \cup {Load} : page # None /\ Send(c, r)
    BY <1>2 DEF Start
  <2>2. PageOk(claims, facts, page)  BY <2>1 DEF Inv
  <2>3. r.kind \in AllKinds  BY <2>2, OffersOk, Zenon
  <2>4. ~Busy  BY <1>2 DEF Start
  <2>. QED  BY <2>1, <2>3, <2>4, SendView, Zenon
<1>3. ASSUME NEW c \in Calls, OpenPage(c)  PROVE ViewInv'
  <2>1. Load.kind \in AllKinds  BY LoadOk
  <2>2. ~Busy /\ Send(c, Load)  BY <1>3 DEF OpenPage
  <2>. QED  BY <2>1, <2>2, SendView, Zenon
<1>4. ASSUME NEW c \in Calls, Answer(c) \/ Refuse(c) \/ Timeout(c)  PROVE ViewInv'
  BY <1>4, AnswerView, RefuseView, TimeoutView
<1>5. ASSUME NEW c \in Calls, ReadStep(c) \/ Execute(c), UNCHANGED page  PROVE ViewInv'
  BY <1>5, ReadStepView, ExecuteView
<1>6. CASE Others /\ UNCHANGED page
  BY <1>6, OthersView
<1>. QED  BY <1>1, <1>2, <1>3, <1>4, <1>5, <1>6 DEF Next

LEMMA InitView == Init => ViewInv
BY DEF Init, ViewInv, OneAwaited

(* Nobody waits for two requests at once, one that nobody waits for has no *)
(* page to show, and the one that is awaited reads nothing older than the  *)
(* page it will replace: the inductive invariant.                          *)
THEOREM ViewInvariance == Spec => []ViewInv
BY Invariance, InitView, NextView, PTL DEF Spec

(* Only an answer puts another page in the place of one. *)
LEMMA OnlyAnswersShow ==
    ASSUME [Next]_vars, page' # None, page' # page
    PROVE  \E c \in Calls : Answer(c) /\ page' = calls[c].seen
<1>1. page' # page => \E c \in Calls : Answer(c) \/ Refuse(c) \/ Timeout(c)
  BY DEF Next, vars, Start, OpenPage, Send
<1>2. PICK c \in Calls : Answer(c) \/ Refuse(c) \/ Timeout(c)  BY <1>1
<1>3. CASE Answer(c)
  BY <1>3 DEF Answer
<1>4. CASE Refuse(c) \/ Timeout(c)
  BY <1>4 DEF Refuse, Timeout, Failed
<1>. QED  BY <1>2, <1>3, <1>4

LEMMA ViewForward ==
    ASSUME Inv, ViewInv, [Next]_vars, page # None, page' # None
    PROVE  /\ page'.latest[1] >= page.latest[1]
           /\ page'.fact # 0 => page'.fact >= page.fact
           /\ page'.history # 0 => page'.history >= page.history
<1>1. CASE page' = page
  <2>1. PageOk(claims, facts, page) /\ LedgerOk(claims, facts)  BY DEF Inv
  <2>2. page.latest[1] \in Nat
    <3>1. PastGeneration(claims, page.latest)  BY <2>1 DEF PageOk, SeenOk
    <3>. QED  BY <2>1, <3>1, LatestIsLatest
  <2>3. page.fact # 0 => page.fact \in Nat
    BY <2>1, ObjectiveAssumption DEF PageOk, SeenOk, UsedFacts
  <2>4. page.history # 0 => page.history \in Nat
    BY ObjectiveAssumption DEF ViewInv, HistoryOk, Gone
  <2>. QED  BY <1>1, <2>2, <2>3, <2>4
<1>2. CASE page' # page
  <2>1. PICK c \in Calls : Answer(c) /\ page' = calls[c].seen
    BY <1>2, OnlyAnswersShow
  <2>2. calls[c] # None /\ calls[c].req.kind \in Reading /\ calls[c].at = 11
    BY <2>1, AnswersAPage
  <2>3. NotOlder(facts, page, 11, page')
    BY <2>1, <2>2 DEF ViewInv, CallView
  <2>. QED  BY <2>3 DEF NotOlder, FactRead, HistoryRead
<1>. QED  BY <1>1, <1>2

(* However many requests are given up, and whatever was committed while a  *)
(* page was read, no answer puts an older claim, accepted memory or past   *)
(* memory in the place of a newer one.                                     *)
THEOREM TheViewOnlyAdvances == Spec => ViewNeverGoesBack
<1>1. Inv /\ ViewInv /\ [Next]_vars =>
         [page # None /\ page' # None =>
            /\ page'.latest[1] >= page.latest[1]
            /\ page'.fact # 0 => page'.fact >= page.fact
            /\ page'.history # 0 => page'.history >= page.history]_vars
  BY ViewForward
<1>. QED  BY <1>1, Invariance, ViewInvariance, PTL DEF Spec, ViewNeverGoesBack

----------------------------------------------------------------------------
(***************************************************************************)
(* A request with which nobody interferes succeeds.                        *)
(***************************************************************************)
(* Every accepted claim is behind a fact, and facts are not more than      *)
(* claims: the fact f states the claim f or a later one.                   *)
ClaimsHaveFacts(cl, fa) ==
    /\ \A x \in ClaimIds : cl[x].status = "accepted" =>
          \E f \in UsedFacts(fa) : fa[f].claim = x
    /\ \A f \in UsedFacts(fa) : fa[f].claim >= f

(* Claims quote a note, which then stays. *)
SourceOk ==
    /\ source = [rev |-> source.rev, note |-> source.note]
    /\ source.rev \in Nat
    /\ source.rev = 0 => source.note = None /\ LatestId = 0

Deciding == {"rework", "withdraw", "accept", "supersede"}

(* A command that was given could not be given once more. *)
Spent(b) ==
    /\ b.kind = "propose" => b.gen[1] \in Nat /\ b.gen[1] < LatestId
    /\ b.kind \in Deciding =>
          b.claim \in ClaimIds /\ claims[b.claim].status \notin {"none", "proposed"}
    /\ b.kind = "revoke" => Gone(facts, b.fact)

LedgerInv ==
    /\ ClaimsHaveFacts(claims, facts)
    /\ SourceOk
    /\ \A d \in commands : Spent(d.body)

(* The ledger in numbers. *)
LEMMA InOrder ==
    ASSUME LedgerOk(claims, facts)
    PROVE  \E n, m \in Nat :
              /\ UsedClaims(claims) = 1 .. n /\ Open \subseteq {n} /\ LatestId = n
              /\ NewClaim = n + 1
              /\ UsedFacts(facts) = 1 .. m /\ Current \subseteq {m} /\ NewFact = m + 1
              /\ m # 0 => facts[m].status \in {"current", "revoked"}
<1>1. PICK n \in Nat : UsedClaims(claims) = 1 .. n /\ OpenIn(claims) \subseteq {n}
  BY DEF LedgerOk, ClaimsOk
<1>2. PICK m \in Nat : /\ UsedFacts(facts) = 1 .. m /\ CurrentIn(facts) \subseteq {m}
                       /\ m # 0 => facts[m].status \in {"current", "revoked"}
  BY DEF LedgerOk, FactsOk
<1>3. LatestIn(claims) = n  BY <1>1, LatestClaim
<1>4. LastFact(facts) = m  BY <1>2, LastOfInterval DEF LastFact
<1>. QED  BY <1>1, <1>2, <1>3, <1>4, LedgerNames

(* A command makes the latest claim accepted, or none.                     *)
LEMMA NewlyAccepted ==
    ASSUME NEW u, NEW b, LedgerOk(claims, facts), Commit(u, b),
           NEW x \in ClaimIds, claims'[x].status = "accepted", claims[x].status # "accepted"
    PROVE  b.kind \in {"accept", "supersede"} /\ x = b.claim /\ x \in Open
<1>1. DOMAIN claims = ClaimIds /\ \A y \in ClaimIds : "status" \in DOMAIN claims[y]
  BY DEF LedgerOk, ClaimsOk
<1>2. Legal(b)  BY DEF Commit, Admissible
<1>3. CASE b.kind \in {"capture", "revoke"}
  BY <1>3 DEF Commit
<1>4. CASE b.kind = "propose"
  BY <1>1, <1>4 DEF Commit, Proposed
<1>5. CASE b.kind = "rework"
  BY <1>1, <1>5 DEF Commit, Proposed, Status
<1>6. CASE b.kind = "withdraw"
  BY <1>1, <1>6 DEF Commit, Status
<1>7. CASE b.kind \in {"accept", "supersede"}
  <2>1. claims' = Status(b.claim, "accepted") /\ b.claim \in Open
    BY <1>2, <1>7 DEF Commit, Legal
  <2>2. x = b.claim  BY <1>1, <2>1 DEF Status
  <2>. QED  BY <1>7, <2>1, <2>2
<1>. QED  BY <1>3, <1>4, <1>5, <1>6, <1>7 DEF Commit

(* A command adds the next fact, which states the latest claim, or none.   *)
LEMMA NewFacts ==
    ASSUME NEW u, NEW b, LedgerOk(claims, facts), Commit(u, b)
    PROVE  /\ b.kind \in {"accept", "supersede"} =>
                 /\ NewFact \in UsedFacts(facts') /\ facts'[NewFact].claim = b.claim
                 /\ b.claim \in Open
           /\ \A f \in UsedFacts(facts') :
                 f \in UsedFacts(facts) \/ (f = NewFact /\ b.kind \in {"accept", "supersede"})
<1>1. DOMAIN facts = FactIds /\ \A f \in FactIds : {"status", "claim", "prior"} \subseteq DOMAIN facts[f]
  BY DEF LedgerOk, FactsOk
<1>2. Legal(b) /\ Room(b)  BY DEF Commit, Admissible
<1>3. CASE b.kind \in {"capture", "propose", "rework", "withdraw"}
  BY <1>3 DEF Commit
<1>4. CASE b.kind = "accept"
  <2>1. /\ facts' = [facts EXCEPT ![NewFact] = Accepted(b.claim, 0)]
        /\ NewFact \in FactIds /\ b.claim \in Open
    BY <1>2, <1>4 DEF Commit, Legal, Room
  <2>2. facts'[NewFact] = Accepted(b.claim, 0) /\ \A f \in FactIds : f # NewFact => facts'[f] = facts[f]
    BY <1>1, <2>1
  <2>3. facts'[NewFact].status = "current" /\ facts'[NewFact].claim = b.claim
    BY <2>2 DEF Accepted
  <2>4. \A f \in UsedFacts(facts') : f \in UsedFacts(facts) \/ f = NewFact
    BY <2>2 DEF UsedFacts
  <2>5. NewFact \in UsedFacts(facts')  BY <2>1, <2>3 DEF UsedFacts
  <2>. QED  BY <1>4, <2>1, <2>3, <2>4, <2>5
<1>5. CASE b.kind = "supersede"
  <2>1. /\ facts' = [facts EXCEPT ![b.fact].status = "superseded",
                                  ![NewFact] = Accepted(b.claim, b.fact)]
        /\ NewFact \in FactIds /\ b.claim \in Open /\ b.fact \in Current
    BY <1>2, <1>5 DEF Commit, Legal, Room
  <2>2. b.fact \in UsedFacts(facts)
    BY <2>1, LedgerNames DEF CurrentIn, UsedFacts
  <2>3. facts'[NewFact] = Accepted(b.claim, b.fact)
        /\ \A f \in FactIds : f # NewFact /\ f # b.fact => facts'[f] = facts[f]
    BY <1>1, <2>1
  <2>4. facts'[NewFact].status = "current" /\ facts'[NewFact].claim = b.claim
    BY <2>3 DEF Accepted
  <2>5. \A f \in UsedFacts(facts') : f \in UsedFacts(facts) \/ f = NewFact
    BY <2>2, <2>3 DEF UsedFacts
  <2>6. NewFact \in UsedFacts(facts')  BY <2>1, <2>4 DEF UsedFacts
  <2>. QED  BY <1>5, <2>1, <2>4, <2>5, <2>6
<1>6. CASE b.kind = "revoke"
  <2>1. facts' = [facts EXCEPT ![b.fact].status = "revoked"] /\ b.fact \in Current
    BY <1>2, <1>6 DEF Commit, Legal
  <2>2. b.fact \in UsedFacts(facts)
    BY <2>1, LedgerNames DEF CurrentIn, UsedFacts
  <2>3. \A f \in FactIds : f # b.fact => facts'[f] = facts[f]
    BY <1>1, <2>1
  <2>. QED  BY <1>6, <2>2, <2>3 DEF UsedFacts
<1>. QED  BY <1>3, <1>4, <1>5, <1>6 DEF Commit

LEMMA ClaimsHaveFactsNext ==
    ASSUME NEW u, NEW b, LedgerOk(claims, facts), ClaimsHaveFacts(claims, facts), Commit(u, b)
    PROVE  ClaimsHaveFacts(claims', facts')
<1>1. Keeps(claims, facts, claims', facts')  BY CommitStep
<1>2. PICK n, m \in Nat :
         /\ Open \subseteq {n} /\ UsedClaims(claims) = 1 .. n
         /\ UsedFacts(facts) = 1 .. m /\ NewFact = m + 1
  BY InOrder
<1>3. ASSUME NEW x \in ClaimIds, claims'[x].status = "accepted"
      PROVE  \E f \in UsedFacts(facts') : facts'[f].claim = x
  <2>1. CASE claims[x].status = "accepted"
    BY <1>1, <2>1 DEF ClaimsHaveFacts, Keeps
  <2>2. CASE claims[x].status # "accepted"
    <3>1. b.kind \in {"accept", "supersede"} /\ x = b.claim  BY <1>3, <2>2, NewlyAccepted
    <3>. QED  BY <3>1, NewFacts
  <2>. QED  BY <2>1, <2>2
<1>4. ASSUME NEW f \in UsedFacts(facts')
      PROVE  facts'[f].claim >= f
  <2>1. CASE f \in UsedFacts(facts)
    BY <1>1, <2>1 DEF ClaimsHaveFacts, Keeps
  <2>2. CASE f \notin UsedFacts(facts)
    <3>1. f = m + 1 /\ facts'[f].claim = b.claim /\ b.claim \in Open
      BY <1>2, <2>2, NewFacts
    <3>2. b.claim = n  BY <1>2, <3>1
    <3>3. n >= m + 1
      <4>1. CASE m = 0
        <5>1. n \in UsedClaims(claims)
          BY <3>1, <3>2, LedgerNames DEF OpenIn, UsedClaims
        <5>. QED  BY <1>2, <4>1, <5>1
      <4>2. CASE m # 0
        <5>1. m \in UsedFacts(facts)  BY <1>2, <4>2
        <5>2. facts[m].claim >= m  BY <5>1 DEF ClaimsHaveFacts
        <5>3. facts[m].claim \in ClaimIds /\ claims[facts[m].claim].status = "accepted"
          BY <5>1 DEF LedgerOk, FactOk
        <5>4. facts[m].claim \in 1 .. n  BY <1>2, <5>3 DEF UsedClaims
        <5>5. claims[n].status = "proposed"
          BY <3>1, <3>2, LedgerNames DEF OpenIn
        <5>6. facts[m].claim # n  BY <5>3, <5>5
        <5>. QED  BY <5>2, <5>4, <5>6
      <4>. QED  BY <4>1, <4>2
    <3>. QED  BY <3>1, <3>2, <3>3
  <2>. QED  BY <2>1, <2>2
<1>. QED  BY <1>3, <1>4 DEF ClaimsHaveFacts

LEMMA SourceNext ==
    ASSUME NEW u, NEW b, LedgerOk(claims, facts), SourceOk, Commit(u, b),
           b.kind = "propose" => source.rev # 0
    PROVE  SourceOk'
<1>1. CASE b.kind = "capture"
  BY <1>1 DEF Commit, SourceOk
<1>2. CASE b.kind = "revoke"
  BY <1>2 DEF Commit, SourceOk, LatestId
<1>3. CASE b.kind \in {"propose", "rework", "withdraw", "accept", "supersede"}
  <2>1. source' = source  BY <1>3 DEF Commit
  <2>2. source.rev # 0
    <3>1. CASE b.kind = "propose"  BY <3>1
    <3>2. CASE b.kind # "propose"
      <4>1. b.claim \in Open  BY <1>3, <3>2 DEF Commit, Admissible, Legal, Pending
      <4>2. PICK n, m \in Nat : UsedClaims(claims) = 1 .. n /\ LatestId = n  BY InOrder
      <4>3. b.claim \in 1 .. n  BY <4>1, <4>2, LedgerNames DEF OpenIn, UsedClaims
      <4>. QED  BY <4>2, <4>3 DEF SourceOk
    <3>. QED  BY <3>1, <3>2
  <2>. QED  BY <2>1, <2>2 DEF SourceOk
<1>. QED  BY <1>1, <1>2, <1>3 DEF Commit

LEMMA SpentStays ==
    ASSUME LedgerOk(claims, facts), LedgerOk(claims, facts)', Keeps(claims, facts, claims', facts'),
           NEW b, Spent(b)
    PROVE  Spent(b)'
<1>1. PICK n, m \in Nat : UsedClaims(claims) = 1 .. n /\ LatestId = n  BY InOrder
<1>2. PICK k \in Nat : UsedClaims(claims') = 1 .. k  BY DEF LedgerOk, ClaimsOk
<1>3. LatestIn(claims') = k  BY <1>2, LatestClaim
<1>4. LatestId' = k  BY <1>3 DEF LatestId, LatestIn, UsedClaims
<1>5. n <= k
  <2>1. n # 0 => n \in 1 .. n  OBVIOUS
  <2>. QED  BY <1>1, <1>2, <2>1 DEF Keeps
<1>6. b.kind = "propose" => b.gen[1] \in Nat /\ b.gen[1] < LatestId'
  BY <1>1, <1>4, <1>5 DEF Spent
<1>7. b.kind \in Deciding =>
         b.claim \in ClaimIds /\ claims'[b.claim].status \notin {"none", "proposed"}
  BY DEF Spent, Keeps
<1>8. b.kind = "revoke" => Gone(facts', b.fact)
  BY DEF Spent, Keeps, Gone
<1>. QED  BY <1>6, <1>7, <1>8 DEF Spent

LEMMA CommitSpends ==
    ASSUME NEW u, NEW b, LedgerOk(claims, facts), Commit(u, b)
    PROVE  Spent(b)'
<1>1. Legal(b) /\ Room(b)  BY DEF Commit, Admissible
<1>2. LedgerOk(claims', facts')  BY CommitStep
<1>3. PICK n, m \in Nat : LatestId = n /\ NewClaim = n + 1 /\ UsedClaims(claims) = 1 .. n
  BY InOrder
<1>4. DOMAIN claims = ClaimIds /\ \A y \in ClaimIds : "status" \in DOMAIN claims[y]
  BY DEF LedgerOk, ClaimsOk
<1>5. CASE b.kind \in {"capture"}
  BY <1>5 DEF Spent, Deciding
<1>6. CASE b.kind = "propose"
  <2>1. b.gen[1] = n  BY <1>1, <1>3, <1>6 DEF Legal, Novel, Generation
  <2>2. claims'[n + 1].status = "proposed" /\ n + 1 \in ClaimIds
    BY <1>1, <1>3, <1>4, <1>6 DEF Commit, Proposed, Room
  <2>3. PICK k \in Nat : UsedClaims(claims') = 1 .. k  BY <1>2 DEF LedgerOk, ClaimsOk
  <2>4. LatestId' = k
    <3>1. LatestIn(claims') = k  BY <2>3, LatestClaim
    <3>. QED  BY <3>1 DEF LatestId, LatestIn, UsedClaims
  <2>5. n + 1 \in 1 .. k  BY <2>2, <2>3 DEF UsedClaims
  <2>. QED  BY <1>6, <2>1, <2>4, <2>5 DEF Spent, Deciding
<1>7. CASE b.kind \in Deciding
  <2>1. b.claim \in Open  BY <1>1, <1>7 DEF Legal, Pending, Deciding
  <2>2. b.claim \in ClaimIds /\ b.claim # n + 1
    BY <1>3, <2>1, LedgerNames DEF OpenIn, UsedClaims
  <2>3. claims'[b.claim].status \in {"superseded", "rejected", "accepted"}
    BY <1>3, <1>4, <1>7, <2>2 DEF Commit, Status, Deciding
  <2>. QED  BY <1>7, <2>2, <2>3 DEF Spent, Deciding
<1>8. CASE b.kind = "revoke"
  <2>1. b.fact \in Current /\ facts' = [facts EXCEPT ![b.fact].status = "revoked"]
    BY <1>1, <1>8 DEF Legal, Commit
  <2>2. DOMAIN facts = FactIds /\ \A f \in FactIds : {"status", "claim", "prior"} \subseteq DOMAIN facts[f]
    BY DEF LedgerOk, FactsOk
  <2>3. b.fact \in FactIds /\ facts'[b.fact].status = "revoked"
    BY <2>1, <2>2, LedgerNames DEF CurrentIn
  <2>. QED  BY <1>8, <2>3 DEF Spent, Deciding, Gone
<1>. QED  BY <1>5, <1>6, <1>7, <1>8 DEF Commit, Deciding

LEMMA LedgerNext ==
    ASSUME NEW u, NEW b, LedgerOk(claims, facts), LedgerInv, Commit(u, b),
           b.kind = "propose" => source.rev # 0
    PROVE  LedgerInv'
<1>1. ClaimsHaveFacts(claims, facts)'
  <2>1. ClaimsHaveFacts(claims', facts')  BY ClaimsHaveFactsNext DEF LedgerInv
  <2>. QED  BY <2>1 DEF ClaimsHaveFacts, UsedFacts
<1>2. SourceOk'  BY SourceNext DEF LedgerInv
<1>3. ASSUME NEW d \in commands'  PROVE Spent(d.body)'
  <2>1. LedgerOk(claims', facts') /\ Keeps(claims, facts, claims', facts')  BY CommitStep
  <2>2. LedgerOk(claims, facts)'
    BY <2>1 DEF LedgerOk, ClaimsOk, FactsOk, FactOk, UsedClaims, UsedFacts, OpenIn, CurrentIn
  <2>3. d \in commands \/ d = [by |-> u, body |-> b]  BY <1>3 DEF Commit
  <2>4. CASE d \in commands
    <3>1. Spent(d.body)  BY <2>4 DEF LedgerInv
    <3>. QED  BY <2>1, <2>2, <3>1, SpentStays
  <2>5. CASE d = [by |-> u, body |-> b]
    <3>1. d.body = b  BY <2>5
    <3>. QED  BY <3>1, CommitSpends
  <2>. QED  BY <2>3, <2>4, <2>5
<1>. QED  BY <1>1, <1>2, <1>3 DEF LedgerInv

----------------------------------------------------------------------------
(* The statements before the one at at. *)
StepsBefore(k, at) == {Program[k][i] : i \in 1 .. (at - 1)}

(* What the statements of done see of the ledger of this instant. *)
SeenNow(done) ==
    [latest |-> IF "latest" \in done THEN PageNow.latest ELSE Unread.latest,
     source |-> IF "source" \in done THEN PageNow.source ELSE Unread.source,
     fact |-> IF "fact" \in done THEN PageNow.fact ELSE Unread.fact,
     open |-> IF "open" \in done THEN PageNow.open ELSE Unread.open,
     history |-> IF "history" \in done \/ ("revoked" \in done /\ Current = {})
                 THEN PageNow.history ELSE Unread.history,
     decides |-> IF "rights" \in done THEN PageNow.decides ELSE Unread.decides]

LEMMA PageNowFields ==
    /\ PageNow.latest = Generation(LatestId) /\ PageNow.source = source
    /\ PageNow.fact = Last(Current) /\ PageNow.open = Last(Open)
    /\ PageNow.history = Past(Last(Current))
    /\ PageNow.decides = (Current # {} /\ User = Owner)
BY DEF PageNow

LEMMA UnreadFields ==
    /\ Unread.latest = <<0, "none">> /\ Unread.source.rev = 0 /\ Unread.fact = 0
    /\ Unread.open = 0 /\ Unread.history = 0 /\ Unread.decides = FALSE
BY DEF Unread, NoSource

LEMMA SeenNowFields ==
    ASSUME NEW done
    PROVE  LET s == SeenNow(done) IN
           /\ s.latest = IF "latest" \in done THEN Generation(LatestId) ELSE <<0, "none">>
           /\ s.source = IF "source" \in done THEN source ELSE Unread.source
           /\ s.fact = IF "fact" \in done THEN Last(Current) ELSE 0
           /\ s.open = IF "open" \in done THEN Last(Open) ELSE 0
           /\ s.history = IF "history" \in done \/ ("revoked" \in done /\ Current = {})
                          THEN Past(Last(Current)) ELSE 0
           /\ s.decides = IF "rights" \in done THEN Current # {} /\ User = Owner ELSE FALSE
BY PageNowFields, UnreadFields DEF SeenNow

(* What is current and what is open. *)
LEMMA LastOnes ==
    ASSUME LedgerOk(claims, facts)
    PROVE  /\ Current = {} <=> Last(Current) = 0
           /\ Current # {} => Last(Current) \in Current
           /\ Current \subseteq {Last(Current)}
           /\ Open = {} <=> Last(Open) = 0
           /\ Open # {} => Last(Open) \in Open
           /\ Open \subseteq {Last(Open)}
           /\ 0 \notin Open /\ 0 \notin Current
           /\ Open # {} => LatestId # 0
<1>1. PICK n, m \in Nat :
         /\ UsedClaims(claims) = 1 .. n /\ Open \subseteq {n} /\ LatestId = n
         /\ UsedFacts(facts) = 1 .. m /\ Current \subseteq {m}
  BY InOrder
<1>2. Open \subseteq 1 .. n /\ Current \subseteq 1 .. m
  BY <1>1, LedgerNames DEF OpenIn, UsedClaims, CurrentIn, UsedFacts
<1>3. Last(Open) = IF Open = {} THEN 0 ELSE n
  <2>1. Open \subseteq {n}  BY <1>1
  <2>. QED  BY <2>1, LastOfOne
<1>4. Last(Current) = IF Current = {} THEN 0 ELSE m
  <2>1. Current \subseteq {m}  BY <1>1
  <2>. QED  BY <2>1, LastOfOne
<1>5. ASSUME Open # {}  PROVE n \in Open /\ n # 0
  <2>1. PICK x : x \in Open  BY <1>5
  <2>2. x \in {n} /\ x \in 1 .. n  BY <1>1, <1>2, <2>1
  <2>. QED  BY <2>1, <2>2
<1>6. ASSUME Current # {}  PROVE m \in Current /\ m # 0
  <2>1. PICK x : x \in Current  BY <1>6
  <2>2. x \in {m} /\ x \in 1 .. m  BY <1>1, <1>2, <2>1
  <2>. QED  BY <2>1, <2>2
<1>7. 0 \notin Open /\ 0 \notin Current  BY <1>2
<1>. QED  BY <1>1, <1>3, <1>4, <1>5, <1>6, <1>7

(* One statement more sees the ledger of this instant. *)
LEMMA ReadNow ==
    ASSUME LedgerOk(claims, facts), NEW done, NEW step, NEW s, s = SeenNow(done),
           Needed(step, s),
           step = "status" => "latest" \in done,
           step \in {"history", "revoked", "rights"} => "fact" \in done
    PROVE  Read(step, s) = SeenNow(done \cup {step})
<1>. DEFINE after == SeenNow(done \cup {step})
<1>1. \A st : st \in done \cup {step} <=> st \in done \/ st = step
  OBVIOUS
<1>2. CASE step = "latest"
  <2>1. Read(step, s) = [s EXCEPT !.latest = PageNow.latest]
    BY <1>2, PageNowFields DEF Read
  <2>. QED  BY <1>1, <1>2, <2>1 DEF SeenNow
<1>3. CASE step = "status"
  <2>1. s.latest = Generation(LatestId)  BY <1>3, SeenNowFields
  <2>2. Generation(s.latest[1]) = PageNow.latest  BY <2>1, PageNowFields DEF Generation
  <2>3. Read(step, s) = [s EXCEPT !.latest = PageNow.latest]
    BY <1>3, <2>2 DEF Read
  <2>. QED  BY <1>1, <1>3, <2>3 DEF SeenNow
<1>4. CASE step = "source"
  <2>1. Read(step, s) = [s EXCEPT !.source = PageNow.source]
    BY <1>4, PageNowFields DEF Read
  <2>. QED  BY <1>1, <1>4, <2>1 DEF SeenNow
<1>5. CASE step = "fact"
  <2>1. Read(step, s) = [s EXCEPT !.fact = PageNow.fact]
    BY <1>5, PageNowFields DEF Read
  <2>. QED  BY <1>1, <1>5, <2>1 DEF SeenNow
<1>6. CASE step = "open"
  <2>1. Read(step, s) = [s EXCEPT !.open = PageNow.open]
    BY <1>6, PageNowFields DEF Read
  <2>. QED  BY <1>1, <1>6, <2>1 DEF SeenNow
<1>7. CASE step = "openAgain"
  <2>1. s.open \in Open
    <3>1. s.open # 0  BY <1>7 DEF Needed
    <3>. QED  BY <3>1, SeenNowFields, LastOnes
  <2>2. Read(step, s) = [s EXCEPT !.open = s.open]
    BY <1>7, <2>1 DEF Read, StillOpen
  <2>. QED  BY <1>1, <1>7, <2>2 DEF SeenNow
<1>8. CASE step = "history"
  <2>1. s.fact = Last(Current)  BY <1>8, SeenNowFields
  <2>2. Read(step, s) = [s EXCEPT !.history = PageNow.history]
    BY <1>8, <2>1, PageNowFields DEF Read
  <2>. QED  BY <1>1, <1>8, <2>2 DEF SeenNow
<1>9. CASE step = "revoked"
  <2>1. s.fact = Last(Current) /\ s.fact = 0  BY <1>9, SeenNowFields DEF Needed
  <2>2. Current = {}  BY <2>1, LastOnes
  <2>3. Read(step, s) = [s EXCEPT !.history = PageNow.history]
    BY <1>9, <2>1, PageNowFields DEF Read
  <2>. QED  BY <1>1, <1>9, <2>2, <2>3 DEF SeenNow
<1>10. CASE step = "rights"
  <2>1. s.fact = Last(Current) /\ s.fact # 0  BY <1>10, SeenNowFields DEF Needed
  <2>2. s.fact \in Current  BY <2>1, LastOnes
  <2>3. (s.fact \in Current /\ User = Owner) = PageNow.decides
    BY <2>2, PageNowFields
  <2>4. Read(step, s) = [s EXCEPT !.decides = PageNow.decides]
    BY <1>10, <2>3 DEF Read
  <2>. QED  BY <1>1, <1>10, <2>4 DEF SeenNow
<1>11. CASE step \notin {"latest", "status", "source", "fact", "open", "openAgain",
                          "history", "revoked", "rights"}
  <2>1. Read(step, s) = s  BY <1>11 DEF Read
  <2>. QED  BY <1>1, <1>11, <2>1 DEF SeenNow
<1>. QED
  BY <1>2, <1>3, <1>4, <1>5, <1>6, <1>7, <1>8, <1>9, <1>10, <1>11

(* Statements that are not needed would see nothing else. *)
LEMMA SkipNow ==
    ASSUME LedgerOk(claims, facts), SourceOk, NEW done, NEW S,
           NEW s, s = SeenNow(done), \A st \in S : ~Needed(st, s),
           "open" \in S => "source" \in done,
           "rights" \in S => "fact" \in done
    PROVE  SeenNow(done \cup S) = s
<1>1. Needed("latest", s) /\ Needed("source", s) /\ Needed("fact", s) /\ Needed("history", s)
  BY DEF Needed
<1>2. {"latest", "source", "fact", "history"} \cap S = {}  BY <1>1
<1>3. "open" \in S => PageNow.open = Unread.open
  <2>. SUFFICES ASSUME "open" \in S  PROVE Last(Open) = 0
    BY PageNowFields, UnreadFields
  <2>1. s.source.rev = 0 /\ s.source = source  BY SeenNowFields DEF Needed
  <2>2. LatestId = 0  BY <2>1 DEF SourceOk
  <2>. QED  BY <2>2, LastOnes
<1>4. "revoked" \in S => Current # {} \/ "fact" \notin done
  BY SeenNowFields, LastOnes DEF Needed
<1>5. "revoked" \in S => Current # {}
  <2>1. "revoked" \in S => s.fact # 0  BY DEF Needed
  <2>. QED  BY <2>1, SeenNowFields, LastOnes
<1>6. "rights" \in S => PageNow.decides = Unread.decides
  <2>. SUFFICES ASSUME "rights" \in S  PROVE Current = {}
    BY PageNowFields, UnreadFields
  <2>1. s.fact = 0 /\ s.fact = Last(Current)  BY SeenNowFields DEF Needed
  <2>. QED  BY <2>1, LastOnes
<1>7. \A st : st \in done \cup S <=> st \in done \/ st \in S
  OBVIOUS
<1>8. /\ "latest" \in done \cup S <=> "latest" \in done
      /\ "source" \in done \cup S <=> "source" \in done
      /\ "fact" \in done \cup S <=> "fact" \in done
      /\ "history" \in done \cup S <=> "history" \in done
  BY <1>2
<1>9. ("revoked" \in done \cup S /\ Current = {}) <=> ("revoked" \in done /\ Current = {})
  BY <1>5
<1>10. (IF "open" \in done \cup S THEN PageNow.open ELSE Unread.open)
          = (IF "open" \in done THEN PageNow.open ELSE Unread.open)
  BY <1>3
<1>11. (IF "rights" \in done \cup S THEN PageNow.decides ELSE Unread.decides)
          = (IF "rights" \in done THEN PageNow.decides ELSE Unread.decides)
  BY <1>6
<1>. QED  BY <1>8, <1>9, <1>10, <1>11 DEF SeenNow

(* The order of the statements. *)
InOrderAt(k, n) ==
    LET done == StepsBefore(k, n)
        step == Program[k][n] IN
    /\ step = "status" => "latest" \in done
    /\ step \in {"factAgain", "history", "revoked", "rights", "acceptedClaim"} =>
          "fact" \in done
    /\ step = "open" => "source" \in done
    /\ step = "acceptedClaim" => "history" \in done \/ "revoked" \in done
    /\ step = "openAgain" => "open" \in done
    /\ k = "propose" /\ step \in {"open", "openAgain"} => "latest" \in done

LEMMA Precedes ==
    ASSUME NEW k, NEW n \in Nat, NEW i \in Nat \ {0}, i < n
    PROVE  Program[k][i] \in StepsBefore(k, n)
BY DEF StepsBefore

LEMMA ProgramOrder ==
    ASSUME NEW k \in AllKinds, NEW n \in DOMAIN Program[k]
    PROVE  InOrderAt(k, n)
<1>1. CASE k \in Reading
  <2>1. Program[k] = Page /\ n \in 1 .. 11  BY <1>1, ReadingProgram
  <2>2. /\ n = 1 => Program[k][n] = "latest"
        /\ n = 2 => Program[k][n] = "status"
        /\ n = 3 => Program[k][n] = "source"
        /\ n = 4 => Program[k][n] = "fact"
        /\ n = 5 => Program[k][n] = "factAgain"
        /\ n = 6 => Program[k][n] = "open"
        /\ n = 7 => Program[k][n] = "openAgain"
        /\ n = 8 => Program[k][n] = "history"
        /\ n = 9 => Program[k][n] = "acceptedClaim"
        /\ n = 10 => Program[k][n] = "rights"
        /\ n = 11 => Program[k][n] = "answer"
    BY <2>1 DEF Page
  <2>3. /\ Program[k][1] = "latest" /\ Program[k][3] = "source" /\ Program[k][4] = "fact"
        /\ Program[k][6] = "open" /\ Program[k][8] = "history"
    BY <2>1 DEF Page
  <2>4. /\ n > 1 => "latest" \in StepsBefore(k, n)
        /\ n > 3 => "source" \in StepsBefore(k, n)
        /\ n > 4 => "fact" \in StepsBefore(k, n)
        /\ n > 6 => "open" \in StepsBefore(k, n)
        /\ n > 8 => "history" \in StepsBefore(k, n)
    BY <2>1, <2>3, Precedes
  <2>5. k # "propose"  BY <1>1 DEF Reading
  <2>6. /\ Program[k][n] = "status" => n = 2
        /\ Program[k][n] \in {"factAgain", "history", "revoked", "rights", "acceptedClaim"} => n > 4
        /\ Program[k][n] = "open" => n = 6
        /\ Program[k][n] = "acceptedClaim" => n = 9
        /\ Program[k][n] = "openAgain" => n = 7
    BY <2>1, <2>2
  <2>. QED  BY <2>4, <2>5, <2>6 DEF InOrderAt
<1>2. CASE k = "propose"
  <2>1. n \in 1 .. 10  BY <1>2, ProposeProgram
  <2>2. /\ Program[k][1] = "source" /\ Program[k][2] = "fact" /\ Program[k][3] = "factAgain"
        /\ Program[k][4] = "revoked" /\ Program[k][5] = "acceptedClaim"
        /\ Program[k][6] = "latest" /\ Program[k][7] = "status"
        /\ Program[k][8] = "open" /\ Program[k][9] = "openAgain" /\ Program[k][10] = "command"
    <3>1. Program[k] = <<"source", "fact", "factAgain", "revoked", "acceptedClaim",
                         "latest", "status", "open", "openAgain">> \o <<"command">>
      BY <1>2, ProposeProgram
    <3>. QED  BY <3>1
  <2>4. /\ n > 1 => "source" \in StepsBefore(k, n)
        /\ n > 2 => "fact" \in StepsBefore(k, n)
        /\ n > 4 => "revoked" \in StepsBefore(k, n)
        /\ n > 6 => "latest" \in StepsBefore(k, n)
        /\ n > 8 => "open" \in StepsBefore(k, n)
    BY <2>1, <2>2, Precedes
  <2>6. /\ Program[k][n] = "status" => n = 7
        /\ Program[k][n] \in {"factAgain", "history", "revoked", "rights", "acceptedClaim"} => n > 2
        /\ Program[k][n] = "open" => n = 8
        /\ Program[k][n] = "acceptedClaim" => n = 5
        /\ Program[k][n] = "openAgain" => n = 9
    BY <2>1, <2>2
  <2>. QED  BY <2>4, <2>6 DEF InOrderAt
<1>3. CASE k = "accept"
  <2>1. n \in 1 .. 8  BY <1>3, AcceptProgram
  <2>2. /\ Program[k][1] = "source" /\ Program[k][2] = "fact" /\ Program[k][3] = "factAgain"
        /\ Program[k][4] = "revoked" /\ Program[k][5] = "acceptedClaim"
        /\ Program[k][6] = "open" /\ Program[k][7] = "openAgain" /\ Program[k][8] = "command"
    <3>1. Program[k] = <<"source", "fact", "factAgain", "revoked", "acceptedClaim",
                         "open", "openAgain">> \o <<"command">>
      BY <1>3 DEF Program, Before
    <3>. QED  BY <3>1
  <2>4. /\ n > 1 => "source" \in StepsBefore(k, n)
        /\ n > 2 => "fact" \in StepsBefore(k, n)
        /\ n > 4 => "revoked" \in StepsBefore(k, n)
        /\ n > 6 => "open" \in StepsBefore(k, n)
    BY <2>1, <2>2, Precedes
  <2>6. /\ Program[k][n] # "status"
        /\ Program[k][n] \in {"factAgain", "history", "revoked", "rights", "acceptedClaim"} => n > 2
        /\ Program[k][n] = "open" => n = 6
        /\ Program[k][n] = "acceptedClaim" => n = 5
        /\ Program[k][n] = "openAgain" => n = 7
    BY <2>1, <2>2
  <2>. QED  BY <1>3, <2>4, <2>6 DEF InOrderAt
<1>4. CASE k = "revoke"
  <2>1. n \in 1 .. 3  BY <1>4, RevokeProgram
  <2>2. Program[k][1] = "fact" /\ Program[k][2] = "factAgain" /\ Program[k][3] = "command"
    <3>1. Program[k] = <<"fact", "factAgain">> \o <<"command">>
      BY <1>4 DEF Program, Before
    <3>. QED  BY <3>1
  <2>3. n > 1 => "fact" \in StepsBefore(k, n)  BY <2>1, <2>2, Precedes
  <2>4. /\ Program[k][n] \notin {"status", "open", "acceptedClaim", "openAgain"}
        /\ Program[k][n] = "factAgain" => n = 2
        /\ Program[k][n] \notin {"history", "revoked", "rights", "acceptedClaim"}
    BY <2>1, <2>2
  <2>. QED  BY <1>4, <2>3, <2>4 DEF InOrderAt
<1>5. CASE k \in {"capture", "rework", "withdraw", "supersede"}
  <2>1. Program[k][n] \in {"source", "command"}
    <3>1. CASE k \in {"capture", "rework"}
      <4>1. /\ DOMAIN Program[k] = 1 .. 2
            /\ Program[k][1] = "source" /\ Program[k][2] = "command"
        BY <3>1, ShortPrograms, Zenon
      <4>. QED  BY <4>1
    <3>2. CASE k \in {"withdraw", "supersede"}
      <4>1. DOMAIN Program[k] = 1 .. 1 /\ Program[k][1] = "command"
        BY <3>2, BareCommands, Zenon
      <4>. QED  BY <4>1
    <3>. QED  BY <1>5, <3>1, <3>2
  <2>. QED  BY <2>1 DEF InOrderAt
<1>. QED  BY <1>1, <1>2, <1>3, <1>4, <1>5 DEF AllKinds

----------------------------------------------------------------------------
(* What the page of this instant offers. *)
Offered(r) ==
    /\ r.kind \in AllKinds
    /\ r.kind = "capture" => source.rev = 0
    /\ r.kind \in {"propose", "rework"} => NewClaim \in ClaimIds /\ r.rev = source.rev
    /\ r.kind = "propose" =>
          /\ source.rev # 0 /\ Last(Open) = 0
          /\ r.fact = Last(Current) /\ r.latest = Generation(LatestId)
    /\ r.kind \in Deciding => r.open = Last(Open) /\ Last(Open) # 0
    /\ r.kind = "rework" => claims[r.open].by = User
    /\ r.kind = "withdraw" =>
          User = Owner \/ (r.data = "withdrawn" /\ claims[r.open].by = User)
    /\ r.kind = "accept" => Last(Current) = 0
    /\ r.kind \in {"supersede", "revoke"} => r.fact = Last(Current) /\ Last(Current) # 0
    /\ r.kind = "revoke" => Last(Open) = 0
    /\ r.kind \in OwnerDecides => User = Owner
    /\ r.kind = "draft" => Last(Current) # 0

(* What an undisturbed request has seen when its next statement is at at. *)
QuietSeen(k, at, s) ==
    LET v == SeenNow(StepsBefore(k, at)) IN
    IF Program[k][at] = "command" THEN s.latest = v.latest /\ s.source = v.source
    ELSE s = v /\ Needed(Program[k][at], s)

QuietCall(call) == Offered(call.req) /\ QuietSeen(call.req.kind, call.at, call.seen)

QuietInv ==
    /\ LedgerInv
    /\ \A c \in Calls : calls[c] # None /\ calls[c].quiet => QuietCall(calls[c])

(* The buttons of a page that is up to date. *)
LEMMA RequestFields ==
    ASSUME NEW k, NEW data, NEW v
    PROVE  LET r == Request(k, data, v) IN
           /\ r.kind = k /\ r.data = data
           /\ k \in {"propose", "supersede", "revoke"} => r.fact = v.fact
           /\ k \in {"rework", "withdraw", "accept", "supersede"} => r.open = v.open
           /\ k = "propose" => r.latest = v.latest
           /\ k \in {"propose", "rework"} => r.rev = v.source.rev
BY DEF Request, Names

OfferOf(r, k, condition, Data) ==
    \E data \in Data : condition /\ r = Request(k, data, PageNow)

LEMMA OffersNow ==
    ASSUME NEW r \in Offers(PageNow)
    PROVE  \/ OfferOf(r, "capture", Label(PageNow) = "empty", Notes)
           \/ OfferOf(r, "propose", source.rev # 0 /\ Last(Open) = 0 /\ NewClaim \in ClaimIds, Texts)
           \/ OfferOf(r, "rework", Last(Open) # 0 /\ CanRework(Last(Open)) /\ NewClaim \in ClaimIds,
                      Texts)
           \/ OfferOf(r, "withdraw", TRUE, Dispositions(PageNow))
           \/ OfferOf(r, "accept", Last(Open) # 0 /\ Last(Current) = 0 /\ User = Owner, {None})
           \/ OfferOf(r, "supersede", Last(Open) # 0 /\ Last(Current) # 0 /\ PageNow.decides, {None})
           \/ OfferOf(r, "revoke", Last(Open) = 0 /\ Last(Current) # 0 /\ PageNow.decides, {None})
           \/ r = [kind |-> "draft"] /\ Last(Current) # 0
<1>. DEFINE v == PageNow
<1>1. v.source = source /\ v.open = Last(Open) /\ v.fact = Last(Current)
  BY PageNowFields
<1>. HIDE DEF v
<1>2. r \in Offers(v)  BY DEF v
<1>3. \/ Label(v) = "empty" /\ \E n \in Notes : r = Request("capture", n, v)
      \/ /\ v.source.rev # 0 /\ v.open = 0 /\ NewClaim \in ClaimIds
         /\ \E t \in Texts : r = Request("propose", t, v)
      \/ /\ v.open # 0 /\ v.fact = 0 /\ CanRework(v.open) /\ NewClaim \in ClaimIds
         /\ \E t \in Texts : r = Request("rework", t, v)
      \/ \E a \in Dispositions(v) : r = Request("withdraw", a, v)
      \/ v.open # 0 /\ v.fact = 0 /\ User = Owner /\ r = Request("accept", None, v)
      \/ v.open # 0 /\ v.fact # 0 /\ v.decides /\ r = Request("supersede", None, v)
      \/ v.open = 0 /\ v.fact # 0 /\ v.decides /\ r = Request("revoke", None, v)
      \/ v.open = 0 /\ v.fact # 0 /\ r = [kind |-> "draft"]
  BY <1>2 DEF Offers
<1>. QED  BY <1>1, <1>3 DEF OfferOf, v

LEMMA OffersAreOffered ==
    ASSUME LedgerOk(claims, facts), LedgerInv, NEW r \in Offers(PageNow) \cup {Load}
    PROVE  Offered(r)
<1>. USE DEF Offered, AllKinds, Reading, Deciding, OwnerDecides
<1>1. CASE r = Load
  <2>1. r.kind = "load"  BY <1>1 DEF Load
  <2>. QED  BY <2>1
<1>2. CASE OfferOf(r, "capture", Label(PageNow) = "empty", Notes)
  <2>1. r.kind = "capture" /\ Label(PageNow) = "empty"
    BY <1>2, RequestFields DEF OfferOf
  <2>2. source.rev = 0  BY <2>1, PageNowFields DEF Label
  <2>. QED  BY <2>1, <2>2
<1>3. CASE OfferOf(r, "propose", source.rev # 0 /\ Last(Open) = 0 /\ NewClaim \in ClaimIds, Texts)
  <2>1. /\ r.kind = "propose" /\ r.fact = PageNow.fact /\ r.latest = PageNow.latest
        /\ r.rev = PageNow.source.rev
        /\ source.rev # 0 /\ Last(Open) = 0 /\ NewClaim \in ClaimIds
    BY <1>3, RequestFields DEF OfferOf
  <2>. QED  BY <2>1, PageNowFields
<1>4. CASE OfferOf(r, "rework", Last(Open) # 0 /\ CanRework(Last(Open)) /\ NewClaim \in ClaimIds,
                   Texts)
  <2>1. /\ r.kind = "rework" /\ r.open = PageNow.open /\ r.rev = PageNow.source.rev
        /\ Last(Open) # 0 /\ CanRework(Last(Open)) /\ NewClaim \in ClaimIds
    BY <1>4, RequestFields DEF OfferOf
  <2>. QED  BY <2>1, PageNowFields DEF CanRework
<1>5. CASE OfferOf(r, "withdraw", TRUE, Dispositions(PageNow))
  <2>1. /\ r.kind = "withdraw" /\ r.open = PageNow.open
        /\ r.data \in Dispositions(PageNow)
    BY <1>5, RequestFields DEF OfferOf
  <2>2. PageNow.open = Last(Open)  BY PageNowFields
  <2>3. /\ Last(Open) # 0
        /\ User = Owner \/ (r.data = "withdrawn" /\ claims[Last(Open)].by = User)
    BY <2>1, <2>2 DEF Dispositions, CanReject, CanWithdraw
  <2>. QED  BY <2>1, <2>2, <2>3
<1>6. CASE OfferOf(r, "accept", Last(Open) # 0 /\ Last(Current) = 0 /\ User = Owner, {None})
  <2>1. /\ r.kind = "accept" /\ r.open = PageNow.open
        /\ Last(Open) # 0 /\ Last(Current) = 0 /\ User = Owner
    BY <1>6, RequestFields DEF OfferOf
  <2>. QED  BY <2>1, PageNowFields
<1>7. CASE OfferOf(r, "supersede", Last(Open) # 0 /\ Last(Current) # 0 /\ PageNow.decides, {None})
  <2>1. /\ r.kind = "supersede" /\ r.open = PageNow.open /\ r.fact = PageNow.fact
        /\ Last(Open) # 0 /\ Last(Current) # 0 /\ PageNow.decides
    BY <1>7, RequestFields DEF OfferOf
  <2>. QED  BY <2>1, PageNowFields
<1>8. CASE OfferOf(r, "revoke", Last(Open) = 0 /\ Last(Current) # 0 /\ PageNow.decides, {None})
  <2>1. /\ r.kind = "revoke" /\ r.fact = PageNow.fact
        /\ Last(Open) = 0 /\ Last(Current) # 0 /\ PageNow.decides
    BY <1>8, RequestFields DEF OfferOf
  <2>. QED  BY <2>1, PageNowFields
<1>9. CASE r = [kind |-> "draft"] /\ Last(Current) # 0
  <2>1. r.kind = "draft" /\ Last(Current) # 0  BY <1>9
  <2>. QED  BY <2>1
<1>. HIDE DEF Offered, AllKinds, Reading, Deciding, OwnerDecides
<1>10. r = Load \/ r \in Offers(PageNow)  OBVIOUS
<1>. QED  BY <1>1, <1>2, <1>3, <1>4, <1>5, <1>6, <1>7, <1>8, <1>9, <1>10, OffersNow

----------------------------------------------------------------------------
LEMMA StepsOfBoth ==
    ASSUME NEW k, NEW A, NEW B
    PROVE  {Program[k][i] : i \in A \cup B}
              = {Program[k][i] : i \in A} \cup {Program[k][i] : i \in B}
OBVIOUS

(* Statements that are skipped, and the one that follows them. *)
LEMMA QuietFollows ==
    ASSUME LedgerOk(claims, facts), SourceOk, NEW k \in AllKinds, NEW at \in Nat,
           \/ at = 0
           \/ at \in DOMAIN Program[k] /\ Program[k][at] \notin {"command", "answer"},
           NEW t, t = SeenNow(StepsBefore(k, at + 1)),
           NEW j, j = Following(k, at, t)
    PROVE  t = SeenNow(StepsBefore(k, j)) /\ Needed(Program[k][j], t)
<1>. DEFINE done == StepsBefore(k, at + 1)
            S == {Program[k][i] : i \in (at + 1) .. (j - 1)}
<1>1. /\ j \in DOMAIN Program[k] /\ j \in Nat /\ j > at
      /\ \A i \in (at + 1) .. (j - 1) : ~Needed(Program[k][i], t)
      /\ Needed(Program[k][j], t)
  BY FollowingStatement, Zenon
<1>2. StepsBefore(k, j) = done \cup S
  <2>. DEFINE A == 1 .. (at + 1 - 1)
              B == (at + 1) .. (j - 1)
  <2>1. 1 .. (j - 1) = A \cup B  BY <1>1
  <2>2. done = {Program[k][i] : i \in A} /\ S = {Program[k][i] : i \in B}
    BY DEF StepsBefore
  <2>3. StepsBefore(k, j) = {Program[k][i] : i \in A \cup B}
    BY <2>1, Zenon DEF StepsBefore
  <2>. HIDE DEF A, B, done, S
  <2>. QED  BY <2>2, <2>3, StepsOfBoth, Zenon
<1>3. \A st \in S : ~Needed(st, t)  BY <1>1
<1>4. Needed("source", t) /\ Needed("fact", t)  BY DEF Needed
<1>5. "source" \notin S /\ "fact" \notin S  BY <1>3, <1>4
<1>6. ASSUME NEW i \in (at + 1) .. (j - 1)
      PROVE  InOrderAt(k, i) /\ StepsBefore(k, i) \subseteq done \cup S
  <2>1. PICK n \in Nat \ {0} : DOMAIN Program[k] = 1 .. n  BY ProgramEnds
  <2>2. i \in DOMAIN Program[k]  BY <1>1, <2>1
  <2>3. InOrderAt(k, i)  BY <2>2, ProgramOrder
  <2>4. 1 .. (i - 1) \subseteq 1 .. (j - 1)  BY <1>1
  <2>5. StepsBefore(k, i) \subseteq StepsBefore(k, j)  BY <2>4 DEF StepsBefore
  <2>. QED  BY <1>2, <2>3, <2>5
<1>7. "open" \in S => "source" \in done
  <2>. SUFFICES ASSUME "open" \in S  PROVE "source" \in done
    OBVIOUS
  <2>1. PICK i \in (at + 1) .. (j - 1) : Program[k][i] = "open"  OBVIOUS
  <2>2. "source" \in StepsBefore(k, i)  BY <1>6, <2>1 DEF InOrderAt
  <2>. QED  BY <1>5, <1>6, <2>2
<1>8. "rights" \in S => "fact" \in done
  <2>. SUFFICES ASSUME "rights" \in S  PROVE "fact" \in done
    OBVIOUS
  <2>1. PICK i \in (at + 1) .. (j - 1) : Program[k][i] = "rights"  OBVIOUS
  <2>2. "fact" \in StepsBefore(k, i)  BY <1>6, <2>1 DEF InOrderAt
  <2>. QED  BY <1>5, <1>6, <2>2
<1>9. t = SeenNow(done)  OBVIOUS
<1>. HIDE DEF done, S
<1>10. SeenNow(done \cup S) = t  BY <1>3, <1>7, <1>8, <1>9, SkipNow, Zenon
<1>. QED  BY <1>1, <1>2, <1>10

LEMMA QuietBegins ==
    ASSUME LedgerOk(claims, facts), SourceOk, NEW k \in AllKinds,
           NEW j, j = Following(k, 0, Unread)
    PROVE  QuietSeen(k, j, Unread)
<1>1. StepsBefore(k, 0 + 1) = {}
  <2>1. 1 .. (0 + 1 - 1) = {}  OBVIOUS
  <2>. QED  BY <2>1 DEF StepsBefore
<1>2. SeenNow({}) = Unread  BY DEF SeenNow, Unread
<1>3. Unread = SeenNow(StepsBefore(k, 0 + 1))  BY <1>1, <1>2
<1>4. 0 \in Nat  OBVIOUS
<1>5. Unread = SeenNow(StepsBefore(k, j)) /\ Needed(Program[k][j], Unread)
  BY <1>3, <1>4, QuietFollows, Zenon
<1>. QED  BY <1>5 DEF QuietSeen

(* The statement at at sees the ledger of this instant. *)
LEMMA QuietReads ==
    ASSUME LedgerOk(claims, facts), NEW k \in AllKinds, NEW at \in DOMAIN Program[k],
           NEW s, QuietSeen(k, at, s), Program[k][at] # "command"
    PROVE  Read(Program[k][at], s) = SeenNow(StepsBefore(k, at + 1))
<1>1. PICK n \in Nat \ {0} : DOMAIN Program[k] = 1 .. n  BY ProgramEnds
<1>2. at \in Nat \ {0}  BY <1>1
<1>. DEFINE done == StepsBefore(k, at)
            step == Program[k][at]
<1>3. StepsBefore(k, at + 1) = done \cup {step}
  <2>1. 1 .. (at + 1 - 1) = (1 .. (at - 1)) \cup {at}  BY <1>2
  <2>. QED  BY <2>1 DEF StepsBefore
<1>4. InOrderAt(k, at)  BY ProgramOrder
<1>5. s = SeenNow(done) /\ Needed(step, s)  BY DEF QuietSeen
<1>6. /\ step = "status" => "latest" \in done
      /\ step \in {"history", "revoked", "rights"} => "fact" \in done
  BY <1>4 DEF InOrderAt
<1>. HIDE DEF done, step
<1>7. Read(step, s) = SeenNow(done \cup {step})
  BY <1>5, <1>6, ReadNow, Zenon
<1>. QED  BY <1>3, <1>7 DEF step

LEMMA QuietContinues ==
    ASSUME LedgerOk(claims, facts), SourceOk, NEW k \in AllKinds,
           NEW at \in DOMAIN Program[k], Program[k][at] \notin {"command", "answer"},
           NEW s, QuietSeen(k, at, s), NEW t, t = Read(Program[k][at], s),
           NEW j, j = Following(k, at, t), NEW w, w = Seen(k, j, t)
    PROVE  QuietSeen(k, j, w)
<1>1. PICK n \in Nat \ {0} : DOMAIN Program[k] = 1 .. n  BY ProgramEnds
<1>2. at \in Nat  BY <1>1
<1>3. t = SeenNow(StepsBefore(k, at + 1))
  <2>1. Program[k][at] # "command"  OBVIOUS
  <2>. QED  BY <2>1, QuietReads
<1>4. t = SeenNow(StepsBefore(k, j)) /\ Needed(Program[k][j], t)
  <2>1. \/ at = 0
        \/ at \in DOMAIN Program[k] /\ Program[k][at] \notin {"command", "answer"}
    OBVIOUS
  <2>2. k \in AllKinds /\ j = Following(k, at, t)  OBVIOUS
  <2>. QED  BY <1>2, <1>3, <2>1, <2>2, QuietFollows, Zenon
<1>5. CASE Program[k][j] = "command"
  <2>1. DOMAIN t = SeenFields  BY <1>4 DEF SeenNow, SeenFields
  <2>2. w.latest = t.latest /\ w.source = t.source  BY <2>1, SeenNext
  <2>. QED  BY <1>4, <1>5, <2>2 DEF QuietSeen
<1>6. CASE Program[k][j] # "command"
  <2>1. w = t  BY <1>6 DEF Seen
  <2>. QED  BY <1>4, <1>6, <2>1 DEF QuietSeen
<1>. QED  BY <1>5, <1>6

----------------------------------------------------------------------------
(* No fact, current or past, no accepted claim. *)
LEMMA NothingAccepted ==
    ASSUME LedgerOk(claims, facts), ClaimsHaveFacts(claims, facts),
           Current = {}, Past(Last(Current)) = 0
    PROVE  ClaimsThatAre("accepted") = {}
<1>1. PICK n, m \in Nat :
         /\ UsedFacts(facts) = 1 .. m
         /\ m # 0 => facts[m].status \in {"current", "revoked"}
  BY InOrder
<1>2. Last(Current) = 0  BY LastOnes
<1>3. Last(FactsThatAre("revoked")) = 0  BY <1>2 DEF Past
<1>4. m = 0
  <2>. SUFFICES ASSUME m # 0  PROVE FALSE
    OBVIOUS
  <2>. DEFINE R == FactsThatAre("revoked")
  <2>1. m \in UsedFacts(facts)  BY <1>1
  <2>2. m \in FactIds  BY <2>1 DEF UsedFacts
  <2>3. facts[m].status = "revoked"
    <3>1. facts[m].status # "current"  BY <2>2 DEF Current, FactsThatAre
    <3>. QED  BY <1>1, <3>1
  <2>4. m \in R  BY <2>2, <2>3 DEF FactsThatAre
  <2>5. R \subseteq 1 .. m  BY <1>1 DEF FactsThatAre, UsedFacts
  <2>. HIDE DEF R
  <2>6. R # {}  BY <2>4
  <2>7. Last(R) \in R  BY <1>1, <2>5, <2>6, GreatestOf
  <2>8. Last(R) \in 1 .. m  BY <2>5, <2>7
  <2>. QED  BY <1>3, <2>8 DEF R
<1>5. UsedFacts(facts) = {}  BY <1>1, <1>4
<1>6. \A x \in ClaimIds : claims[x].status # "accepted"
  BY <1>5 DEF ClaimsHaveFacts
<1>. QED  BY <1>6 DEF ClaimsThatAre

(* The statements of an undisturbed request refuse it only when excused.   *)
LEMMA QuietFits ==
    ASSUME LedgerOk(claims, facts), LedgerInv, NEW r, Offered(r), ~Excused(r),
           NEW at \in DOMAIN Program[r.kind], NEW step, step = Program[r.kind][at],
           step \notin {"command", "answer"},
           NEW s, QuietSeen(r.kind, at, s), NEW t, t = Read(step, s)
    PROVE  ~Misfit(r, step, t)
<1>. DEFINE done == StepsBefore(r.kind, at)
            after == StepsBefore(r.kind, at + 1)
<1>1. r.kind \in AllKinds  BY DEF Offered
<1>2. s = SeenNow(done) /\ Needed(step, s)  BY DEF QuietSeen
<1>3. t = SeenNow(after)
  <2>1. Program[r.kind][at] # "command"  OBVIOUS
  <2>. QED  BY <1>1, <2>1, QuietReads, Zenon
<1>4. InOrderAt(r.kind, at)  BY <1>1, ProgramOrder, Zenon
<1>5. step \in after /\ done \subseteq after
  <2>1. PICK n \in Nat \ {0} : DOMAIN Program[r.kind] = 1 .. n  BY <1>1, ProgramEnds, Zenon
  <2>2. at \in Nat \ {0}  BY <2>1
  <2>3. at \in 1 .. (at + 1 - 1) /\ 1 .. (at - 1) \subseteq 1 .. (at + 1 - 1)  BY <2>2
  <2>. QED  BY <2>3 DEF StepsBefore
<1>6. /\ step = "status" => "latest" \in done
      /\ step \in {"factAgain", "history", "revoked", "rights", "acceptedClaim"} =>
            "fact" \in done
      /\ step = "acceptedClaim" => "history" \in done \/ "revoked" \in done
      /\ step = "openAgain" => "open" \in done
      /\ r.kind = "propose" /\ step \in {"open", "openAgain"} => "latest" \in done
  BY <1>4 DEF InOrderAt
<1>. HIDE DEF done, after
<1>7. /\ "latest" \in after => t.latest = Generation(LatestId)
      /\ "source" \in after => t.source = source
      /\ "fact" \in after => t.fact = Last(Current)
      /\ "open" \in after => t.open = Last(Open)
  BY <1>3, SeenNowFields
<1>8. "fact" \in done => s.fact = Last(Current)  BY <1>2, SeenNowFields
<1>9. Open # {} => source.rev # 0
  BY LastOnes DEF LedgerInv, SourceOk
<1>10. ~(step = "factAgain" /\ t.fact \notin Current)
  <2>. SUFFICES ASSUME step = "factAgain"  PROVE t.fact \in Current
    OBVIOUS
  <2>1. s.fact # 0  BY <1>2 DEF Needed
  <2>2. s.fact = Last(Current) /\ t.fact = Last(Current)  BY <1>5, <1>6, <1>7, <1>8
  <2>. QED  BY <2>1, <2>2, LastOnes
<1>11. ~(step = "acceptedClaim" /\ ClaimsThatAre("accepted") # {})
  <2>. SUFFICES ASSUME step = "acceptedClaim"  PROVE ClaimsThatAre("accepted") = {}
    OBVIOUS
  <2>1. s.fact = 0 /\ s.history = 0  BY <1>2 DEF Needed
  <2>2. Current = {}  BY <1>6, <1>8, <2>1, LastOnes
  <2>3. s.history = Past(Last(Current))  BY <1>2, <1>6, <2>2, SeenNowFields
  <2>. QED  BY <2>1, <2>2, <2>3, NothingAccepted DEF LedgerInv
<1>12. ~(r.kind = "capture" /\ step = "source" /\ t.source.note \notin {None, r.data})
  <2>. SUFFICES ASSUME r.kind = "capture", step = "source"  PROVE t.source.note = None
    OBVIOUS
  <2>. QED  BY <1>5, <1>7 DEF Offered, LedgerInv, SourceOk
<1>13. r.kind \in {"propose", "rework", "accept"} => source.rev # 0
  BY <1>9, LastOnes DEF Offered, Deciding
<1>14. ~(/\ r.kind \in {"propose", "rework", "accept"} /\ step = "source"
         /\ t.source.rev = 0)
  BY <1>5, <1>7, <1>13
<1>15. ~(/\ r.kind \in {"propose", "rework"} /\ step = "source"
         /\ t.source.rev # r.rev)
  BY <1>5, <1>7 DEF Offered
<1>16. ~(r.kind = "revoke" /\ step = "fact" /\ t.fact # r.fact)
  BY <1>5, <1>7 DEF Offered
<1>17. ~(r.kind = "propose" /\ step = "factAgain" /\ Stated(t.fact) = r.data)
  <2>. SUFFICES ASSUME r.kind = "propose", step = "factAgain"  PROVE Stated(t.fact) # r.data
    OBVIOUS
  <2>1. s.fact # 0  BY <1>2 DEF Needed
  <2>2. t.fact = r.fact /\ r.fact # 0  BY <1>5, <1>6, <1>7, <1>8, <2>1 DEF Offered
  <2>. QED  BY <2>2 DEF Excused
<1>18. ~(/\ r.kind = "propose" /\ step \in {"open", "openAgain"}
         /\ t.open = 0 /\ t.latest # r.latest)
  BY <1>5, <1>6, <1>7 DEF Offered
<1>19. ~(r.kind = "propose" /\ step = "openAgain" /\ t.open # 0 /\ ~Same(r, t.open))
  BY <1>5, <1>6, <1>7 DEF Offered
<1>20. ~(/\ r.kind = "accept" /\ step = "factAgain"
         /\ facts[t.fact].claim # r.open)
  <2>. SUFFICES ASSUME r.kind = "accept", step = "factAgain"  PROVE FALSE
    OBVIOUS
  <2>1. s.fact # 0  BY <1>2 DEF Needed
  <2>. QED  BY <1>6, <1>8, <2>1 DEF Offered
<1>21. ~(r.kind = "accept" /\ step \in {"open", "openAgain"} /\ t.open # r.open)
  BY <1>5, <1>6, <1>7 DEF Offered, Deciding
<1>. QED
  BY <1>10, <1>11, <1>12, <1>14, <1>15, <1>16, <1>17, <1>18, <1>19, <1>20, <1>21, Zenon
     DEF Misfit

(* There are identifiers for the facts of all claims. *)
LEMMA RoomForFacts ==
    ASSUME LedgerOk(claims, facts), ClaimsHaveFacts(claims, facts), Open # {}
    PROVE  NewFact \in FactIds
<1>1. PICK n, m \in Nat :
         /\ UsedClaims(claims) = 1 .. n /\ Open \subseteq {n}
         /\ UsedFacts(facts) = 1 .. m /\ NewFact = m + 1
  BY InOrder
<1>2. PICK x : x \in Open  OBVIOUS
<1>3. n \in Open  BY <1>1, <1>2
<1>4. n \in UsedClaims(claims) /\ claims[n].status = "proposed"
  BY <1>3, LedgerNames DEF OpenIn, UsedClaims
<1>5. m < n
  <2>1. CASE m = 0  BY <1>1, <1>4, <2>1
  <2>2. CASE m # 0
    <3>1. m \in UsedFacts(facts)  BY <1>1, <2>2
    <3>2. facts[m].claim >= m  BY <3>1 DEF ClaimsHaveFacts
    <3>3. facts[m].claim \in ClaimIds /\ claims[facts[m].claim].status = "accepted"
      BY <3>1 DEF LedgerOk, FactOk
    <3>4. facts[m].claim \in 1 .. n  BY <1>1, <3>3 DEF UsedClaims
    <3>5. facts[m].claim # n  BY <1>4, <3>3
    <3>. QED  BY <3>2, <3>4, <3>5
  <2>. QED  BY <2>1, <2>2
<1>6. m + 1 \in UsedClaims(claims)
  <2>1. m + 1 \in 1 .. n  BY <1>5
  <2>. QED  BY <1>1, <2>1
<1>7. m + 1 \in ClaimIds  BY <1>6 DEF UsedClaims
<1>. QED  BY <1>1, <1>7, ObjectiveAssumption

(* The bus commits the command of an undisturbed request, unless excused.  *)
LEMMA QuietCommand ==
    ASSUME LedgerOk(claims, facts), LedgerInv, NEW r, Offered(r), ~Excused(r),
           NEW at \in DOMAIN Program[r.kind], Program[r.kind][at] = "command",
           NEW s, QuietSeen(r.kind, at, s)
    PROVE  Admissible(User, Command(r, s))
<1>. DEFINE b == Command(r, s)
            done == StepsBefore(r.kind, at)
<1>0. r.kind \in AllKinds \ Reading
  <2>1. r.kind \in AllKinds  BY DEF Offered
  <2>2. r.kind \notin Reading
    <3>. SUFFICES ASSUME r.kind \in Reading  PROVE FALSE
      OBVIOUS
    <3>1. /\ DOMAIN Program[r.kind] = 1 .. 11 /\ Program[r.kind][11] = "answer"
          /\ \A i \in 1 .. 10 : Program[r.kind][i] \notin {"command", "answer"}
      BY ReadingProgram, Zenon
    <3>. QED  BY <3>1
  <2>. QED  BY <2>1, <2>2
<1>1. /\ "latest" \in done => s.latest = Generation(LatestId)
      /\ "source" \in done => s.source = source
  <2>1. s.latest = SeenNow(done).latest /\ s.source = SeenNow(done).source
    BY DEF QuietSeen
  <2>. HIDE DEF done
  <2>. QED  BY <2>1, SeenNowFields
<1>2. \A d \in commands : Spent(d.body)  BY DEF LedgerInv
<1>3. CASE r.kind = "capture"
  <2>1. commands = {}  BY <1>3 DEF Excused
  <2>2. b.kind = "capture"  BY <1>3 DEF Command
  <2>. HIDE DEF b
  <2>3. Legal(b) /\ Permitted(User, b) /\ ~KeyTaken(b) /\ Room(b)
    BY <2>1, <2>2 DEF Legal, Permitted, KeyTaken, Room, OwnerDecides
  <2>. QED  BY <2>3 DEF Admissible, b
<1>4. CASE r.kind = "propose"
  <2>1. at = 10
    BY <1>4, ProposeProgram
  <2>2. /\ Program[r.kind][1] = "source" /\ Program[r.kind][6] = "latest"
    <3>1. Program[r.kind] = <<"source", "fact", "factAgain", "revoked", "acceptedClaim",
                         "latest", "status", "open", "openAgain">> \o <<"command">>
      BY <1>4, ProposeProgram
    <3>. QED  BY <3>1
  <2>3. "source" \in done /\ "latest" \in done  BY <2>1, <2>2, Precedes
  <2>4. /\ b.kind = "propose" /\ b.gen = Generation(LatestId) /\ b.rev = source.rev
    BY <1>1, <1>4, <2>3 DEF Command
  <2>. HIDE DEF b
  <2>5. Open = {} /\ NewClaim \in ClaimIds  BY <1>4, LastOnes DEF Offered
  <2>6. ~KeyTaken(b)
    <3>. SUFFICES ASSUME NEW d \in commands, d.body = b  PROVE FALSE
      BY <2>4 DEF KeyTaken
    <3>1. b.gen[1] < LatestId /\ b.gen[1] \in Nat  BY <1>2, <2>4 DEF Spent
    <3>2. b.gen[1] = LatestId  BY <2>4 DEF Generation
    <3>. QED  BY <3>1, <3>2
  <2>7. Legal(b) /\ Permitted(User, b) /\ Room(b)
    BY <2>4, <2>5 DEF Legal, Novel, Permitted, Room, OwnerDecides
  <2>. QED  BY <2>6, <2>7 DEF Admissible, b
<1>5. CASE r.kind \in Deciding
  <2>1. r.open \in Open /\ Open # {}  BY <1>5, LastOnes DEF Offered
  <2>2. b.kind = r.kind /\ b.claim = r.open
    BY <1>5 DEF Command, Deciding
  <2>3. r.kind = "rework" => b.rev = source.rev
    <3>. SUFFICES ASSUME r.kind = "rework"  PROVE b.rev = source.rev
      OBVIOUS
    <3>1. at = 2 /\ Program[r.kind][1] = "source"
      <4>1. DOMAIN Program["rework"] = 1 .. 2 /\ Program["rework"][1] = "source"
        BY ShortPrograms
      <4>. QED  BY <4>1
    <3>2. "source" \in done  BY <3>1, Precedes
    <3>. QED  BY <1>1, <3>2 DEF Command
  <2>4. r.kind = "withdraw" => b.as = r.data  BY DEF Command
  <2>5. r.kind = "supersede" => b.fact = r.fact  BY DEF Command
  <2>. HIDE DEF b
  <2>6. ~KeyTaken(b)
    <3>. SUFFICES ASSUME NEW d \in commands, d.body = b  PROVE FALSE
      BY <1>5, <2>2 DEF KeyTaken, Deciding
    <3>1. claims[b.claim].status # "proposed"  BY <1>2, <1>5, <2>2 DEF Spent
    <3>. QED  BY <2>1, <2>2, <3>1, LedgerNames DEF OpenIn
  <2>7. Legal(b)
    <3>1. r.kind = "accept" => Current = {}  BY LastOnes DEF Offered
    <3>2. r.kind = "supersede" => b.fact \in Current  BY <2>5, LastOnes DEF Offered
    <3>. QED  BY <1>5, <2>1, <2>2, <2>3, <3>1, <3>2 DEF Legal, Pending, Deciding
  <2>8. Permitted(User, b)
    BY <1>5, <2>2, <2>4 DEF Permitted, Offered, OwnerDecides, Deciding
  <2>9. Room(b)
    <3>1. NewFact \in FactIds  BY <2>1, RoomForFacts DEF LedgerInv
    <3>2. r.kind = "rework" => NewClaim \in ClaimIds  BY DEF Offered
    <3>. QED  BY <1>5, <2>2, <3>1, <3>2 DEF Room, Deciding
  <2>. QED  BY <2>6, <2>7, <2>8, <2>9 DEF Admissible, b
<1>6. CASE r.kind = "revoke"
  <2>1. b.kind = "revoke" /\ b.fact = r.fact  BY <1>6 DEF Command
  <2>. HIDE DEF b
  <2>2. b.fact \in Current /\ Open = {} /\ User = Owner
    BY <1>6, <2>1, LastOnes DEF Offered, OwnerDecides
  <2>3. ~KeyTaken(b)
    <3>. SUFFICES ASSUME NEW d \in commands, d.body = b  PROVE FALSE
      BY <2>1 DEF KeyTaken
    <3>1. Gone(facts, b.fact)  BY <1>2, <2>1 DEF Spent
    <3>. QED  BY <2>2, <3>1, LedgerNames DEF Gone, CurrentIn
  <2>4. Legal(b) /\ Permitted(User, b) /\ Room(b)
    BY <2>1, <2>2 DEF Legal, Permitted, Room, OwnerDecides
  <2>. QED  BY <2>3, <2>4 DEF Admissible, b
<1>. QED  BY <1>0, <1>3, <1>4, <1>5, <1>6 DEF AllKinds, Deciding

(* What an undisturbed request has seen when it answers. *)
LEMMA QuietPage ==
    ASSUME NEW k \in Reading, NEW s, QuietSeen(k, 11, s)
    PROVE  s = PageNow
<1>1. Program[k] = Page /\ Program[k][11] = "answer"  BY ReadingProgram, Zenon
<1>2. /\ Program[k][1] = "latest" /\ Program[k][3] = "source" /\ Program[k][4] = "fact"
      /\ Program[k][6] = "open" /\ Program[k][8] = "history" /\ Program[k][10] = "rights"
  BY <1>1 DEF Page
<1>3. {"latest", "source", "fact", "open", "history", "rights"} \subseteq StepsBefore(k, 11)
  BY <1>2, Precedes
<1>4. s = SeenNow(StepsBefore(k, 11))  BY <1>1 DEF QuietSeen
<1>. QED  BY <1>3, <1>4 DEF SeenNow, PageNow

(* An undisturbed request is refused only when it is excused. *)
LEMMA QuietRefusal ==
    ASSUME Inv, LedgerInv, NEW c \in Calls, Refused(c), QuietCall(calls[c])
    PROVE  Excused(calls[c].req)
<1>. DEFINE r == calls[c].req
            s == calls[c].seen
            at == calls[c].at
<1>. SUFFICES ASSUME ~Excused(r)  PROVE FALSE
  OBVIOUS
<1>1. LedgerOk(claims, facts) /\ CallOk(claims, facts, r, at, s)
  BY DEF Inv, CallInv, Refused
<1>2. at \in DOMAIN Program[r.kind]  BY <1>1 DEF CallOk
<1>3. Offered(r) /\ QuietSeen(r.kind, at, s)  BY DEF QuietCall
<1>4. Step(c) = Program[r.kind][at]  BY DEF Step
<1>5. CASE Step(c) \notin {"command", "answer"} /\ Misfit(r, Step(c), Read(Step(c), s))
  <2>1. ~Misfit(r, Step(c), Read(Step(c), s))
    <3>. HIDE DEF r, s, at
    <3>1. \A t : t = Read(Step(c), s) => ~Misfit(r, Step(c), t)
      BY <1>1, <1>2, <1>3, <1>4, <1>5, QuietFits, Zenon
    <3>. QED  BY <3>1
  <2>. QED  BY <1>5, <2>1
<1>6. CASE Step(c) = "command" /\ ~Admissible(User, CommandOf(c))
  <2>1. Admissible(User, Command(r, s))
    BY <1>1, <1>2, <1>3, <1>4, <1>6, QuietCommand
  <2>. QED  BY <1>6, <2>1 DEF CommandOf
<1>7. CASE Step(c) = "answer" /\ r.kind = "draft" /\ s.fact = 0
  <2>1. r.kind \in Reading  BY <1>7 DEF Reading
  <2>2. at = 11
    <3>1. /\ DOMAIN Program[r.kind] = 1 .. 11
          /\ \A i \in 1 .. 10 : Program[r.kind][i] \notin {"command", "answer"}
      BY <2>1, ReadingProgram, Zenon
    <3>2. Program[r.kind][at] = "answer"  BY <1>4, <1>7
    <3>. HIDE DEF r, at
    <3>3. at \in 1 .. 11 /\ at \notin 1 .. 10  BY <1>2, <3>1, <3>2
    <3>. QED  BY <3>3
  <2>3. s = PageNow  BY <1>3, <2>1, <2>2, QuietPage
  <2>. QED  BY <1>3, <1>7, <2>3, PageNowFields DEF Offered
<1>. QED  BY <1>5, <1>6, <1>7 DEF Refused

----------------------------------------------------------------------------
(* While the ledger stays, so does all that is read of it. *)
LEMMA PageNowStays ==
    ASSUME UNCHANGED ledger
    PROVE  /\ PageNow' = PageNow /\ Open' = Open /\ Current' = Current
           /\ LatestId' = LatestId /\ NewClaim' = NewClaim
           /\ Generation(LatestId)' = Generation(LatestId)
<1>1. claims' = claims /\ facts' = facts /\ source' = source  BY DEF ledger
<1>2. Open' = Open /\ Current' = Current /\ LatestId' = LatestId
  BY <1>1 DEF Open, Current, ClaimsThatAre, FactsThatAre, LatestId
<1>3. NewClaim' = NewClaim  BY <1>2 DEF NewClaim
<1>4. Generation(LatestId)' = Generation(LatestId)  BY <1>1, <1>2 DEF Generation
<1>5. Past(Last(Current))' = Past(Last(Current))
  BY <1>1, <1>2 DEF Past, FactsThatAre
<1>. QED  BY <1>1, <1>2, <1>3, <1>4, <1>5 DEF PageNow

LEMMA LedgerStays ==
    ASSUME UNCHANGED ledger, LedgerInv
    PROVE  LedgerInv'
<1>1. claims' = claims /\ facts' = facts /\ source' = source /\ commands' = commands
  BY DEF ledger
<1>2. ClaimsHaveFacts(claims, facts)'
  BY <1>1 DEF LedgerInv, ClaimsHaveFacts, UsedFacts
<1>3. SourceOk'  BY <1>1, PageNowStays DEF LedgerInv, SourceOk
<1>4. \A d \in commands' : Spent(d.body)'
  BY <1>1, PageNowStays DEF LedgerInv, Spent, Gone
<1>. QED  BY <1>2, <1>3, <1>4 DEF LedgerInv

(* A step that leaves the ledger alone. *)
LEMMA QuietHolds ==
    ASSUME QuietInv, UNCHANGED ledger,
           \A d \in Calls : calls'[d] # None /\ calls'[d].quiet =>
              calls'[d] = calls[d] \/ QuietCall(calls'[d])
    PROVE  QuietInv'
<1>1. LedgerInv'  BY LedgerStays DEF QuietInv
<1>2. claims' = claims /\ source' = source  BY DEF ledger
<1>3. ASSUME NEW d \in Calls, calls'[d] # None, calls'[d].quiet
      PROVE  QuietCall(calls[d])'
  <2>. DEFINE call == calls'[d]
  <2>1. QuietCall(call)  BY <1>3 DEF QuietInv
  <2>2. Offered(call.req) /\ QuietSeen(call.req.kind, call.at, call.seen)
    BY <2>1 DEF QuietCall
  <2>3. Offered(calls[d].req)'
    BY <1>2, <2>2, PageNowStays DEF Offered
  <2>4. QuietSeen(calls[d].req.kind, calls[d].at, calls[d].seen)'
    BY <2>2, PageNowStays DEF QuietSeen, SeenNow
  <2>. QED  BY <2>3, <2>4 DEF QuietCall
<1>. QED  BY <1>1, <1>3 DEF QuietInv

(* A request for a page begins undisturbed, whatever the ledger. *)
LEMMA LoadOffered ==
    /\ Load.kind = "load" /\ Done.kind = "done"
    /\ Offered(Load) /\ Offered(Done)
BY DEF Load, Done, Offered, AllKinds, Reading, Deciding, OwnerDecides

LEMMA AskedQuiet ==
    ASSUME Inv, LedgerInv, NEW r, Offered(r), NEW quiet
    PROVE  QuietCall(Asked(r, quiet))
<1>. DEFINE j == Following(r.kind, 0, Unread)
<1>1. r.kind \in AllKinds  BY DEF Offered
<1>2. LedgerOk(claims, facts) /\ SourceOk  BY DEF Inv, LedgerInv
<1>3. QuietSeen(r.kind, j, Unread)  BY <1>1, <1>2, QuietBegins, Zenon
<1>4. /\ Asked(r, quiet).req = r /\ Asked(r, quiet).at = j
      /\ Asked(r, quiet).seen = Unread
  BY DEF Asked
<1>. QED  BY <1>3, <1>4 DEF QuietCall

LEMMA AnsweringFields ==
    ASSUME NEW call, Answering(call) # None
    PROVE  LET done == Answering(call) IN
           /\ done.req = Done /\ done.at = Following("done", 0, Unread)
           /\ done.seen = Unread
<1>1. call.awaited  BY DEF Answering
<1>2. Done.kind = "done"  BY DEF Done
<1>. QED  BY <1>1, <1>2 DEF Answering, Asked

(* The page after a command is read of the ledger that the command left. *)
LEMMA DoneBegins ==
    QuietSeen("done", Following("done", 0, Unread), Unread)'
<1>1. DOMAIN Program["done"] = 1 .. 11 /\ Program["done"] = Page
  BY ReadingProgram DEF Reading
<1>2. Page[1] = "latest" /\ \A s : Needed("latest", s)  BY DEF Page, Needed
<1>3. Following("done", 0, Unread) = 1
  <2>1. PICK j \in Nat : j = Following("done", 0, Unread) /\ j > 0
           /\ \A i \in (0 + 1) .. (j - 1) : ~Needed(Program["done"][i], Unread)
    <3>1. "done" \in AllKinds /\ 0 \in Nat  BY DEF AllKinds, Reading
    <3>. QED  BY <3>1, FollowingStatement, Zenon
  <2>2. 1 \notin (0 + 1) .. (j - 1)  BY <1>1, <1>2, <2>1
  <2>. QED  BY <2>1, <2>2
<1>4. StepsBefore("done", 1) = {}
  <2>1. 1 .. (1 - 1) = {}  OBVIOUS
  <2>. QED  BY <2>1 DEF StepsBefore
<1>5. SeenNow({})' = Unread  BY DEF SeenNow, Unread
<1>6. QuietSeen("done", 1, Unread)'
  BY <1>1, <1>2, <1>4, <1>5 DEF QuietSeen
<1>. QED  BY <1>3, <1>6

LEMMA AnsweringQuiet ==
    ASSUME Inv, LedgerInv, NEW call, Answering(call) # None
    PROVE  QuietCall(Answering(call))
<1>1. QuietCall(Asked(Done, TRUE))  BY LoadOffered, AskedQuiet
<1>2. /\ Asked(Done, TRUE).req = Done /\ Asked(Done, TRUE).at = Following("done", 0, Unread)
      /\ Asked(Done, TRUE).seen = Unread
  BY LoadOffered DEF Asked
<1>. QED  BY <1>1, <1>2, AnsweringFields DEF QuietCall

LEMMA ReloadQuiet ==
    ASSUME Inv, LedgerInv
    PROVE  QuietCall(Reload)
BY LoadOffered, AskedQuiet DEF Reload

----------------------------------------------------------------------------
(* The steps. *)
LEMMA SendQuiet ==
    ASSUME Inv, QuietInv, NEW c \in Calls, NEW r, Send(c, r),
           r \in Offers(page) \cup {Load}
    PROVE  QuietInv'
<1>. DEFINE asked == Asked(r, r.kind = "load" \/ page = PageNow)
<1>1. calls' = [calls EXCEPT ![c] = asked] /\ UNCHANGED ledger  BY DEF Send
<1>2. LedgerOk(claims, facts) /\ LedgerInv /\ DOMAIN calls = Calls  BY DEF Inv, QuietInv
<1>3. ASSUME r.kind = "load" \/ page = PageNow  PROVE Offered(r)
  <2>1. CASE page = PageNow
    <3>1. r \in Offers(PageNow) \cup {Load}  BY <2>1
    <3>. QED  BY <1>2, <3>1, OffersAreOffered
  <2>2. CASE r.kind = "load"
    BY <2>2 DEF Offered, AllKinds, Reading, Deciding, OwnerDecides
  <2>. QED  BY <1>3, <2>1, <2>2
<1>4. asked.quiet = (r.kind = "load" \/ page = PageNow)  BY DEF Asked
<1>5. asked.quiet => QuietCall(asked)
  BY <1>2, <1>3, <1>4, AskedQuiet
<1>. HIDE DEF asked
<1>. QED  BY <1>1, <1>2, <1>5, QuietHolds

LEMMA FailedQuiet ==
    ASSUME Inv, QuietInv, NEW c \in Calls, Failed(c), UNCHANGED ledger
    PROVE  QuietInv'
<1>1. QuietCall(Reload)  BY ReloadQuiet DEF QuietInv
<1>2. \/ calls' = [calls EXCEPT ![c] = None]
      \/ calls' = [calls EXCEPT ![c] = Reload]
  BY DEF Failed
<1>. QED  BY <1>1, <1>2, QuietHolds DEF Inv

LEMMA EndQuiet ==
    ASSUME Inv, QuietInv, NEW c \in Calls, calls' = [calls EXCEPT ![c] = None],
           UNCHANGED ledger
    PROVE  QuietInv'
BY QuietHolds DEF Inv

LEMMA TimeoutQuiet ==
    ASSUME Inv, QuietInv, NEW c \in Calls, Timeout(c)
    PROVE  QuietInv'
<1>1. CASE Step(c) = "command"
  <2>. DEFINE late == [calls[c] EXCEPT !.awaited = FALSE, !.quiet = FALSE, !.interrupted = 0]
  <2>1. PICK d \in Calls :
           /\ calls[d] = None /\ calls[c] # None
           /\ calls' = [calls EXCEPT ![d] = Reload, ![c].awaited = FALSE,
                                     ![c].quiet = FALSE, ![c].interrupted = 0]
           /\ UNCHANGED ledger
    BY <1>1 DEF Timeout, Free
  <2>2. d # c  BY <2>1
  <2>3. QuietCall(Reload)  BY ReloadQuiet DEF QuietInv
  <2>4. DOMAIN calls = Calls /\ CallInv(claims, facts, calls[c])  BY <2>1 DEF Inv
  <2>5. ~late.quiet  BY <2>4 DEF CallInv, CallFields
  <2>6. /\ calls'[d] = Reload /\ calls'[c] = late
        /\ \A e \in Calls : e # c /\ e # d => calls'[e] = calls[e]
    <3>. HIDE DEF Reload
    <3>. QED  BY <2>1, <2>2, <2>4
  <2>. HIDE DEF late, Reload
  <2>7. \A e \in Calls : calls'[e] # None /\ calls'[e].quiet =>
           calls'[e] = calls[e] \/ QuietCall(calls'[e])
    BY <2>3, <2>5, <2>6
  <2>. QED  BY <2>1, <2>7, QuietHolds
<1>2. CASE Step(c) # "command"
  BY <1>2, FailedQuiet DEF Timeout
<1>. QED  BY <1>1, <1>2

LEMMA ReadStepQuiet ==
    ASSUME Inv, QuietInv, NEW c \in Calls, ReadStep(c)
    PROVE  QuietInv'
<1>. DEFINE call == calls[c]
            k == call.req.kind
            at == call.at
            step == Program[k][at]
            s == call.seen
            t == Read(step, s)
            j == Following(k, at, t)
            w == Seen(k, j, t)
<1>1. /\ call # None /\ step \notin {"command", "answer"} /\ UNCHANGED ledger
      /\ \/ calls' = [calls EXCEPT ![c] = Answering(call)]
         \/ calls' = [calls EXCEPT ![c] = GoOn(call, t)]
  BY DEF ReadStep, Step
<1>2. LedgerOk(claims, facts) /\ SourceOk /\ LedgerInv
  BY DEF Inv, QuietInv, LedgerInv
<1>3. CallOk(claims, facts, call.req, at, s) /\ DOMAIN call = CallFields
  BY <1>1 DEF Inv, CallInv
<1>4. k \in AllKinds /\ at \in DOMAIN Program[k]  BY <1>3 DEF CallOk
<1>5. CASE calls' = [calls EXCEPT ![c] = Answering(call)]
  <2>. DEFINE done == Answering(call)
  <2>1. done # None => QuietCall(done)  BY <1>2, AnsweringQuiet
  <2>2. calls' = [calls EXCEPT ![c] = done]  BY <1>5
  <2>. HIDE DEF done
  <2>3. \A d \in Calls : calls'[d] # None /\ calls'[d].quiet =>
           calls'[d] = calls[d] \/ QuietCall(calls'[d])
    <3>. HIDE DEF call
    <3>. QED  BY <2>1, <2>2 DEF Inv
  <2>. QED  BY <1>1, <2>3, QuietHolds
<1>6. CASE calls' = [calls EXCEPT ![c] = GoOn(call, t)]
  <2>. DEFINE goesOn == GoOn(call, t)
  <2>1. /\ goesOn.req = call.req /\ goesOn.at = j /\ goesOn.seen = w
        /\ goesOn.quiet = call.quiet
    BY <1>3 DEF GoOn, Seen, CallFields
  <2>2. call.quiet => QuietCall(goesOn)
    <3>. SUFFICES ASSUME call.quiet  PROVE QuietCall(goesOn)
      OBVIOUS
    <3>1. Offered(call.req) /\ QuietSeen(k, at, s)
      BY <1>1 DEF QuietInv, QuietCall
    <3>2. QuietSeen(k, j, w)
      BY <1>1, <1>2, <1>4, <3>1, QuietContinues, Zenon
    <3>. QED  BY <2>1, <3>1, <3>2 DEF QuietCall
  <2>. HIDE DEF goesOn
  <2>3. \A d \in Calls : calls'[d] # None /\ calls'[d].quiet =>
           calls'[d] = calls[d] \/ QuietCall(calls'[d])
    BY <1>6, <2>1, <2>2 DEF Inv, goesOn
  <2>. QED  BY <1>1, <2>3, QuietHolds
<1>. QED  BY <1>1, <1>5, <1>6

(* What others commit disturbs everybody. *)
LEMMA NobodyQuiet ==
    ASSUME Inv
    PROVE  \A d \in Calls : Interrupted[d] # None => ~Interrupted[d].quiet
<1>. SUFFICES ASSUME NEW d \in Calls, Interrupted[d] # None  PROVE ~Interrupted[d].quiet
  OBVIOUS
<1>1. /\ calls[d] # None
      /\ Interrupted[d] = [calls[d] EXCEPT !.quiet = FALSE, !.interrupted = @ + 1]
  BY DEF Interrupted
<1>2. DOMAIN calls[d] = CallFields  BY <1>1 DEF Inv, CallInv
<1>. QED  BY <1>1, <1>2 DEF CallFields

(* A proposal quotes a note. *)
LEMMA ProposalQuotes ==
    ASSUME Inv, NEW c \in Calls, calls[c] # None, Step(c) = "command",
           Commit(User, CommandOf(c)), CommandOf(c).kind = "propose"
    PROVE  source.rev # 0
<1>. DEFINE r == calls[c].req
            at == calls[c].at
            s == calls[c].seen
<1>1. CallOk(claims, facts, r, at, s)  BY DEF Inv, CallInv
<1>2. r.kind \in AllKinds /\ at \in DOMAIN Program[r.kind] /\ Program[r.kind][at] = "command"
  BY <1>1 DEF CallOk, Step
<1>3. r.kind \notin Reading
  <2>. SUFFICES ASSUME r.kind \in Reading  PROVE FALSE
    OBVIOUS
  <2>1. /\ DOMAIN Program[r.kind] = 1 .. 11 /\ Program[r.kind][11] = "answer"
        /\ \A i \in 1 .. 10 : Program[r.kind][i] \notin {"command", "answer"}
    BY ReadingProgram, Zenon
  <2>. QED  BY <1>2, <2>1
<1>4. r.kind = "propose"
  BY <1>2, <1>3 DEF CommandOf, Command, AllKinds
<1>5. at = 10  BY <1>2, <1>4, ProposeProgram
<1>6. s.source.rev # 0  BY <1>1, <1>4, <1>5 DEF CallOk
<1>7. CommandOf(c).rev = s.source.rev  BY <1>4 DEF CommandOf, Command
<1>8. Legal(CommandOf(c))  BY DEF Commit, Admissible
<1>9. CommandOf(c).rev = source.rev  BY <1>8 DEF Legal, Novel
<1>. QED  BY <1>6, <1>7, <1>9

LEMMA ExecuteQuiet ==
    ASSUME Inv, QuietInv, NEW c \in Calls, Execute(c)
    PROVE  QuietInv'
<1>. DEFINE done == Answering(calls[c])
<1>1. calls[c] # None /\ Step(c) = "command"  BY DEF Execute
<1>2. CASE UNCHANGED ledger /\ calls' = [calls EXCEPT ![c] = Answering(@)]
  <2>1. done # None => QuietCall(done)  BY AnsweringQuiet DEF QuietInv
  <2>2. calls' = [calls EXCEPT ![c] = done]  BY <1>2
  <2>. HIDE DEF done
  <2>. QED  BY <1>2, <2>1, <2>2, QuietHolds DEF Inv
<1>3. CASE /\ Commit(User, CommandOf(c))
           /\ calls' = [Interrupted EXCEPT ![c] = Answering(calls[c])]
  <2>1. LedgerInv'
    <3>1. CommandOf(c).kind = "propose" => source.rev # 0
      BY <1>1, <1>3, ProposalQuotes
    <3>2. LedgerOk(claims, facts) /\ LedgerInv  BY DEF Inv, QuietInv
    <3>. QED  BY <1>3, <3>1, <3>2, LedgerNext
  <2>2. DOMAIN Interrupted = Calls  BY DEF Interrupted
  <2>3. ASSUME NEW d \in Calls, calls'[d] # None, calls'[d].quiet
        PROVE  QuietCall(calls[d])'
    <3>1. d = c
      <4>1. d # c => calls'[d] = Interrupted[d]  BY <1>3, <2>2
      <4>. QED  BY <2>3, <4>1, NobodyQuiet
    <3>2. calls'[d] = done  BY <1>3, <2>2, <3>1
    <3>3. /\ calls'[d].req = Done /\ calls'[d].at = Following("done", 0, Unread)
          /\ calls'[d].seen = Unread
      <4>. HIDE DEF done
      <4>1. done # None  BY <2>3, <3>2
      <4>. QED  BY <3>2, <4>1, AnsweringFields DEF done
    <3>4. Offered(calls[d].req)'
      <4>1. calls'[d].req.kind = "done"  BY <3>3, LoadOffered
      <4>. QED  BY <4>1 DEF Offered, AllKinds, Reading, Deciding, OwnerDecides
    <3>5. QuietSeen(calls[d].req.kind, calls[d].at, calls[d].seen)'
      <4>1. calls'[d].req.kind = "done"  BY <3>3, LoadOffered
      <4>. QED  BY <3>3, <4>1, DoneBegins DEF QuietSeen
    <3>. QED  BY <3>4, <3>5 DEF QuietCall
  <2>. QED  BY <2>1, <2>3 DEF QuietInv
<1>. QED  BY <1>2, <1>3 DEF Execute

LEMMA OthersQuiet ==
    ASSUME Inv, QuietInv, Others
    PROVE  QuietInv'
<1>1. LedgerInv'
  <2>1. CASE \E u \in cast.people, b \in Sendable : Commit(u, b)
    <3>1. PICK u \in cast.people, b \in Sendable : Commit(u, b)  BY <2>1
    <3>2. b.kind = "propose" => source.rev # 0  BY DEF Sendable
    <3>3. LedgerOk(claims, facts) /\ LedgerInv  BY DEF Inv, QuietInv
    <3>. QED  BY <3>1, <3>2, <3>3, LedgerNext
  <2>2. CASE (\E n \in Notes : Correct(n)) \/ Tombstone
    <3>1. claims' = claims /\ facts' = facts /\ commands' = commands /\ LatestId = 0
      BY <2>2 DEF Correct, Tombstone, Unquoted
    <3>2. LatestId' = 0  BY <3>1 DEF LatestId
    <3>3. ClaimsHaveFacts(claims, facts)'
      BY <3>1 DEF QuietInv, LedgerInv, ClaimsHaveFacts, UsedFacts
    <3>4. SourceOk'
      <4>1. CASE Tombstone
        BY <3>2, <4>1 DEF Tombstone, SourceOk, NoSource
      <4>2. ASSUME NEW n \in Notes, Correct(n)  PROVE SourceOk'
        <5>1. source' = [rev |-> source.rev + 1, note |-> n] /\ source.rev \in Nat
          BY <4>2 DEF Correct, QuietInv, LedgerInv, SourceOk
        <5>. QED  BY <5>1 DEF SourceOk
      <4>. QED  BY <2>2, <4>1, <4>2
    <3>5. \A d \in commands' : Spent(d.body)'
      BY <3>1, <3>2 DEF QuietInv, LedgerInv, Spent, Gone
    <3>. QED  BY <3>3, <3>4, <3>5 DEF LedgerInv
  <2>. QED  BY <2>1, <2>2 DEF Others
<1>2. \A d \in Calls : calls'[d] # None => ~calls'[d].quiet
  BY NobodyQuiet DEF Others
<1>. QED  BY <1>1, <1>2 DEF QuietInv

LEMMA NextQuiet == Inv /\ QuietInv /\ [Next]_vars => QuietInv'
<1>. SUFFICES ASSUME Inv, QuietInv, [Next]_vars  PROVE QuietInv'
  OBVIOUS
<1>1. CASE UNCHANGED vars
  <2>1. UNCHANGED ledger /\ calls' = calls  BY <1>1 DEF vars
  <2>. QED  BY <2>1, QuietHolds
<1>2. ASSUME NEW c \in Calls, Start(c) \/ OpenPage(c)  PROVE QuietInv'
  <2>1. PICK r \in Offers(page) \cup {Load} : Send(c, r)
    BY <1>2 DEF Start, OpenPage
  <2>. QED  BY <2>1, SendQuiet
<1>3. ASSUME NEW c \in Calls, Answer(c)  PROVE QuietInv'
  BY <1>3, EndQuiet DEF Answer
<1>4. ASSUME NEW c \in Calls, Refuse(c)  PROVE QuietInv'
  BY <1>4, EndQuiet, FailedQuiet DEF Refuse
<1>5. ASSUME NEW c \in Calls, Timeout(c)  PROVE QuietInv'
  BY <1>5, TimeoutQuiet
<1>6. ASSUME NEW c \in Calls, ReadStep(c) \/ Execute(c)  PROVE QuietInv'
  BY <1>6, ReadStepQuiet, ExecuteQuiet
<1>7. CASE Others
  BY <1>7, OthersQuiet
<1>. QED  BY <1>1, <1>2, <1>3, <1>4, <1>5, <1>6, <1>7 DEF Next

LEMMA InitQuiet == Init => QuietInv
<1>. SUFFICES ASSUME Init  PROVE QuietInv
  OBVIOUS
<1>1. /\ \A x \in ClaimIds : claims[x].status = "none"
      /\ \A f \in FactIds : facts[f].status = "none"
      /\ source = NoSource /\ commands = {} /\ \A c \in Calls : calls[c] = None
  BY DEF Init, NoClaim, NoFact
<1>2. ClaimsHaveFacts(claims, facts)
  BY <1>1 DEF ClaimsHaveFacts, UsedFacts
<1>3. LatestId = 0
  <2>1. {x \in ClaimIds : claims[x].status # "none"} = {}  BY <1>1
  <2>. QED  BY <2>1 DEF LatestId, Last
<1>4. SourceOk  BY <1>1, <1>3 DEF SourceOk, NoSource
<1>. QED  BY <1>1, <1>2, <1>4 DEF QuietInv, LedgerInv

(* What an undisturbed request has seen is the ledger of this instant, and *)
(* the page of this instant offers what it asks for.                       *)
THEOREM QuietInvariance == Spec => []QuietInv
BY InitInv, NextInv, InitQuiet, NextQuiet, PTL DEF Spec

LEMMA QuietAnswers ==
    ASSUME Inv, QuietInv, NEW c \in Calls, calls[c] # None, calls[c].quiet
    PROVE  /\ Refuse(c) => Excused(calls[c].req)
           /\ Answer(c) /\ calls[c].req.kind # "draft" => page' = PageNow'
<1>1. LedgerInv /\ QuietCall(calls[c])  BY DEF QuietInv
<1>2. ASSUME Refuse(c)  PROVE Excused(calls[c].req)
  <2>1. Refused(c)  BY <1>2 DEF Refuse
  <2>. QED  BY <1>1, <2>1, QuietRefusal
<1>3. ASSUME Answer(c), calls[c].req.kind # "draft"  PROVE page' = PageNow'
  <2>1. calls[c].req.kind \in Reading /\ calls[c].at = 11  BY <1>3, AnswersAPage
  <2>2. QuietSeen(calls[c].req.kind, 11, calls[c].seen)
    BY <1>1, <2>1 DEF QuietCall
  <2>3. calls[c].seen = PageNow  BY <2>1, <2>2, QuietPage, Zenon
  <2>4. page' = calls[c].seen /\ UNCHANGED ledger  BY <1>3 DEF Answer
  <2>. QED  BY <2>3, <2>4, PageNowStays
<1>. QED  BY <1>2, <1>3

(* A request from a page that is up to date, with which nobody interferes, *)
(* is refused only for a reason its sender knows, and its answer is the    *)
(* ledger as it is: the buttons of the page, the checks of the service,    *)
(* the command bus and the statements of the page agree with each other.   *)
THEOREM QuietRequestsSucceed == Spec => QuietAnswersAreTrue
<1>1. Inv /\ QuietInv =>
        [\A c \in Calls : calls[c] # None /\ calls[c].awaited /\ calls[c].quiet =>
            /\ Refuse(c) => Excused(calls[c].req)
            /\ Answer(c) /\ calls[c].req.kind # "draft" => page' = PageNow']_vars
  BY QuietAnswers
<1>. QED  BY <1>1, Invariance, QuietInvariance, PTL DEF QuietAnswersAreTrue

=============================================================================
