--------------------------- MODULE GreenPayProofs ---------------------------
(***************************************************************************)
(* Proofs about the badges and the migration of GreenPay, for any number   *)
(* of donors, projects, badges from before the registry, and tokens.       *)
(*                                                                         *)
(* A registry is good if it has its type, its index is the ownership, the  *)
(* older badges are kept, and nothing but giving a token away explains a   *)
(* second one of a tier (TokensFit).  Every mint, wherever it happens,     *)
(* finds that its donor holds no token of the tier, which is what keeps a  *)
(* registry good; a transfer also needs the recipient's markers to have    *)
(* become tokens before.                                                   *)
(*                                                                         *)
(* The sums of the contract agree (BooksInv) because a donation adds the   *)
(* same amount to every sum, and a sum over a finite set changes by what   *)
(* one of its terms changes (Sums).                                        *)
(***************************************************************************)
EXTENDS GreenPay, Sums

Indexed(reg) ==
    \A d \in Donors : reg.owned[d] = {id \in DOMAIN reg.tokens : reg.tokens[id].owner = d}

LegacyKept(reg) ==
    /\ Unclaimed(reg) \subseteq Legacy
    /\ \A m \in Legacy : m \in Unclaimed(reg) <=> ~MintedFor(reg, m)

TokensFit(reg) ==
    /\ \A i \in DOMAIN reg.tokens :
           reg.tokens[i].owner # reg.tokens[i].first =>
               <<reg.tokens[i].first, reg.tokens[i].tier>> \in reg.sent
    /\ \A i, j \in DOMAIN reg.tokens :
           i # j /\ reg.tokens[i].first = reg.tokens[j].first /\ reg.tokens[i].tier = reg.tokens[j].tier =>
               <<reg.tokens[i].first, reg.tokens[i].tier>> \in reg.sent

GoodRegistry(reg) == reg \in Registry /\ Indexed(reg) /\ LegacyKept(reg) /\ TokensFit(reg)

StatsFit == stats \in [Donors -> Stats]

IInv == GoodRegistry(nft) /\ StatsFit

-----------------------------------------------------------------------------
(* The registry *)

\* A total of donations earns a tier from none to the fourth.
LEMMA BadgeType == ASSUME NEW total \in Nat PROVE Badge(total) \in 0 .. 4
<1> DEFINE S == {t \in Tiers : Thresholds[t] <= total}
<1>1. IsFiniteSet(Tiers) /\ Cardinality(Tiers) = 4
  <2>1. IsFiniteSet(1 .. 4) /\ Cardinality(1 .. 4) = IF 1 > 4 THEN 0 ELSE 4 - 1 + 1
    BY FS_Interval, 1 \in Int, 4 \in Int, Zenon
  <2> QED
    BY <2>1 DEF Tiers
<1>2. Cardinality(S) <= Cardinality(Tiers) /\ IsFiniteSet(S)
  BY <1>1, FS_Subset
<1>3. Cardinality(S) \in Nat
  BY <1>2, FS_CardinalityType
<1> QED
  BY <1>1, <1>2, <1>3 DEF Badge

\* The badges from before the registry are donors with tiers.
LEMMA LegacyType == Legacy \subseteq Donors \X Tiers
<1> SUFFICES ASSUME NEW d \in Donors, Badge(Before[d]) > 0 PROVE Badge(Before[d]) \in Tiers
  BY DEF Legacy
<1>1. Before[d] \in Nat
  BY GreenPayAssumption
<1> QED
  BY <1>1, BadgeType DEF Tiers

\* Minting, field by field.
LEMMA MintFields ==
    ASSUME NEW reg \in Registry, NEW d \in Donors, NEW t \in Tiers
    PROVE  LET new == MintBadgeToken(reg, d, t)
               n == Len(reg.tokens) + 1
               token == [owner |-> d, tier |-> t, first |-> d]
           IN  /\ new \in Registry
               /\ n \in Nat \ {0} /\ n \notin DOMAIN reg.tokens /\ n \in DOMAIN new.tokens
               /\ DOMAIN new.tokens = DOMAIN reg.tokens \union {n}
               /\ new.tokens[n] = token /\ token \in Token
               /\ \A i \in DOMAIN reg.tokens : new.tokens[i] = reg.tokens[i] /\ reg.tokens[i] \in Token
               /\ new.owned[d] = reg.owned[d] \union {n}
               /\ \A e \in Donors : e # d => new.owned[e] = reg.owned[e]
               /\ new.markers = reg.markers \union {<<d, t>>}
               /\ new.sent = reg.sent
<1> DEFINE new == MintBadgeToken(reg, d, t)
           n == Len(reg.tokens) + 1
           token == [owner |-> d, tier |-> t, first |-> d]
<1>1. /\ reg.tokens \in Seq(Token) /\ reg.owned \in [Donors -> SUBSET Nat]
      /\ reg.markers \in SUBSET (Donors \X Tiers) /\ reg.sent \in SUBSET (Donors \X Tiers)
  BY DEF Registry
<1>2. token \in Token
  BY DEF Token
<1>3. new = [tokens |-> Append(reg.tokens, token), owned |-> [reg.owned EXCEPT ![d] = @ \union {n}],
             markers |-> reg.markers \union {<<d, t>>}, sent |-> reg.sent]
  BY DEF MintBadgeToken
<1> HIDE DEF new
<1>4. /\ Append(reg.tokens, token) \in Seq(Token) /\ n \in Nat \ {0}
      /\ DOMAIN reg.tokens = 1 .. Len(reg.tokens) /\ Len(reg.tokens) \in Nat
      /\ DOMAIN Append(reg.tokens, token) = 1 .. n
      /\ Append(reg.tokens, token)[n] = token
      /\ \A i \in 1 .. Len(reg.tokens) : Append(reg.tokens, token)[i] = reg.tokens[i] /\ reg.tokens[i] \in Token
  BY <1>1, <1>2
<1>5. [reg.owned EXCEPT ![d] = @ \union {n}] \in [Donors -> SUBSET Nat]
  BY <1>1, <1>4
<1>6. new \in Registry
  BY <1>1, <1>3, <1>4, <1>5 DEF Registry
<1>7. /\ new.tokens = Append(reg.tokens, token) /\ new.owned = [reg.owned EXCEPT ![d] = @ \union {n}]
      /\ new.markers = reg.markers \union {<<d, t>>} /\ new.sent = reg.sent
  BY <1>3
<1>8. new.owned[d] = reg.owned[d] \union {n} /\ \A e \in Donors : e # d => new.owned[e] = reg.owned[e]
  BY <1>1, <1>7
<1>9. 1 .. n = 1 .. Len(reg.tokens) \union {n} /\ n \notin 1 .. Len(reg.tokens) /\ n \in 1 .. n
  BY <1>4
<1>10. DOMAIN new.tokens = DOMAIN reg.tokens \union {n} /\ n \notin DOMAIN reg.tokens
  BY <1>4, <1>7, <1>9
<1> QED
  BY <1>2, <1>4, <1>6, <1>7, <1>8, <1>10 DEF new, token

\* A token for a donor who holds none of its tier keeps a registry good: a
\* marker stops being unclaimed at the moment its token is minted.
LEMMA MintKeeps ==
    ASSUME NEW reg, GoodRegistry(reg), NEW d \in Donors, NEW t \in Tiers, ~Holds(reg, d, t)
    PROVE  LET new == MintBadgeToken(reg, d, t) IN
           /\ GoodRegistry(new)
           /\ DOMAIN reg.tokens \subseteq DOMAIN new.tokens
           /\ \A i \in DOMAIN reg.tokens : new.tokens[i] = reg.tokens[i]
           /\ new.markers = reg.markers \union {<<d, t>>}
           /\ \A e \in Donors, u \in Tiers :
                Holds(new, e, u) <=> Holds(reg, e, u) \/ (e = d /\ u = t)
<1> DEFINE new == MintBadgeToken(reg, d, t)
           n == Len(reg.tokens) + 1
           token == [owner |-> d, tier |-> t, first |-> d]
<1>0. reg \in Registry /\ Indexed(reg) /\ LegacyKept(reg) /\ TokensFit(reg)
  BY DEF GoodRegistry
<1>1. /\ new \in Registry
      /\ n \notin DOMAIN reg.tokens /\ n \in DOMAIN new.tokens
      /\ DOMAIN new.tokens = DOMAIN reg.tokens \union {n}
      /\ new.tokens[n] = token /\ token \in Token
      /\ \A i \in DOMAIN reg.tokens : new.tokens[i] = reg.tokens[i] /\ reg.tokens[i] \in Token
      /\ new.owned[d] = reg.owned[d] \union {n}
      /\ \A e \in Donors : e # d => new.owned[e] = reg.owned[e]
      /\ new.markers = reg.markers \union {<<d, t>>}
      /\ new.sent = reg.sent
  BY <1>0, MintFields
<1>2. token.owner = d /\ token.tier = t /\ token.first = d
  OBVIOUS
<1> HIDE DEF new, n, token
<1>3. Indexed(new)
  <2> SUFFICES ASSUME NEW e \in Donors
               PROVE  new.owned[e] = {id \in DOMAIN new.tokens : new.tokens[id].owner = e}
    BY DEF Indexed
  <2>1. reg.owned[e] = {id \in DOMAIN reg.tokens : reg.tokens[id].owner = e}
    BY <1>0 DEF Indexed
  <2>2. CASE e = d
    BY <1>1, <1>2, <2>1, <2>2
  <2>3. CASE e # d
    BY <1>1, <1>2, <2>1, <2>3
  <2> QED
    BY <2>2, <2>3
<1>4. ASSUME NEW e \in Donors, NEW u \in Tiers
      PROVE  Holds(new, e, u) <=> Holds(reg, e, u) \/ (e = d /\ u = t)
  <2>1. reg.owned[e] \subseteq DOMAIN reg.tokens
    BY <1>0 DEF Indexed
  <2>2. CASE e = d
    BY <1>1, <1>2, <2>1, <2>2 DEF Holds
  <2>3. CASE e # d
    BY <1>1, <2>1, <2>3 DEF Holds
  <2> QED
    BY <2>2, <2>3
<1>5. ASSUME NEW m \in Donors \X Tiers
      PROVE  MintedFor(new, m) <=> MintedFor(reg, m) \/ m = <<d, t>>
  <2>1. PICK e \in Donors, u \in Tiers : m = <<e, u>>
    OBVIOUS
  <2>2. MintedFor(new, m) <=> \E i \in DOMAIN reg.tokens \union {n} : new.tokens[i].first = e /\ new.tokens[i].tier = u
    BY <1>1, <2>1 DEF MintedFor
  <2>3. MintedFor(reg, m) <=> \E i \in DOMAIN reg.tokens : new.tokens[i].first = e /\ new.tokens[i].tier = u
    BY <1>1, <2>1 DEF MintedFor
  <2>4. (new.tokens[n].first = e /\ new.tokens[n].tier = u) <=> m = <<d, t>>
    BY <1>1, <1>2, <2>1
  <2> QED
    BY <2>2, <2>3, <2>4
<1>6. Unclaimed(new) = Unclaimed(reg) \ {<<d, t>>}
  <2>1. new.markers \subseteq Donors \X Tiers /\ reg.markers \subseteq Donors \X Tiers
    BY <1>0, <1>1 DEF Registry
  <2>2. ASSUME NEW e \in Donors, NEW u \in Tiers
        PROVE  <<e, u>> \in Unclaimed(new) <=> <<e, u>> \in Unclaimed(reg) /\ <<e, u>> # <<d, t>>
    BY <1>1, <1>4, <2>2 DEF Unclaimed
  <2>3. Unclaimed(new) \subseteq Donors \X Tiers /\ Unclaimed(reg) \subseteq Donors \X Tiers
    BY <2>1 DEF Unclaimed
  <2> QED
    BY <2>2, <2>3
<1>7. LegacyKept(new)
  <2>1. Unclaimed(new) \subseteq Legacy
    BY <1>0, <1>6 DEF LegacyKept
  <2>2. ASSUME NEW m \in Legacy PROVE m \in Unclaimed(new) <=> ~MintedFor(new, m)
    BY <1>0, <1>5, <1>6, <2>2, LegacyType DEF LegacyKept
  <2> QED
    BY <2>1, <2>2 DEF LegacyKept
<1>8. TokensFit(new)
  <2>1. ASSUME NEW i \in DOMAIN new.tokens, new.tokens[i].owner # new.tokens[i].first
        PROVE  <<new.tokens[i].first, new.tokens[i].tier>> \in new.sent
    <3>1. i # n
      BY <1>1, <1>2, <2>1
    <3> QED
      BY <1>0, <1>1, <2>1, <3>1 DEF TokensFit
  <2>2. ASSUME NEW i \in DOMAIN reg.tokens, reg.tokens[i].first = d, reg.tokens[i].tier = t
        PROVE  <<d, t>> \in reg.sent
    <3>1. reg.tokens[i].owner # d
      BY <1>0, <2>2 DEF Indexed, Holds
    <3> QED
      BY <1>0, <2>2, <3>1 DEF TokensFit
  <2>3. ASSUME NEW i \in DOMAIN new.tokens, NEW j \in DOMAIN new.tokens, i # j,
               new.tokens[i].first = new.tokens[j].first, new.tokens[i].tier = new.tokens[j].tier
        PROVE  <<new.tokens[i].first, new.tokens[i].tier>> \in new.sent
    <3>1. CASE i = n
      BY <1>1, <1>2, <2>2, <2>3, <3>1
    <3>2. CASE j = n
      BY <1>1, <1>2, <2>2, <2>3, <3>2
    <3>3. CASE i # n /\ j # n
      BY <1>0, <1>1, <2>3, <3>3 DEF TokensFit
    <3> QED
      BY <3>1, <3>2, <3>3
  <2> QED
    BY <2>1, <2>3 DEF TokensFit
<1> QED
  BY <1>1, <1>3, <1>4, <1>7, <1>8 DEF GoodRegistry, new

\* What a lookup leaves as it was, and what it makes sure of.
Grows(reg, new) ==
    /\ DOMAIN reg.tokens \subseteq DOMAIN new.tokens
    /\ \A i \in DOMAIN reg.tokens : new.tokens[i] = reg.tokens[i]
    /\ new.markers = reg.markers
    /\ \A e \in Donors, u \in Tiers : Holds(reg, e, u) => Holds(new, e, u)

\* Looking a token up mints it at most once, for a marker that has none.
LEMMA FindKeeps ==
    ASSUME NEW reg, GoodRegistry(reg), NEW d \in Donors, NEW t \in Tiers
    PROVE  LET new == FindTokenId(reg, d, t) IN
           GoodRegistry(new) /\ Grows(reg, new) /\ (<<d, t>> \in reg.markers => Holds(new, d, t))
<1>1. CASE ~Holds(reg, d, t) /\ <<d, t>> \in reg.markers
  <2>1. Grows(reg, MintBadgeToken(reg, d, t))
    <3> DEFINE new == MintBadgeToken(reg, d, t)
    <3>1. /\ DOMAIN reg.tokens \subseteq DOMAIN new.tokens
          /\ \A i \in DOMAIN reg.tokens : new.tokens[i] = reg.tokens[i]
          /\ new.markers = reg.markers \union {<<d, t>>}
          /\ \A e \in Donors, u \in Tiers : Holds(reg, e, u) => Holds(new, e, u)
      BY <1>1, MintKeeps
    <3> HIDE DEF new
    <3>2. Grows(reg, new)
      BY <1>1, <3>1 DEF Grows
    <3> QED
      BY <3>2 DEF new
  <2> QED
    BY <1>1, <2>1, MintKeeps DEF FindTokenId
<1>2. CASE ~(~Holds(reg, d, t) /\ <<d, t>> \in reg.markers)
  BY <1>2 DEF FindTokenId, Grows
<1> QED
  BY <1>1, <1>2

\* Looking up all the tiers turns every marker of a donor into a token.
LEMMA BackfillKeeps ==
    ASSUME NEW reg, GoodRegistry(reg), NEW d \in Donors
    PROVE  LET new == BackfillLegacyBadges(reg, d) IN
           /\ GoodRegistry(new) /\ Grows(reg, new)
           /\ \A t \in Tiers : <<d, t>> \in new.markers => Holds(new, d, t)
<1> DEFINE r1 == FindTokenId(reg, d, 1)
           r2 == FindTokenId(r1, d, 2)
           r3 == FindTokenId(r2, d, 3)
           r4 == FindTokenId(r3, d, 4)
<1>0. 1 \in Tiers /\ 2 \in Tiers /\ 3 \in Tiers /\ 4 \in Tiers /\ \A t \in Tiers : t \in {1, 2, 3, 4}
  BY DEF Tiers
<1>1. GoodRegistry(r1) /\ Grows(reg, r1) /\ (<<d, 1>> \in reg.markers => Holds(r1, d, 1))
  BY <1>0, FindKeeps
<1>2. GoodRegistry(r2) /\ Grows(r1, r2) /\ (<<d, 2>> \in r1.markers => Holds(r2, d, 2))
  BY <1>0, <1>1, FindKeeps
<1>3. GoodRegistry(r3) /\ Grows(r2, r3) /\ (<<d, 3>> \in r2.markers => Holds(r3, d, 3))
  BY <1>0, <1>2, FindKeeps
<1>4. GoodRegistry(r4) /\ Grows(r3, r4) /\ (<<d, 4>> \in r3.markers => Holds(r4, d, 4))
  BY <1>0, <1>3, FindKeeps
<1>5. r4 = BackfillLegacyBadges(reg, d)
  BY DEF BackfillLegacyBadges
<1> HIDE DEF r1, r2, r3, r4
<1>6. Grows(reg, r4)
  BY <1>1, <1>2, <1>3, <1>4 DEF Grows
<1>7. \A t \in Tiers : <<d, t>> \in r4.markers => Holds(r4, d, t)
  BY <1>0, <1>1, <1>2, <1>3, <1>4 DEF Grows
<1> QED
  BY <1>4, <1>5, <1>6, <1>7

\* A token that changes hands keeps a registry good if the recipient had no
\* marker left to claim; its marker goes with it.
LEMMA TransferKeeps ==
    ASSUME NEW reg, GoodRegistry(reg), NEW from \in Donors, NEW to \in Donors, from # to,
           NEW id \in DOMAIN reg.tokens, reg.tokens[id].owner = from,
           \A t \in Tiers : <<to, t>> \in reg.markers => Holds(reg, to, t)
    PROVE  LET t == reg.tokens[id].tier IN
           GoodRegistry([tokens |-> [reg.tokens EXCEPT ![id].owner = to],
                         owned |-> [reg.owned EXCEPT ![from] = @ \ {id}, ![to] = @ \union {id}],
                         markers |-> (reg.markers \ {<<from, t>>}) \union {<<to, t>>},
                         sent |-> reg.sent \union {<<from, t>>}])
<1> DEFINE t == reg.tokens[id].tier
           token == [reg.tokens[id] EXCEPT !.owner = to]
           tokens == [reg.tokens EXCEPT ![id] = token]
           owned == [reg.owned EXCEPT ![from] = @ \ {id}, ![to] = @ \union {id}]
           new == [tokens |-> tokens, owned |-> owned,
                   markers |-> (reg.markers \ {<<from, t>>}) \union {<<to, t>>},
                   sent |-> reg.sent \union {<<from, t>>}]
<1>0. reg \in Registry /\ Indexed(reg) /\ LegacyKept(reg) /\ TokensFit(reg)
  BY DEF GoodRegistry
<1>1. /\ reg.tokens \in Seq(Token) /\ reg.owned \in [Donors -> SUBSET Nat]
      /\ reg.markers \in SUBSET (Donors \X Tiers) /\ reg.sent \in SUBSET (Donors \X Tiers)
      /\ Len(reg.tokens) \in Nat /\ DOMAIN reg.tokens = 1 .. Len(reg.tokens)
      /\ \A i \in DOMAIN reg.tokens : reg.tokens[i] \in Token
  BY <1>0 DEF Registry
<1>2. /\ token \in Token /\ token.owner = to /\ token.tier = t
      /\ token.first = reg.tokens[id].first /\ t \in Tiers /\ token.first \in Donors
  <2>1. PICK k \in Token : k = reg.tokens[id]
    BY <1>1
  <2> QED
    BY <2>1 DEF Token
<1> HIDE DEF token, t
<1>3. /\ tokens \in Seq(Token) /\ DOMAIN tokens = DOMAIN reg.tokens
      /\ tokens[id] = token /\ \A i \in DOMAIN reg.tokens : i # id => tokens[i] = reg.tokens[i]
  BY <1>1, <1>2
<1>4. /\ owned \in [Donors -> SUBSET Nat] /\ id \in Nat
      /\ owned[from] = reg.owned[from] \ {id} /\ owned[to] = reg.owned[to] \union {id}
      /\ \A e \in Donors : e \notin {from, to} => owned[e] = reg.owned[e]
  BY <1>1
<1> HIDE DEF tokens, owned
<1>5. new \in Registry
  BY <1>1, <1>2, <1>3, <1>4 DEF Registry
<1>6. /\ new.tokens = tokens /\ new.owned = owned
      /\ new.markers = (reg.markers \ {<<from, t>>}) \union {<<to, t>>}
      /\ new.sent = reg.sent \union {<<from, t>>}
  OBVIOUS
<1> HIDE DEF new
<1>7. Indexed(new)
  <2> SUFFICES ASSUME NEW e \in Donors
               PROVE  owned[e] = {i \in DOMAIN tokens : tokens[i].owner = e}
    BY <1>6 DEF Indexed
  <2>1. reg.owned[e] = {i \in DOMAIN reg.tokens : reg.tokens[i].owner = e}
    BY <1>0 DEF Indexed
  <2>2. \A i \in DOMAIN tokens : i # id => (tokens[i].owner = e <=> reg.tokens[i].owner = e)
    BY <1>3
  <2>3. CASE e = from
    BY <1>2, <1>3, <1>4, <2>1, <2>2, <2>3
  <2>4. CASE e = to
    BY <1>2, <1>3, <1>4, <2>1, <2>2, <2>4
  <2>5. CASE e \notin {from, to}
    BY <1>2, <1>3, <1>4, <2>1, <2>2, <2>5
  <2> QED
    BY <2>3, <2>4, <2>5
<1>8. /\ Holds(reg, from, t) /\ Holds(new, to, t)
      /\ \A e \in Donors, u \in Tiers : <<e, u>> \notin {<<from, t>>, <<to, t>>} => (Holds(new, e, u) <=> Holds(reg, e, u))
  <2>1. \A e \in Donors : reg.owned[e] = {i \in DOMAIN reg.tokens : reg.tokens[i].owner = e}
    BY <1>0 DEF Indexed
  <2>2. \A i \in DOMAIN reg.tokens : tokens[i].tier = reg.tokens[i].tier
    BY <1>2, <1>3 DEF t
  <2>3. Holds(reg, from, t) /\ id \in reg.owned[from]
    BY <2>1 DEF Holds, t
  <2>4. Holds(new, to, t)
    BY <1>2, <1>3, <1>4, <1>6 DEF Holds
  <2>5. ASSUME NEW e \in Donors, NEW u \in Tiers, <<e, u>> \notin {<<from, t>>, <<to, t>>}
        PROVE  Holds(new, e, u) <=> Holds(reg, e, u)
    <3>1. Holds(new, e, u) <=> \E i \in owned[e] : tokens[i].tier = u
      BY <1>6 DEF Holds
    <3>2. Holds(reg, e, u) <=> \E i \in reg.owned[e] : reg.tokens[i].tier = u
      BY DEF Holds
    <3>3. reg.owned[e] \subseteq DOMAIN reg.tokens
      BY <2>1
    <3>4. CASE e \notin {from, to}
      BY <1>4, <2>2, <3>1, <3>2, <3>3, <3>4
    <3>5. CASE e \in {from, to}
      <4>1. u # t
        BY <2>5, <3>5
      <4>2. tokens[id].tier # u /\ reg.tokens[id].tier # u
        BY <1>2, <1>3, <4>1 DEF t
      <4>3. \A i : i # id => (i \in owned[e] <=> i \in reg.owned[e])
        BY <1>4, <3>5
      <4> QED
        BY <2>2, <3>1, <3>2, <3>3, <4>2, <4>3
    <3> QED
      BY <3>4, <3>5
  <2> QED
    BY <2>3, <2>4, <2>5
<1>9. Unclaimed(new) = Unclaimed(reg)
  <2>1. Unclaimed(new) \subseteq Donors \X Tiers /\ Unclaimed(reg) \subseteq Donors \X Tiers
    BY <1>1, <1>2, <1>6 DEF Unclaimed
  <2>2. ASSUME NEW e \in Donors, NEW u \in Tiers
        PROVE  <<e, u>> \in Unclaimed(new) <=> <<e, u>> \in Unclaimed(reg)
    <3>1. CASE <<e, u>> = <<from, t>>
      <4>1. <<e, u>> \notin new.markers
        BY <1>6, <3>1
      <4> QED
        BY <1>8, <3>1, <4>1 DEF Unclaimed
    <3>2. CASE <<e, u>> = <<to, t>>
      BY <1>8, <3>2, <1>2 DEF Unclaimed
    <3>3. CASE <<e, u>> \notin {<<from, t>>, <<to, t>>}
      <4>1. <<e, u>> \in new.markers <=> <<e, u>> \in reg.markers
        BY <1>6, <3>3
      <4> QED
        BY <1>8, <3>3, <4>1 DEF Unclaimed
    <3> QED
      BY <3>1, <3>2, <3>3
  <2> QED
    BY <2>1, <2>2
<1>10. LegacyKept(new)
  <2>1. \A m : MintedFor(new, m) <=> MintedFor(reg, m)
    BY <1>2, <1>3, <1>6 DEF MintedFor, t
  <2> QED
    BY <1>0, <1>9, <2>1 DEF LegacyKept
<1>11. TokensFit(new)
  <2>1. \A i \in DOMAIN tokens : tokens[i].first = reg.tokens[i].first /\ tokens[i].tier = reg.tokens[i].tier
    BY <1>2, <1>3 DEF t
  <2>2. ASSUME NEW i \in DOMAIN tokens, tokens[i].owner # tokens[i].first
        PROVE  <<tokens[i].first, tokens[i].tier>> \in new.sent
    <3>1. CASE i # id
      BY <1>0, <1>3, <1>6, <2>2, <3>1 DEF TokensFit
    <3>2. CASE i = id /\ reg.tokens[id].first # from
      BY <1>0, <1>3, <1>6, <2>1, <3>2 DEF TokensFit
    <3>3. CASE i = id /\ reg.tokens[id].first = from
      BY <1>2, <1>3, <1>6, <3>3
    <3> QED
      BY <3>1, <3>2, <3>3
  <2>3. ASSUME NEW i \in DOMAIN tokens, NEW j \in DOMAIN tokens, i # j,
               tokens[i].first = tokens[j].first, tokens[i].tier = tokens[j].tier
        PROVE  <<tokens[i].first, tokens[i].tier>> \in new.sent
    BY <1>0, <1>3, <1>6, <2>1, <2>3 DEF TokensFit
  <2> QED
    BY <1>6, <2>2, <2>3 DEF TokensFit
<1>12. GoodRegistry(new)
  BY <1>5, <1>7, <1>10, <1>11 DEF GoodRegistry
<1> QED
  BY <1>12 DEF new, tokens, owned, t, token

-----------------------------------------------------------------------------
(* The specification *)

\* No token exists at the start, and every older badge is an unclaimed marker.
THEOREM InitInv == Init => IInv
<1> SUFFICES ASSUME Init PROVE IInv
  OBVIOUS
<1>1. nft = [tokens |-> <<>>, owned |-> [d \in Donors |-> {}], markers |-> Legacy, sent |-> {}]
  BY DEF Init
<1>2. nft \in Registry
  BY <1>1, LegacyType DEF Registry
<1>3. nft.tokens = <<>> /\ nft.owned = [d \in Donors |-> {}] /\ nft.markers = Legacy /\ DOMAIN nft.tokens = {}
  BY <1>1
<1>4. Indexed(nft) /\ TokensFit(nft)
  BY <1>3 DEF Indexed, TokensFit
<1>5. LegacyKept(nft)
  <2>1. Unclaimed(nft) = Legacy
    BY <1>3, LegacyType DEF Unclaimed, Holds
  <2> QED
    BY <1>3, <2>1 DEF LegacyKept, MintedFor
<1>6. StatsFit
  <2>1. ASSUME NEW d \in Donors
        PROVE  [total |-> Before[d], count |-> IF Before[d] > 0 THEN 1 ELSE 0, badge |-> Badge(Before[d])] \in Stats
    <3>1. Before[d] \in Nat
      BY GreenPayAssumption
    <3> QED
      BY <3>1, BadgeType DEF Stats
  <2> QED
    BY <2>1 DEF Init, StatsFit
<1> QED
  BY <1>2, <1>4, <1>5, <1>6 DEF IInv, GoodRegistry

\* A transfer first makes tokens of the recipient's markers, and keeps the registry good.
LEMMA TransferStep ==
    ASSUME IInv, NEW from \in Donors, NEW to \in Donors, NEW id \in DOMAIN nft.tokens, Transfer(from, to, id)
    PROVE  IInv'
<1> DEFINE reg == BackfillLegacyBadges(nft, to)
           t == reg.tokens[id].tier
<1>1. GoodRegistry(nft)
  BY DEF IInv
<1>2. /\ GoodRegistry(reg) /\ Grows(nft, reg)
      /\ \A u \in Tiers : <<to, u>> \in reg.markers => Holds(reg, to, u)
  BY <1>1, BackfillKeeps
<1>3. nft' = [tokens |-> [reg.tokens EXCEPT ![id].owner = to],
              owned |-> [reg.owned EXCEPT ![from] = @ \ {id}, ![to] = @ \union {id}],
              markers |-> (reg.markers \ {<<from, t>>}) \union {<<to, t>>},
              sent |-> reg.sent \union {<<from, t>>}]
  BY DEF Transfer, Received, Registers
<1>4. from # to /\ nft.tokens[id].owner = from /\ stats' = stats
  BY DEF Transfer
<1> HIDE DEF reg
<1>5. id \in DOMAIN reg.tokens /\ reg.tokens[id].owner = from
  BY <1>2, <1>4 DEF Grows
<1>6. GoodRegistry(nft')
  BY <1>2, <1>3, <1>4, <1>5, TransferKeeps
<1> QED
  BY <1>4, <1>6 DEF IInv, StatsFit

\* A donation mints the badge its new total earns, and keeps the registry good.
LEMMA DonateStep ==
    ASSUME IInv, NEW d \in Donors, NEW p \in Projects, NEW amount \in Amounts, Donate(d, p, amount)
    PROVE  IInv'
<1> DEFINE badge == Badge(stats[d].total + amount)
           new == [total |-> stats[d].total + amount, count |-> stats[d].count + 1, badge |-> badge]
<1>1. stats[d] \in Stats /\ amount \in Nat
  BY GreenPayAssumption DEF IInv, StatsFit
<1>2. stats[d].total + amount \in Nat /\ stats[d].count + 1 \in Nat
  BY <1>1 DEF Stats
<1>3. badge \in 0 .. 4
  BY <1>2, BadgeType
<1>4. /\ stats' = [stats EXCEPT ![d] = new]
      /\ nft' = IF badge > 0 /\ badge # stats[d].badge /\ ~Holds(nft, d, badge)
                THEN MintBadgeToken(nft, d, badge) ELSE nft
  BY DEF Donate, Registers
<1> HIDE DEF badge
<1>5. new \in Stats
  BY <1>2, <1>3 DEF Stats
<1> HIDE DEF new
<1>6. StatsFit'
  BY <1>4, <1>5 DEF IInv, StatsFit
<1>7. GoodRegistry(nft')
  <2>1. CASE badge > 0 /\ badge # stats[d].badge /\ ~Holds(nft, d, badge)
    <3>1. badge \in Tiers
      BY <1>3, <2>1 DEF Tiers
    <3> QED
      BY <1>4, <2>1, <3>1, MintKeeps DEF IInv
  <2>2. CASE ~(badge > 0 /\ badge # stats[d].badge /\ ~Holds(nft, d, badge))
    BY <1>4, <2>2 DEF IInv
  <2> QED
    BY <2>1, <2>2
<1> QED
  BY <1>6, <1>7 DEF IInv

\* Every step of the contract keeps the inductive invariant.
THEOREM NextInv == IInv /\ [Next]_vars => IInv'
<1> SUFFICES ASSUME IInv, [Next]_vars PROVE IInv'
  OBVIOUS
<1>0. GoodRegistry(nft) /\ StatsFit
  BY DEF IInv
<1>1. ASSUME NEW d \in Donors, NEW e \in Donors, NEW id \in DOMAIN nft.tokens, Transfer(d, e, id) PROVE IInv'
  BY <1>1, TransferStep
<1>2. ASSUME NEW d \in Donors, NEW p \in Projects, NEW amount \in Amounts, Donate(d, p, amount) PROVE IInv'
  BY <1>2, DonateStep
<1>3. ASSUME NEW d \in Donors, Balance(d) PROVE IInv'
  <2>1. nft' = BackfillLegacyBadges(nft, d) /\ stats' = stats
    BY <1>3 DEF Balance, Registers
  <2>2. GoodRegistry(nft')
    BY <1>0, <2>1, BackfillKeeps
  <2> QED
    BY <1>0, <2>1, <2>2 DEF IInv, StatsFit
<1>4. ASSUME NEW d \in Donors, NEW t \in Tiers, HasNft(d, t) PROVE IInv'
  <2>1. nft' = FindTokenId(nft, d, t) /\ stats' = stats
    BY <1>4 DEF HasNft, Registers
  <2>2. GoodRegistry(nft')
    BY <1>0, <2>1, FindKeeps
  <2> QED
    BY <1>0, <2>1, <2>2 DEF IInv, StatsFit
<1>5. ASSUME NEW d \in Donors, MintImpactNft(d) PROVE IInv'
  <2> DEFINE t == stats[d].badge
  <2>1. nft' = MintBadgeToken(nft, d, t) /\ stats' = stats /\ ~Holds(nft, d, t) /\ t > 0
    BY <1>5 DEF MintImpactNft, Registers
  <2>2. t \in Tiers
    <3>1. stats[d] \in Stats
      BY <1>0 DEF StatsFit
    <3> QED
      BY <2>1, <3>1 DEF Stats, Tiers
  <2>3. GoodRegistry(nft')
    BY <1>0, <2>1, <2>2, MintKeeps
  <2> QED
    BY <1>0, <2>1, <2>3 DEF IInv, StatsFit
<1>6. ASSUME UNCHANGED <<nft, stats>> PROVE IInv'
  BY <1>0, <1>6 DEF IInv, StatsFit
<1> QED
  BY <1>1, <1>2, <1>3, <1>4, <1>5, <1>6
     DEF Next, vars, VoteVerifyProject, RegisterProject, DeactivateProject, ResolveProposal, CreateProposal,
         SetDaoContract, CloseLedger, MigrateSchema, UpgradeAndMigrate

\* The badge registry is good, and the statistics typed, in every behaviour.
THEOREM RegistryInvariantHolds == Spec => []IInv
BY InitInv, NextInv, PTL DEF Spec

\* Whatever is donated, minted, looked up and handed over, in any order: the
\* index of a holder lists its tokens, and a badge from before the registry is
\* an unclaimed marker or has become a token, never both and never neither.
THEOREM BadgesStayKept == Spec => []BadgesAreKept
<1>1. IInv => BadgesAreKept
  BY DEF IInv, GoodRegistry, Indexed, LegacyKept, BadgesAreKept, IndexIsOwnership, LegacyBadgeIsOneToken
<1> QED
  BY <1>1, RegistryInvariantHolds, PTL

\* Only a donor who has given one of its tokens of a tier away is ever issued
\* a second one (mint_impact_nft looks at who owns it now).
THEOREM SecondBadgesNeedATransfer == Spec => []SecondBadgeAfterTransfer
<1>1. ASSUME IInv, NEW d \in Donors, NEW t \in Tiers, <<d, t>> \notin nft.sent
      PROVE  ~(Cardinality({id \in DOMAIN nft.tokens : nft.tokens[id].first = d /\ nft.tokens[id].tier = t}) > 1)
  <2> DEFINE S == {id \in DOMAIN nft.tokens : nft.tokens[id].first = d /\ nft.tokens[id].tier = t}
  <2>1. \A i, j \in S : i = j
    BY <1>1 DEF IInv, GoodRegistry, TokensFit
  <2>2. CASE S = {}
    BY <2>2, FS_EmptySet
  <2>3. CASE S # {}
    <3>1. PICK i \in S : TRUE
      BY <2>3
    <3>2. S = {i}
      BY <2>1, <3>1
    <3>3. Cardinality(S) = 1
      BY <3>2, FS_Singleton
    <3> QED
      BY <3>3
  <2> QED
    BY <2>2, <2>3
<1>2. IInv => SecondBadgeAfterTransfer
  BY <1>1 DEF SecondBadgeAfterTransfer
<1> QED
  BY <1>2, RegistryInvariantHolds, PTL

-----------------------------------------------------------------------------
(* The migration *)

\* A pending migration goes up; its items are counted in whole projects.
SchemaFits ==
    /\ schema \in Schema
    /\ schema.state = "pending" => schema.target > schema.version
    /\ "projects" \in DOMAIN totals /\ totals.projects \in Nat

\* The minimum of two integers is one of them.
LEMMA MinOfTwo == ASSUME NEW a \in Int, NEW b \in Int PROVE Min({a, b}) \in {a, b}
<1>1. \E x \in {a, b} : \A y \in {a, b} : x <= y
  OBVIOUS
<1> QED
  BY <1>1 DEF Min

\* The maximum of two integers is one of them.
LEMMA MaxOfTwo == ASSUME NEW a \in Int, NEW b \in Int PROVE Max({a, b}) \in {a, b}
<1>1. \E x \in {a, b} : \A y \in {a, b} : x >= y
  OBVIOUS
<1> QED
  BY <1>1 DEF Max

\* A batch of a pending migration completes it with its version, or leaves both.
LEMMA BatchFits ==
    ASSUME NEW s \in Schema, NEW batch \in 0 .. 1, s.state = "pending", s.target > s.version
    PROVE  LET new == Migrated(s, batch) IN
           /\ new \in Schema
           /\ new.state = "pending" => new.target > new.version
           /\ new.version # s.version =>
                  new.version > s.version /\ new.state = "completed" /\ new.cursor = new.items
<1> DEFINE cursor == Min({s.cursor + Max({batch, 1}), s.items})
           new == [version |-> IF cursor = s.items THEN s.target ELSE s.version, target |-> s.target,
                   cursor |-> cursor, items |-> s.items,
                   state |-> IF cursor = s.items THEN "completed" ELSE s.state]
<1>1. cursor \in Nat
  <2>1. s.cursor \in Nat /\ s.items \in Nat
    BY DEF Schema
  <2>2. Max({batch, 1}) \in Nat
    BY MaxOfTwo
  <2>3. s.cursor + Max({batch, 1}) \in Nat
    BY <2>1, <2>2
  <2> QED
    BY <2>1, <2>3, MinOfTwo
<1>2. Migrated(s, batch) = new
  <2>1. s = [version |-> s.version, target |-> s.target, cursor |-> s.cursor, items |-> s.items, state |-> s.state]
    BY DEF Schema
  <2> HIDE DEF cursor
  <2>2. Migrated(s, batch) = [s EXCEPT !.cursor = cursor,
                                       !.state = IF cursor = s.items THEN "completed" ELSE @,
                                       !.version = IF cursor = s.items THEN s.target ELSE @]
    BY DEF Migrated, cursor
  <2> QED
    BY <2>1, <2>2
<1> HIDE DEF cursor
<1>3. new \in Schema
  BY <1>1 DEF Schema
<1> QED
  BY <1>2, <1>3 DEF Schema

\* A step keeps the fit, and moves the version only by completing a migration.
LEMMA SchemaStep ==
    ASSUME SchemaFits, [Next]_vars
    PROVE  /\ SchemaFits'
           /\ schema'.version # schema.version =>
                  /\ schema'.version > schema.version
                  /\ schema'.state = "completed" /\ schema'.cursor = schema'.items
<1> DEFINE goal == /\ SchemaFits'
                   /\ schema'.version # schema.version =>
                        /\ schema'.version > schema.version
                        /\ schema'.state = "completed" /\ schema'.cursor = schema'.items
<1>1. ASSUME NEW v \in 2 .. LastVersion, NEW batch \in 0 .. 1, UpgradeAndMigrate(v, batch) PROVE goal
  <2> DEFINE s == [version |-> schema.version, target |-> v, cursor |-> 0, items |-> totals.projects, state |-> "pending"]
  <2>1. v \in Nat /\ totals.projects \in Nat /\ schema.version \in Nat
    BY GreenPayAssumption DEF SchemaFits, Schema
  <2>2. s \in Schema /\ s.state = "pending" /\ s.target > s.version /\ s.version = schema.version
    BY <1>1, <2>1 DEF Schema, UpgradeAndMigrate
  <2>3. schema' = Migrated(s, batch) /\ totals' = totals
    BY <1>1 DEF UpgradeAndMigrate
  <2> HIDE DEF s
  <2> QED
    BY <2>2, <2>3, BatchFits DEF SchemaFits
<1>2. ASSUME NEW batch \in 0 .. 1, MigrateSchema(batch) PROVE goal
  BY <1>2, BatchFits DEF SchemaFits, MigrateSchema
<1>3. ASSUME UNCHANGED schema, "projects" \in DOMAIN totals', totals'.projects \in Nat PROVE goal
  BY <1>3 DEF SchemaFits
<1>4. ASSUME NEW p \in Projects, RegisterProject(p) PROVE goal
  <2>1. "projects" \in DOMAIN totals' /\ totals'.projects = totals.projects + 1
    BY <1>4 DEF SchemaFits, RegisterProject
  <2> QED
    BY <1>3, <1>4, <2>1 DEF RegisterProject, SchemaFits
<1>5. ASSUME NEW d \in Donors, NEW p \in Projects, NEW amount \in Amounts, Donate(d, p, amount) PROVE goal
  <2>1. "projects" \in DOMAIN totals' /\ totals'.projects = totals.projects
    BY <1>5 DEF SchemaFits, Donate
  <2> QED
    BY <1>3, <1>5, <2>1 DEF Donate, SchemaFits
<1>6. ASSUME UNCHANGED <<schema, totals>> PROVE goal
  BY <1>3, <1>6 DEF SchemaFits
<1> HIDE DEF goal
<1>7. goal
  BY <1>1, <1>2, <1>4, <1>5, <1>6
     DEF Next, vars, Transfer, Balance, HasNft, MintImpactNft, VoteVerifyProject, DeactivateProject,
         ResolveProposal, CreateProposal, SetDaoContract, CloseLedger
<1> QED
  BY <1>7 DEF goal

\* No migration is under way at the start.
LEMMA SchemaInit == Init => SchemaFits
<1> SUFFICES ASSUME Init PROVE SchemaFits
  OBVIOUS
<1>1. schema \in Schema /\ schema.state # "pending"
  BY DEF Init, Schema
<1>2. "projects" \in DOMAIN totals /\ totals.projects \in Nat
  BY DEF Init
<1> QED
  BY <1>1, <1>2 DEF SchemaFits

\* The version of the schema moves up only, and only when a migration has gone
\* through all the projects that were registered when it started.
THEOREM VersionsAreMigrated == Spec => VersionIsMigrated
<1>1. Init => SchemaFits
  BY SchemaInit
<1>2. SchemaFits /\ [Next]_vars => SchemaFits'
  BY SchemaStep
<1>3. SchemaFits /\ [Next]_vars =>
        [schema'.version # schema.version =>
           /\ schema'.version > schema.version
           /\ schema'.state = "completed" /\ schema'.cursor = schema'.items]_vars
  BY SchemaStep
<1> QED
  BY <1>1, <1>2, <1>3, PTL DEF Spec, VersionIsMigrated

-----------------------------------------------------------------------------
(* The books *)

\* Only registered projects are active and have donors, finitely many are
\* registered, and nobody has voted where there is no proposal.
BooksFit ==
    /\ IsFiniteSet(Registered)
    /\ \A p \in Projects : projects[p].active => projects[p].registered
    /\ \A p \in Projects, d \in Donors : <<p, d>> \in donated => projects[p].registered
    /\ \A p \in Projects, d \in Donors : <<p, d>> \in voted => proposals[p].state # "none"

Books == BooksFit /\ BooksAgree /\ VotesAreDonations

BooksInv == IInv /\ SchemaFits /\ TypeOK /\ Books

\* The donors and the voters of a project are finitely many.
LEMMA FewDonors ==
    ASSUME NEW p
    PROVE  IsFiniteSet(Donors) /\ IsFiniteSet(DonorsOf(p)) /\ IsFiniteSet(VotersOn(p))
<1>1. IsFiniteSet(Donors) /\ DonorsOf(p) \subseteq Donors /\ VotersOn(p) \subseteq Donors
  BY GreenPayAssumption DEF DonorsOf, VotersOn
<1> QED
  BY <1>1, FS_Subset

\* What was given and how often, as functions of the state.
LEMMA BookTypes ==
    ASSUME TypeOK
    PROVE  /\ Raised \in [Projects -> Nat] /\ Donated \in [Donors -> Nat] /\ Donations \in [Donors -> Nat]
           /\ \A p \in Projects : Raised[p] = projects[p].raised /\ projects[p] \in Project
           /\ \A d \in Donors : Donated[d] = stats[d].total /\ Donations[d] = stats[d].count /\ stats[d] \in Stats
           /\ totals.raised \in Nat /\ totals.donations \in Nat /\ totals.projects \in Nat
<1>1. ASSUME NEW p \in Projects PROVE projects[p] \in Project /\ projects[p].raised \in Nat
  BY DEF TypeOK, Project
<1>2. ASSUME NEW d \in Donors PROVE stats[d] \in Stats /\ stats[d].total \in Nat /\ stats[d].count \in Nat
  BY DEF TypeOK, Stats
<1>3. totals.raised \in Nat /\ totals.donations \in Nat /\ totals.projects \in Nat
  BY DEF TypeOK
<1> QED
  BY <1>1, <1>2, <1>3 DEF Raised, Donated, Donations

-----------------------------------------------------------------------------
\* Every step keeps the types.
LEMMA TypeStep ==
    ASSUME BooksInv, [Next]_vars, IInv', SchemaFits'
    PROVE  TypeOK'
<1>0. TypeOK
  BY DEF BooksInv
<1>1. stats' \in [Donors -> Stats] /\ nft' \in Registry /\ schema' \in Schema
  BY DEF IInv, GoodRegistry, StatsFit, SchemaFits
<1>2. ASSUME projects' \in [Projects -> Project], donated' \subseteq Projects \X Donors,
             totals' \in [raised: Nat, donations: Nat, projects: Nat],
             UNCHANGED <<proposals, voted, dao, ledger>>
      PROVE  TypeOK'
  BY <1>0, <1>1, <1>2 DEF TypeOK
<1>3. ASSUME proposals' \in [Projects -> Proposal], voted' \subseteq Projects \X Donors,
             dao' \in BOOLEAN, ledger' \in 0 .. LastLedger,
             UNCHANGED <<projects, donated, totals>>
      PROVE  TypeOK'
  BY <1>0, <1>1, <1>3 DEF TypeOK
<1>4. ASSUME NEW p \in Projects, RegisterProject(p) PROVE TypeOK'
  <2>1. [registered |-> TRUE, active |-> TRUE, raised |-> 0, donors |-> 0] \in Project
    BY DEF Project
  <2>2. projects' \in [Projects -> Project]
    BY <1>0, <1>4, <2>1 DEF RegisterProject, TypeOK
  <2>3. totals' \in [raised: Nat, donations: Nat, projects: Nat]
    BY <1>0, <1>4 DEF RegisterProject, TypeOK
  <2> QED
    BY <1>0, <1>2, <1>4, <2>2, <2>3 DEF RegisterProject, TypeOK
<1>5. ASSUME NEW p \in Projects, DeactivateProject(p) PROVE TypeOK'
  <2>1. PICK r \in Project : r = projects[p]
    BY <1>0 DEF TypeOK
  <2>2. [r EXCEPT !.active = FALSE] \in Project
    BY DEF Project
  <2>3. projects' \in [Projects -> Project]
    BY <1>0, <1>5, <2>1, <2>2 DEF DeactivateProject, TypeOK
  <2> QED
    BY <1>0, <1>2, <1>5, <2>3 DEF DeactivateProject, TypeOK
<1>6. ASSUME NEW d \in Donors, NEW p \in Projects, NEW amount \in Amounts, Donate(d, p, amount) PROVE TypeOK'
  <2>0. amount \in Nat
    BY GreenPayAssumption
  <2>n. PICK n \in {0, 1} : n = CountsDonor(p, d)
    BY DEF CountsDonor
  <2>1. PICK r \in Project : r = projects[p]
    BY <1>0 DEF TypeOK
  <2>2. [r EXCEPT !.raised = r.raised + amount, !.donors = r.donors + n] \in Project
    <3>1. r.raised + amount \in Nat /\ r.donors + n \in Nat
      BY <2>0 DEF Project
    <3> QED
      BY <3>1 DEF Project
  <2>3. projects' \in [Projects -> Project]
    <3>1. projects' = [projects EXCEPT ![p] = [r EXCEPT !.raised = r.raised + amount, !.donors = r.donors + n]]
      BY <1>0, <1>6, <2>1, <2>n DEF Donate, TypeOK
    <3> QED
      BY <1>0, <2>2, <3>1 DEF TypeOK
  <2>4. totals' \in [raised: Nat, donations: Nat, projects: Nat]
    <3>1. totals' = [totals EXCEPT !.raised = @ + amount, !.donations = @ + 1]
      BY <1>6 DEF Donate
    <3>2. totals \in [raised: Nat, donations: Nat, projects: Nat]
      BY <1>0 DEF TypeOK
    <3>3. totals.raised + amount \in Nat /\ totals.donations + 1 \in Nat
      BY <2>0, <3>2
    <3> QED
      BY <3>1, <3>2, <3>3
  <2>5. donated' \subseteq Projects \X Donors
    BY <1>0, <1>6 DEF Donate, TypeOK
  <2> QED
    BY <1>2, <1>6, <2>3, <2>4, <2>5 DEF Donate
<1>7. ASSUME NEW p \in Projects, NEW window \in Windows, CreateProposal(p, window) PROVE TypeOK'
  <2>1. ledger + window \in Nat
    BY <1>0, GreenPayAssumption DEF TypeOK
  <2>2. [state |-> "open", for |-> 0, against |-> 0, deadline |-> ledger + window] \in Proposal
    BY <2>1 DEF Proposal
  <2>3. proposals' \in [Projects -> Proposal]
    BY <1>0, <1>7, <2>2 DEF CreateProposal, TypeOK
  <2> QED
    BY <1>0, <1>3, <1>7, <2>3 DEF CreateProposal, TypeOK
<1>8. ASSUME NEW d \in Donors, NEW p \in Projects, NEW approve \in BOOLEAN, VoteVerifyProject(d, p, approve)
      PROVE  TypeOK'
  <2>0. PICK n \in Nat : n = Weight(d)
    BY <1>0, BookTypes DEF Weight, Stats
  <2>1. PICK r \in Proposal : r = proposals[p]
    BY <1>0 DEF TypeOK
  <2>2. [r EXCEPT !.for = @ + n] \in Proposal /\ [r EXCEPT !.against = @ + n] \in Proposal
    BY DEF Proposal
  <2>3. proposals' \in [Projects -> Proposal]
    <3>1. proposals' = [proposals EXCEPT ![p] = IF approve THEN [r EXCEPT !.for = @ + n]
                                                           ELSE [r EXCEPT !.against = @ + n]]
      BY <1>0, <1>8, <2>0, <2>1 DEF VoteVerifyProject, TypeOK
    <3> QED
      BY <1>0, <2>2, <3>1 DEF TypeOK
  <2>4. voted' \subseteq Projects \X Donors
    BY <1>0, <1>8 DEF VoteVerifyProject, TypeOK
  <2> QED
    BY <1>0, <1>3, <1>8, <2>3, <2>4 DEF VoteVerifyProject, TypeOK
<1>9. ASSUME NEW p \in Projects, ResolveProposal(p) PROVE TypeOK'
  <2>1. PICK r \in Proposal : r = proposals[p]
    BY <1>0 DEF TypeOK
  <2>2. [r EXCEPT !.state = "resolved"] \in Proposal
    BY DEF Proposal
  <2>3. proposals' \in [Projects -> Proposal]
    BY <1>0, <1>9, <2>1, <2>2 DEF ResolveProposal, TypeOK
  <2> QED
    BY <1>0, <1>3, <1>9, <2>3 DEF ResolveProposal, TypeOK
<1>10. ASSUME SetDaoContract \/ CloseLedger PROVE TypeOK'
  <2>1. ledger' \in 0 .. LastLedger
    BY <1>0, <1>10, GreenPayAssumption DEF TypeOK, SetDaoContract, CloseLedger
  <2> QED
    BY <1>0, <1>3, <1>10, <2>1 DEF SetDaoContract, CloseLedger, TypeOK
<1>11. ASSUME UNCHANGED <<projects, donated, totals, proposals, voted, dao, ledger>> PROVE TypeOK'
  BY <1>0, <1>2, <1>11 DEF TypeOK
<1>12. ASSUME NEW d \in Donors, NEW e \in Donors, NEW id \in DOMAIN nft.tokens, Transfer(d, e, id) PROVE TypeOK'
  BY <1>11, <1>12 DEF Transfer
<1>13. ASSUME NEW d \in Donors, NEW t \in Tiers, Balance(d) \/ MintImpactNft(d) \/ HasNft(d, t) PROVE TypeOK'
  BY <1>11, <1>13 DEF Balance, MintImpactNft, HasNft
<1>14. ASSUME NEW batch \in 0 .. 1, NEW v, MigrateSchema(batch) \/ UpgradeAndMigrate(v, batch) PROVE TypeOK'
  BY <1>11, <1>14 DEF MigrateSchema, UpgradeAndMigrate
<1>15. ASSUME UNCHANGED vars PROVE TypeOK'
  BY <1>11, <1>15 DEF vars
<1>16. 1 \in Tiers
  BY DEF Tiers
<1> QED
  BY <1>4, <1>5, <1>6, <1>7, <1>8, <1>9, <1>10, <1>12, <1>13, <1>14, <1>15, <1>16 DEF Next

-----------------------------------------------------------------------------
(* The sums *)

\* A step that leaves alone what was given keeps the books of the projects and
\* of the donors.
LEMMA SameMoney ==
    ASSUME TypeOK, TypeOK', Books, UNCHANGED <<stats, donated, totals>>,
           \A p \in Projects : /\ projects'[p].registered = projects[p].registered
                               /\ projects'[p].raised = projects[p].raised
                               /\ projects'[p].donors = projects[p].donors
    PROVE  BooksAgree' /\ Registered' = Registered
<1>1. Registered' = Registered
  BY DEF Registered
<1>2. Raised' = Raised /\ Donated' = Donated /\ Donations' = Donations
  BY DEF Raised, Donated, Donations
<1>3. \A p \in Projects : DonorsOf(p)' = DonorsOf(p)
  BY DEF DonorsOf
<1> QED
  BY <1>1, <1>2, <1>3 DEF Books, BooksAgree

\* A step that leaves alone what was given and what was voted keeps the votes.
LEMMA SameVotes ==
    ASSUME Books, UNCHANGED <<stats, voted>>,
           \A p \in Projects : /\ proposals'[p].for = proposals[p].for
                               /\ proposals'[p].against = proposals[p].against
    PROVE  VotesAreDonations'
<1>1. Donated' = Donated
  BY DEF Donated
<1>2. \A p \in Projects : VotersOn(p)' = VotersOn(p)
  BY DEF VotersOn
<1> QED
  BY <1>1, <1>2 DEF Books, VotesAreDonations

\* A project that is registered comes with nothing raised and without donors.
LEMMA RegisterBooks ==
    ASSUME BooksInv, TypeOK', NEW p \in Projects, RegisterProject(p)
    PROVE  Books'
<1>0. TypeOK /\ Books /\ BooksFit /\ BooksAgree
  BY DEF BooksInv, Books
<1>1. /\ UNCHANGED <<stats, donated, proposals, voted>>
      /\ p \notin Registered /\ totals'.projects = totals.projects + 1
      /\ totals'.raised = totals.raised /\ totals'.donations = totals.donations
  BY <1>0 DEF RegisterProject, Registered, TypeOK
<1>2. /\ projects'[p].registered /\ projects'[p].raised = 0 /\ projects'[p].donors = 0
      /\ \A q \in Projects : q # p => projects'[q] = projects[q]
  BY <1>0 DEF RegisterProject, TypeOK
<1>3. Registered' = Registered \cup {p}
  BY <1>2 DEF Registered
<1>4. IsFiniteSet(Registered)
  BY <1>0 DEF BooksFit
<1>5. IsFiniteSet(Registered') /\ Cardinality(Registered') = Cardinality(Registered) + 1
  BY <1>1, <1>3, <1>4, FS_AddElement
<1>6. Raised'[p] = 0 /\ \A q \in Projects : Raised'[q] \in Nat /\ (q # p => Raised'[q] = Raised[q])
  BY <1>0, <1>2, BookTypes DEF Raised, TypeOK, Project
<1>7. SumFunctionOnSet(Raised', Registered') = SumFunctionOnSet(Raised, Registered)
  <2>1. \A q \in Registered \cup {p} : Raised'[q] \in Int
    BY <1>6 DEF Registered
  <2>2. SumFunctionOnSet(Raised', Registered \cup {p}) = Raised'[p] + SumFunctionOnSet(Raised', Registered)
    BY <1>1, <1>4, <2>1, SumWith
  <2>3. \A q \in Registered : Raised'[q] = Raised[q]
    BY <1>1, <1>6 DEF Registered
  <2>4. SumFunctionOnSet(Raised', Registered) = SumFunctionOnSet(Raised, Registered)
    BY <1>4, <2>3, SumOfEqual
  <2>5. \A q \in Registered : Raised[q] \in Int
    BY <1>0, BookTypes DEF Registered
  <2>6. SumFunctionOnSet(Raised, Registered) \in Int
    BY <1>4, <2>5, SumIsInteger
  <2> QED
    BY <1>3, <1>6, <2>2, <2>4, <2>6
<1>8. Donated' = Donated /\ Donations' = Donations /\ \A q \in Projects : DonorsOf(q)' = DonorsOf(q)
  BY <1>1 DEF Donated, Donations, DonorsOf
<1>9. DonorsOf(p) = {} /\ Cardinality(DonorsOf(p)) = 0
  <2>1. DonorsOf(p) = {}
    BY <1>0, <1>1 DEF BooksFit, DonorsOf, Registered
  <2> QED
    BY <2>1, FS_EmptySet
<1>10. BooksAgree'
  <2>1. \A q \in Projects : projects'[q].donors = Cardinality(DonorsOf(q)')
    BY <1>0, <1>2, <1>8, <1>9 DEF BooksAgree
  <2> QED
    BY <1>0, <1>1, <1>5, <1>7, <1>8, <2>1 DEF BooksAgree
<1>11. BooksFit'
  BY <1>0, <1>1, <1>2, <1>5 DEF BooksFit
<1>12. VotesAreDonations'
  BY <1>0, <1>1, SameVotes
<1> QED
  BY <1>10, <1>11, <1>12 DEF Books

\* A donation is entered for its project, for its donor and in the total, and
\* a donor is counted where there was none.
LEMMA DonateMoney ==
    ASSUME BooksInv, TypeOK', NEW d \in Donors, NEW p \in Projects, NEW amount \in Amounts, Donate(d, p, amount)
    PROVE  BooksAgree' /\ Registered' = Registered
<1>0. TypeOK /\ BooksFit /\ BooksAgree /\ amount \in Nat
  BY GreenPayAssumption DEF BooksInv, Books
<1>n. PICK n \in {0, 1} : n = CountsDonor(p, d)
  BY DEF CountsDonor
<1>1. /\ totals'.raised = totals.raised + amount
      /\ totals'.donations = totals.donations + 1
      /\ totals'.projects = totals.projects
      /\ totals.raised \in Nat /\ totals.donations \in Nat
  BY <1>0, BookTypes DEF Donate, TypeOK
<1>2. PICK r \in Project : r = projects[p]
  BY <1>0 DEF TypeOK
<1>3. /\ projects' = [projects EXCEPT ![p] = [r EXCEPT !.raised = r.raised + amount, !.donors = r.donors + n]]
      /\ projects[p].active
  BY <1>0, <1>2, <1>n DEF Donate, TypeOK
<1>4. /\ projects'[p].raised = projects[p].raised + amount
      /\ projects'[p].donors = projects[p].donors + n
      /\ projects'[p].registered = projects[p].registered
      /\ \A q \in Projects : q # p => projects'[q] = projects[q]
      /\ projects[p].raised \in Nat /\ projects[p].donors \in Nat
  BY <1>0, <1>2, <1>3 DEF TypeOK, Project
<1>5. /\ stats'[d].total = stats[d].total + amount
      /\ stats'[d].count = stats[d].count + 1
      /\ \A e \in Donors : e # d => stats'[e] = stats[e]
      /\ stats[d].total \in Nat /\ stats[d].count \in Nat
  BY <1>0, BookTypes DEF Donate, TypeOK
<1>6. Registered' = Registered /\ p \in Registered /\ IsFiniteSet(Registered)
  BY <1>0, <1>3, <1>4 DEF Registered, BooksFit
<1>7. totals'.raised = SumFunctionOnSet(Raised', Registered)
  <2>1. \A q \in Projects : Raised[q] \in Int /\ Raised'[q] \in Int
    BY <1>0, BookTypes DEF Raised, TypeOK, Project
  <2>2. \A q \in Registered : Raised[q] \in Int /\ Raised'[q] \in Int
    BY <2>1 DEF Registered
  <2>3. \A q \in Registered \ {p} : Raised[q] = Raised'[q]
    BY <1>4 DEF Raised, Registered
  <2>4. SumFunctionOnSet(Raised', Registered) = SumFunctionOnSet(Raised, Registered) + Raised'[p] - Raised[p]
    BY <1>6, <2>2, <2>3, SumOfChanged
  <2>5. Raised'[p] = Raised[p] + amount /\ Raised[p] \in Nat
    BY <1>4 DEF Raised
  <2>6. totals.raised = SumFunctionOnSet(Raised, Registered)
    BY <1>0 DEF BooksAgree
  <2> QED
    BY <1>0, <1>1, <2>4, <2>5, <2>6
<1>8. /\ totals'.raised = SumFunctionOnSet(Donated', Donors)
      /\ totals'.donations = SumFunctionOnSet(Donations', Donors)
  <2>1. \A e \in Donors : Donated[e] \in Int /\ Donated'[e] \in Int
    BY <1>0, BookTypes DEF Donated, TypeOK, Stats
  <2>2. \A e \in Donors : Donations[e] \in Int /\ Donations'[e] \in Int
    BY <1>0, BookTypes DEF Donations, TypeOK, Stats
  <2>3. \A e \in Donors \ {d} : Donated[e] = Donated'[e]
    BY <1>5 DEF Donated
  <2>4. \A e \in Donors \ {d} : Donations[e] = Donations'[e]
    BY <1>5 DEF Donations
  <2>5. IsFiniteSet(Donors)
    BY FewDonors
  <2>6. SumFunctionOnSet(Donated', Donors) = SumFunctionOnSet(Donated, Donors) + Donated'[d] - Donated[d]
    BY <2>1, <2>3, <2>5, SumOfChanged
  <2>7. SumFunctionOnSet(Donations', Donors) = SumFunctionOnSet(Donations, Donors) + Donations'[d] - Donations[d]
    BY <2>2, <2>4, <2>5, SumOfChanged
  <2>8. /\ Donated'[d] = Donated[d] + amount /\ Donated[d] \in Nat
        /\ Donations'[d] = Donations[d] + 1 /\ Donations[d] \in Nat
    BY <1>5 DEF Donated, Donations
  <2>9. /\ totals.raised = SumFunctionOnSet(Donated, Donors)
        /\ totals.donations = SumFunctionOnSet(Donations, Donors)
    BY <1>0 DEF BooksAgree
  <2> QED
    BY <1>0, <1>1, <2>6, <2>7, <2>8, <2>9
<1>9. ASSUME NEW q \in Projects PROVE projects'[q].donors = Cardinality(DonorsOf(q)')
  <2>1. projects[q].donors = Cardinality(DonorsOf(q))
    BY <1>0 DEF BooksAgree
  <2>2. donated' = donated \union {<<p, d>>}
    BY DEF Donate
  <2>3. CASE q # p
    <3>1. DonorsOf(q)' = DonorsOf(q)
      BY <2>2, <2>3 DEF DonorsOf
    <3> QED
      BY <1>4, <2>1, <2>3, <3>1
  <2>4. CASE q = p /\ <<p, d>> \in donated
    <3>1. DonorsOf(q)' = DonorsOf(q) /\ n = 0
      BY <1>n, <2>2, <2>4 DEF DonorsOf, CountsDonor
    <3> QED
      BY <1>4, <2>1, <2>4, <3>1
  <2>5. CASE q = p /\ <<p, d>> \notin donated
    <3>1. DonorsOf(q)' = DonorsOf(q) \cup {d} /\ d \notin DonorsOf(q) /\ n = 1
      BY <1>n, <2>2, <2>5 DEF DonorsOf, CountsDonor
    <3>2. IsFiniteSet(DonorsOf(q))
      BY FewDonors
    <3>3. Cardinality(DonorsOf(q) \cup {d}) = Cardinality(DonorsOf(q)) + 1
      BY <3>1, <3>2, FS_AddElement
    <3> QED
      BY <1>4, <2>1, <2>5, <3>1, <3>3
  <2> QED
    BY <2>3, <2>4, <2>5
<1> QED
  BY <1>0, <1>1, <1>6, <1>7, <1>8, <1>9 DEF BooksAgree

\* It only adds to the weight behind the votes its donor has cast.
LEMMA DonateBooks ==
    ASSUME BooksInv, TypeOK', NEW d \in Donors, NEW p \in Projects, NEW amount \in Amounts, Donate(d, p, amount)
    PROVE  Books'
<1>0. TypeOK /\ BooksFit /\ VotesAreDonations /\ amount \in Nat
  BY GreenPayAssumption DEF BooksInv, Books
<1>1. BooksAgree' /\ Registered' = Registered
  BY DonateMoney
<1>2. UNCHANGED <<proposals, voted>> /\ projects[p].active /\ donated' = donated \union {<<p, d>>}
  BY DEF Donate
<1>3. \A q \in Projects : projects'[q].registered = projects[q].registered /\ projects'[q].active = projects[q].active
  <2>1. PICK r \in Project : r = projects[p]
    BY <1>0 DEF TypeOK
  <2>2. projects' = [projects EXCEPT ![p] = [r EXCEPT !.raised = r.raised + amount,
                                                      !.donors = r.donors + CountsDonor(p, d)]]
    BY <1>0, <2>1 DEF Donate, TypeOK
  <2> QED
    BY <1>0, <2>1, <2>2 DEF TypeOK, Project
<1>4. BooksFit'
  BY <1>0, <1>1, <1>2, <1>3 DEF BooksFit
<1>5. \A e \in Donors : Donated[e] \in Nat /\ Donated'[e] \in Nat /\ Donated[e] <= Donated'[e]
  <2>1. stats' = [stats EXCEPT ![d] = [total |-> stats[d].total + amount, count |-> stats[d].count + 1,
                                       badge |-> Badge(stats[d].total + amount)]]
    BY DEF Donate
  <2>2. \A e \in Donors : stats[e] \in Stats
    BY <1>0, BookTypes
  <2>3. /\ stats[d].total \in Nat /\ stats'[d].total = stats[d].total + amount
        /\ \A e \in Donors : e # d => stats'[e] = stats[e]
    BY <1>0, <2>1, <2>2 DEF Stats, TypeOK
  <2>4. \A e \in Donors : stats[e].total \in Nat
    BY <2>2 DEF Stats
  <2> QED
    BY <1>0, <2>3, <2>4 DEF Donated
<1>6. ASSUME NEW q \in Projects
      PROVE  /\ VotersOn(q)' = VotersOn(q)
             /\ SumFunctionOnSet(Donated, VotersOn(q)) <= SumFunctionOnSet(Donated', VotersOn(q))
             /\ SumFunctionOnSet(Donated, VotersOn(q)) \in Nat
             /\ SumFunctionOnSet(Donated', VotersOn(q)) \in Nat
  <2>1. IsFiniteSet(VotersOn(q)) /\ VotersOn(q)' = VotersOn(q)
    BY <1>2, FewDonors DEF VotersOn
  <2>2. \A e \in VotersOn(q) : Donated[e] \in Nat /\ Donated'[e] \in Nat /\ Donated[e] <= Donated'[e]
    BY <1>5 DEF VotersOn
  <2>3. SumFunctionOnSet(Donated, VotersOn(q)) <= SumFunctionOnSet(Donated', VotersOn(q))
    BY <2>1, <2>2, SumIsMonotone
  <2>4. /\ SumFunctionOnSet(Donated, VotersOn(q)) \in Nat
        /\ SumFunctionOnSet(Donated', VotersOn(q)) \in Nat
    BY <2>1, <2>2, SumIsNatural
  <2> QED
    BY <2>1, <2>3, <2>4
<1>7. VotesAreDonations'
  <2> SUFFICES ASSUME NEW q \in Projects
               PROVE  LET votes == proposals'[q].for + proposals'[q].against IN
                      /\ votes <= SumFunctionOnSet(Donated', VotersOn(q)')
                      /\ votes >= Thresholds[Tree] * Cardinality(VotersOn(q)')
    BY DEF VotesAreDonations
  <2>1. proposals[q].for \in Nat /\ proposals[q].against \in Nat
    BY <1>0 DEF TypeOK, Proposal
  <2>2. /\ proposals[q].for + proposals[q].against <= SumFunctionOnSet(Donated, VotersOn(q))
        /\ proposals[q].for + proposals[q].against >= Thresholds[Tree] * Cardinality(VotersOn(q))
    BY <1>0 DEF VotesAreDonations
  <2>3. proposals'[q].for + proposals'[q].against <= SumFunctionOnSet(Donated', VotersOn(q)')
    <3>1. proposals' = proposals
      BY <1>2
    <3> QED
      BY <1>6, <2>1, <2>2, <3>1
  <2> QED
    BY <1>2, <1>6, <2>2, <2>3
<1> QED
  BY <1>1, <1>4, <1>7 DEF Books

\* A vote weighs what its donor has given, which reached the threshold.
LEMMA VoteBooks ==
    ASSUME BooksInv, TypeOK', NEW d \in Donors, NEW p \in Projects, NEW approve \in BOOLEAN,
           VoteVerifyProject(d, p, approve)
    PROVE  Books'
<1>0. TypeOK /\ BooksFit /\ BooksAgree /\ Books /\ VotesAreDonations
  BY DEF BooksInv, Books
<1>n. PICK n \in Nat : n = Weight(d) /\ n = stats[d].total /\ n >= Thresholds[Tree] /\ n = Donated[d]
  <2>1. Thresholds[Tree] \in Nat /\ stats[d].total \in Nat /\ Donated[d] = stats[d].total
    BY <1>0, BookTypes, GreenPayAssumption DEF Tiers, Tree, Stats
  <2> QED
    BY <2>1 DEF VoteVerifyProject, Weight
<1>1. /\ UNCHANGED <<projects, stats, donated, totals>> /\ voted' = voted \union {<<p, d>>}
      /\ <<p, d>> \notin voted /\ proposals[p].state = "open"
  BY DEF VoteVerifyProject, MayVote
<1>2. PICK r \in Proposal : r = proposals[p]
  BY <1>0 DEF TypeOK
<1>3. proposals' = [proposals EXCEPT ![p] = IF approve THEN [r EXCEPT !.for = r.for + n]
                                                      ELSE [r EXCEPT !.against = r.against + n]]
  BY <1>0, <1>2, <1>n DEF VoteVerifyProject, TypeOK
<1>4. /\ \A q \in Projects : q # p => proposals'[q] = proposals[q]
      /\ proposals'[p].for + proposals'[p].against = proposals[p].for + proposals[p].against + n
      /\ proposals'[p].state = proposals[p].state
      /\ proposals[p].for \in Nat /\ proposals[p].against \in Nat
  BY <1>0, <1>2, <1>3 DEF TypeOK, Proposal
<1>5. BooksAgree' /\ Registered' = Registered
  BY <1>0, <1>1, SameMoney
<1>6. BooksFit'
  <2>1. ASSUME NEW q \in Projects, NEW e \in Donors, <<q, e>> \in voted' PROVE proposals'[q].state # "none"
    BY <1>0, <1>1, <1>4, <2>1 DEF BooksFit
  <2> QED
    BY <1>0, <1>1, <1>5, <2>1 DEF BooksFit
<1>7. Donated' = Donated
  BY <1>1 DEF Donated
<1>8. ASSUME NEW q \in Projects
      PROVE  LET votes == proposals'[q].for + proposals'[q].against IN
             /\ votes <= SumFunctionOnSet(Donated, VotersOn(q)')
             /\ votes >= Thresholds[Tree] * Cardinality(VotersOn(q)')
  <2>1. LET votes == proposals[q].for + proposals[q].against IN
        /\ votes <= SumFunctionOnSet(Donated, VotersOn(q))
        /\ votes >= Thresholds[Tree] * Cardinality(VotersOn(q))
    BY <1>0 DEF VotesAreDonations
  <2>2. CASE q # p
    <3>1. VotersOn(q)' = VotersOn(q)
      BY <1>1, <2>2 DEF VotersOn
    <3> QED
      BY <1>4, <2>1, <2>2, <3>1
  <2>3. CASE q = p
    <3>1. VotersOn(p)' = VotersOn(p) \cup {d} /\ d \notin VotersOn(p)
      BY <1>1 DEF VotersOn
    <3>2. IsFiniteSet(VotersOn(p))
      BY FewDonors
    <3>3. \A e \in VotersOn(p) \cup {d} : Donated[e] \in Int
      BY <1>0, BookTypes DEF VotersOn
    <3>4. SumFunctionOnSet(Donated, VotersOn(p) \cup {d}) = Donated[d] + SumFunctionOnSet(Donated, VotersOn(p))
      BY <3>1, <3>2, <3>3, SumWith
    <3>5. SumFunctionOnSet(Donated, VotersOn(p)) \in Int
      BY <3>2, <3>3, SumIsInteger
    <3>6. Cardinality(VotersOn(p) \cup {d}) = Cardinality(VotersOn(p)) + 1 /\ Cardinality(VotersOn(p)) \in Nat
      BY <3>1, <3>2, FS_AddElement, FS_CardinalityType
    <3>7. Thresholds[Tree] \in Nat
      BY GreenPayAssumption DEF Tiers, Tree
    <3>8. ASSUME NEW a \in Nat, NEW k \in Nat PROVE a * (k + 1) = a * k + a /\ a * k \in Nat
      BY <3>8
    <3>9. /\ Thresholds[Tree] * (Cardinality(VotersOn(p)) + 1) = Thresholds[Tree] * Cardinality(VotersOn(p)) + Thresholds[Tree]
          /\ Thresholds[Tree] * Cardinality(VotersOn(p)) \in Nat
      BY <3>6, <3>7, <3>8
    <3> DEFINE votes == proposals[p].for + proposals[p].against
               sum == SumFunctionOnSet(Donated, VotersOn(p))
               least == Thresholds[Tree] * Cardinality(VotersOn(p))
    <3>10. /\ votes \in Nat /\ sum \in Int /\ least \in Nat /\ votes <= sum /\ votes >= least
           /\ proposals'[p].for + proposals'[p].against = votes + n
           /\ SumFunctionOnSet(Donated, VotersOn(p)') = n + sum
           /\ Thresholds[Tree] * Cardinality(VotersOn(p)') = least + Thresholds[Tree]
      BY <1>4, <1>n, <2>1, <2>3, <3>1, <3>4, <3>5, <3>6, <3>9
    <3> HIDE DEF votes, sum, least
    <3> QED
      BY <1>n, <2>3, <3>7, <3>10
  <2> QED
    BY <2>2, <2>3
<1>9. VotesAreDonations'
  BY <1>7, <1>8 DEF VotesAreDonations
<1> QED
  BY <1>5, <1>6, <1>9 DEF Books

\* A proposal starts without votes, where nobody has voted before.
LEMMA ProposalBooks ==
    ASSUME BooksInv, TypeOK', NEW p \in Projects, NEW window \in Windows, CreateProposal(p, window)
    PROVE  Books'
<1>0. TypeOK /\ BooksFit /\ BooksAgree /\ Books /\ VotesAreDonations
  BY DEF BooksInv, Books
<1>1. /\ UNCHANGED <<projects, stats, donated, totals, voted>> /\ proposals[p].state = "none"
      /\ \A q \in Projects : q # p => proposals'[q] = proposals[q]
      /\ proposals'[p].for = 0 /\ proposals'[p].against = 0 /\ proposals'[p].state = "open"
  BY <1>0 DEF CreateProposal, TypeOK
<1>2. BooksAgree' /\ Registered' = Registered
  BY <1>0, <1>1, SameMoney
<1>3. BooksFit'
  BY <1>0, <1>1, <1>2 DEF BooksFit
<1>4. VotersOn(p) = {} /\ Donated' = Donated /\ \A q \in Projects : VotersOn(q)' = VotersOn(q)
  BY <1>0, <1>1 DEF BooksFit, VotersOn, Donated
<1>5. SumFunctionOnSet(Donated, VotersOn(p)) = 0 /\ Cardinality(VotersOn(p)) = 0
  BY <1>4, SumEmpty, FS_EmptySet
<1>6. Thresholds[Tree] \in Nat
  BY GreenPayAssumption DEF Tiers, Tree
<1>7. VotesAreDonations'
  <2>1. ASSUME NEW q \in Projects
        PROVE  LET votes == proposals'[q].for + proposals'[q].against IN
               /\ votes <= SumFunctionOnSet(Donated, VotersOn(q))
               /\ votes >= Thresholds[Tree] * Cardinality(VotersOn(q))
    <3>1. CASE q # p
      BY <1>0, <1>1, <3>1 DEF VotesAreDonations
    <3>2. CASE q = p
      BY <1>1, <1>5, <1>6, <3>2
    <3> QED
      BY <3>1, <3>2
  <2> QED
    BY <1>4, <2>1 DEF VotesAreDonations
<1> QED
  BY <1>2, <1>3, <1>7 DEF Books

\* Every step keeps the books.
LEMMA BooksStep ==
    ASSUME BooksInv, [Next]_vars, TypeOK'
    PROVE  Books'
<1>0. TypeOK /\ BooksFit /\ BooksAgree /\ Books /\ VotesAreDonations
  BY DEF BooksInv, Books
<1>1. ASSUME UNCHANGED <<stats, donated, totals, voted>>,
             \A p \in Projects :
                 /\ projects'[p].registered = projects[p].registered /\ projects'[p].raised = projects[p].raised
                 /\ projects'[p].donors = projects[p].donors /\ (projects'[p].active => projects[p].active)
                 /\ proposals'[p].for = proposals[p].for /\ proposals'[p].against = proposals[p].against
                 /\ (proposals[p].state # "none" => proposals'[p].state # "none")
      PROVE  Books'
  <2>1. BooksAgree' /\ Registered' = Registered
    BY <1>0, <1>1, SameMoney
  <2>2. VotesAreDonations'
    BY <1>0, <1>1, SameVotes
  <2>3. BooksFit'
    BY <1>0, <1>1, <2>1 DEF BooksFit
  <2> QED
    BY <2>1, <2>2, <2>3 DEF Books
<1>2. ASSUME UNCHANGED <<projects, stats, donated, totals, proposals, voted>> PROVE Books'
  BY <1>1, <1>2
<1>3. ASSUME NEW p \in Projects, DeactivateProject(p) PROVE Books'
  <2>1. \A q \in Projects :
            /\ projects'[q].registered = projects[q].registered /\ projects'[q].raised = projects[q].raised
            /\ projects'[q].donors = projects[q].donors /\ (projects'[q].active => projects[q].active)
    BY <1>0, <1>3 DEF DeactivateProject, TypeOK, Project
  <2> QED
    BY <1>1, <1>3, <2>1 DEF DeactivateProject
<1>4. ASSUME NEW p \in Projects, ResolveProposal(p) PROVE Books'
  <2>1. \A q \in Projects :
            /\ proposals'[q].for = proposals[q].for /\ proposals'[q].against = proposals[q].against
            /\ (proposals[q].state # "none" => proposals'[q].state # "none")
    BY <1>0, <1>4 DEF ResolveProposal, TypeOK, Proposal
  <2> QED
    BY <1>1, <1>4, <2>1 DEF ResolveProposal
<1>5. ASSUME NEW p \in Projects, RegisterProject(p) PROVE Books'
  BY <1>5, RegisterBooks
<1>6. ASSUME NEW d \in Donors, NEW p \in Projects, NEW amount \in Amounts, Donate(d, p, amount) PROVE Books'
  BY <1>6, DonateBooks
<1>7. ASSUME NEW d \in Donors, NEW p \in Projects, NEW approve \in BOOLEAN, VoteVerifyProject(d, p, approve)
      PROVE  Books'
  BY <1>7, VoteBooks
<1>8. ASSUME NEW p \in Projects, NEW window \in Windows, CreateProposal(p, window) PROVE Books'
  BY <1>8, ProposalBooks
<1>9. ASSUME NEW d \in Donors, NEW e \in Donors, NEW id \in DOMAIN nft.tokens, Transfer(d, e, id) PROVE Books'
  BY <1>2, <1>9 DEF Transfer
<1>10. ASSUME NEW d \in Donors, NEW t \in Tiers, Balance(d) \/ MintImpactNft(d) \/ HasNft(d, t) PROVE Books'
  BY <1>2, <1>10 DEF Balance, MintImpactNft, HasNft
<1>11. ASSUME NEW batch \in 0 .. 1, NEW v, MigrateSchema(batch) \/ UpgradeAndMigrate(v, batch) PROVE Books'
  BY <1>2, <1>11 DEF MigrateSchema, UpgradeAndMigrate
<1>12. ASSUME SetDaoContract \/ CloseLedger PROVE Books'
  BY <1>2, <1>12 DEF SetDaoContract, CloseLedger
<1>13. ASSUME UNCHANGED vars PROVE Books'
  BY <1>2, <1>13 DEF vars
<1>14. 1 \in Tiers
  BY DEF Tiers
<1> QED
  BY <1>3, <1>4, <1>5, <1>6, <1>7, <1>8, <1>9, <1>10, <1>11, <1>12, <1>13, <1>14 DEF Next

\* At the start there is one project, to which the donors of the older badges
\* have given, each of them once.
LEMMA BooksStart == Init => TypeOK /\ Books
<1> SUFFICES ASSUME Init PROVE TypeOK /\ Books
  OBVIOUS
<1> DEFINE Once == [d \in Donors |-> IF Before[d] > 0 THEN 1 ELSE 0]
<1>0. First \in Projects /\ IsFiniteSet(Donors) /\ Before \in [Donors -> Nat] /\ LastLedger \in Nat
      /\ Thresholds[Tree] \in Nat
  BY GreenPayAssumption DEF Tiers, Tree
<1>1. Given \in Nat
  <2>1. \A d \in Donors : Before[d] \in Nat
    BY <1>0
  <2> QED
    BY <1>0, <2>1, SumIsNatural DEF Given
<1>2. IsFiniteSet(Givers) /\ Cardinality(Givers) \in Nat
  <2>1. Givers \subseteq Donors
    BY DEF Givers
  <2> QED
    BY <1>0, <2>1, FS_Subset, FS_CardinalityType
<1>3. TypeOK
  <2>1. stats \in [Donors -> Stats] /\ nft \in Registry /\ schema \in Schema
    BY InitInv, SchemaInit DEF IInv, GoodRegistry, StatsFit, SchemaFits
  <2>2. projects \in [Projects -> Project]
    <3>1. [registered |-> TRUE, active |-> TRUE, raised |-> Given, donors |-> Cardinality(Givers)] \in Project
      BY <1>1, <1>2 DEF Project
    <3>2. [registered |-> FALSE, active |-> FALSE, raised |-> 0, donors |-> 0] \in Project
      BY DEF Project
    <3> QED
      BY <3>1, <3>2 DEF Init
  <2>3. proposals \in [Projects -> Proposal]
    BY DEF Init, Proposal
  <2>4. donated \subseteq Projects \X Donors
    BY <1>0 DEF Init, Givers
  <2>5. totals \in [raised: Nat, donations: Nat, projects: Nat]
    BY <1>1, <1>2 DEF Init
  <2>6. voted \subseteq Projects \X Donors /\ dao \in BOOLEAN /\ ledger \in 0 .. LastLedger
    <3>1. voted = {} /\ ledger = 0
      BY DEF Init
    <3>2. dao \in BOOLEAN
      BY DEF Init
    <3> QED
      BY <1>0, <3>1, <3>2
  <2> QED
    BY <2>1, <2>2, <2>3, <2>4, <2>5, <2>6 DEF TypeOK
<1>4. /\ projects[First].registered /\ projects[First].raised = Given
      /\ projects[First].donors = Cardinality(Givers)
      /\ \A p \in Projects : p # First => ~projects[p].registered /\ ~projects[p].active /\ projects[p].donors = 0
  BY <1>0 DEF Init
<1>5. totals.raised = Given /\ totals.donations = Cardinality(Givers) /\ totals.projects = 1
  BY DEF Init
<1>6. Registered = {First} /\ IsFiniteSet(Registered) /\ Cardinality(Registered) = 1
  <2>1. Registered = {First}
    BY <1>0, <1>4 DEF Registered
  <2> QED
    BY <2>1, FS_Singleton
<1>7. SumFunctionOnSet(Raised, Registered) = Given
  <2>1. \A p \in {} \cup {First} : Raised[p] \in Int
    BY <1>0, <1>1, <1>4 DEF Raised
  <2>2. IsFiniteSet({}) /\ First \notin {}
    BY FS_EmptySet
  <2>3. SumFunctionOnSet(Raised, {} \cup {First}) = Raised[First] + SumFunctionOnSet(Raised, {})
    BY <2>1, <2>2, SumWith
  <2>4. SumFunctionOnSet(Raised, {}) = 0
    BY SumEmpty
  <2>5. Raised[First] = Given /\ {} \cup {First} = Registered
    BY <1>0, <1>4, <1>6 DEF Raised
  <2> QED
    BY <1>1, <2>3, <2>4, <2>5
<1>8. SumFunctionOnSet(Donated, Donors) = Given
  <2>1. \A d \in Donors : Donated[d] = Before[d]
    BY DEF Init, Donated
  <2> QED
    BY <1>0, <2>1, SumOfEqual DEF Given
<1>9. SumFunctionOnSet(Donations, Donors) = Cardinality(Givers)
  <2>1. \A d \in Donors : Donations[d] = Once[d]
    BY DEF Init, Donations
  <2>2. (\A d \in Donors : Once[d] \in {0, 1}) /\ Givers = {d \in Donors : Once[d] = 1}
    BY DEF Givers
  <2> HIDE DEF Once
  <2>3. SumFunctionOnSet(Donations, Donors) = SumFunctionOnSet(Once, Donors)
    BY <1>0, <2>1, SumOfEqual
  <2>4. SumFunctionOnSet(Once, Donors) = Cardinality({d \in Donors : Once[d] = 1})
    BY <1>0, <2>2, SumOfOnes
  <2> QED
    BY <2>2, <2>3, <2>4
<1>10. ASSUME NEW p \in Projects PROVE projects[p].donors = Cardinality(DonorsOf(p))
  <2>1. donated = {First} \X Givers /\ Givers \subseteq Donors
    BY DEF Init, Givers
  <2>2. CASE p = First
    BY <1>4, <2>1, <2>2 DEF DonorsOf
  <2>3. CASE p # First
    <3>1. DonorsOf(p) = {}
      BY <2>1, <2>3 DEF DonorsOf
    <3> QED
      BY <1>4, <2>3, <3>1, FS_EmptySet
  <2> QED
    BY <2>2, <2>3
<1>11. BooksAgree
  BY <1>5, <1>6, <1>7, <1>8, <1>9, <1>10 DEF BooksAgree
<1>12. BooksFit
  BY <1>0, <1>4, <1>6 DEF BooksFit, Init
<1>13. VotesAreDonations
  <2>1. ASSUME NEW p \in Projects
        PROVE  /\ VotersOn(p) = {} /\ proposals[p].for = 0 /\ proposals[p].against = 0
               /\ SumFunctionOnSet(Donated, VotersOn(p)) = 0 /\ Cardinality(VotersOn(p)) = 0
    <3>1. VotersOn(p) = {} /\ proposals[p].for = 0 /\ proposals[p].against = 0
      BY DEF Init, VotersOn
    <3> QED
      BY <3>1, SumEmpty, FS_EmptySet
  <2> QED
    BY <1>0, <2>1 DEF VotesAreDonations
<1> QED
  BY <1>3, <1>11, <1>12, <1>13 DEF Books

\* The invariant behind the books, of every reachable state.
THEOREM BooksInvariantHolds == Spec => []BooksInv
<1>1. Init => BooksInv
  BY InitInv, SchemaInit, BooksStart DEF BooksInv
<1>2. BooksInv /\ [Next]_vars => BooksInv'
  <2> SUFFICES ASSUME BooksInv, [Next]_vars PROVE BooksInv'
    OBVIOUS
  <2>1. IInv' /\ SchemaFits'
    BY NextInv, SchemaStep DEF BooksInv
  <2>2. TypeOK'
    BY <2>1, TypeStep
  <2>3. Books'
    BY <2>2, BooksStep
  <2> QED
    BY <2>1, <2>2, <2>3 DEF BooksInv
<1> QED
  BY <1>1, <1>2, PTL DEF Spec

\* The total of the contract, the totals of its projects and those of its
\* donors are the same sum, every project counts each of its donors once, and
\* the votes on a project weigh no more than its voters have given: for any
\* number of donors and projects, whatever was given before.
THEOREM SumsAlwaysAgree == Spec => []SumsAgree
<1>1. BooksInv => SumsAgree
  BY DEF BooksInv, Books, SumsAgree
<1> QED
  BY <1>1, BooksInvariantHolds, PTL
=============================================================================
