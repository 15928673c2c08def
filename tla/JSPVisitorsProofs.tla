------------------------- MODULE JSPVisitorsProofs ---------------------------
(***************************************************************************)
(* Proofs about JSPVisitors.  What a shell owns is known for every         *)
(* program; that the three records agree, for the tame ones.               *)
(***************************************************************************)
EXTENDS JSPVisitors, FiniteSetTheorems, SequenceTheorems, TLAPS

-----------------------------------------------------------------------------
(* The inductive invariant.                                                *)

\* The shells, hashes and magic of a moment.
World == [shell: [Shells -> ShellRec],
          visitors: [Contexts -> [Things -> Shells \cup {None}]],
          magic: [Things -> [Contexts -> Seq(Shells)]]]

\* Whatever the program does: a private slot owns one reference, or none if the
\* shell was unrooted early, until the shell is finalized.
Owned(w) ==
  /\ w \in World
  /\ \A s \in Shells :
       /\ w.shell[s].heap = "used" => w.shell[s].own \in {0, 1}
       /\ w.shell[s].heap = "free" => w.shell[s].own \in {-1, 0}

\* What the magic of context c on t is, when it is exact.
Marks(w, c, t) == IF w.visitors[c][t] = None THEN <<>> ELSE <<w.visitors[c][t]>>

\* If the program is tame, the three records say the same: of every shell, of
\* every entry of a hash, of the magic on every thing that is referred to.  The
\* contexts in L live, and the program keeps the things in K.
ShellAgrees(w, L, s) ==
  LET r == w.shell[s]
  IN  /\ ~r.alias /\ r.own = IF r.heap = "used" THEN 1 ELSE 0
      /\ r.heap = "used" => r.home \in L /\ w.visitors[r.home][r.of] = s

EntryAgrees(w, L, c, t) ==
  w.visitors[c][t] # None =>
    LET r == w.shell[w.visitors[c][t]]
    IN  c \in L /\ r.heap = "used" /\ r.home = c /\ r.of = t

Referred(w, K, t) == t \in K \/ \E s \in Shells : w.shell[s].heap = "used" /\ w.shell[s].of = t

Agree(w, L, K) ==
  /\ \A s \in Shells : ShellAgrees(w, L, s)
  /\ \A c \in Contexts, t \in Things : EntryAgrees(w, L, c, t)
  /\ \A c \in Contexts, t \in Things : Referred(w, K, t) => w.magic[t][c] = Marks(w, c, t)

General ==
  /\ TypeOK /\ Owned(Land)
  /\ \A s \in Shells : shell[s].alias => var # None
  /\ live = {} => \A s \in Shells : ~Used(s)
  /\ call # None => call.cx \in live

Orderly ==
  /\ Agree(Land, live, kept)
  /\ \A c, d \in live : c = d
  /\ var = None
  /\ call # None => \A i \in DOMAIN call.todo : call.todo[i] \in kept
  /\ handle # None => handle.cx \in live

IInv == General /\ (Tame => Orderly)

-----------------------------------------------------------------------------
(* The operators on shells, hashes and magic.                              *)

LEMMA PoppedFacts ==
  ASSUME NEW m \in Seq(Shells), NEW G, IsFiniteSet(G)
  PROVE  /\ Popped(m, G) \in Seq(Shells)
         /\ G = {} => Popped(m, G) = m
         /\ \A g : G = {g} /\ Len(m) = 1 => Popped(m, G) = <<>>
         /\ m = <<>> => Popped(m, G) = <<>>
<1>1. Len(m) \in Nat /\ Cardinality(G) \in Nat
  BY LenProperties, FS_CardinalityType
<1>2. \A i \in 1 + Cardinality(G) .. Len(m) : m[i] \in Shells
  <2>1. \A i \in 1 + Cardinality(G) .. Len(m) : i \in 1 .. Len(m)
    BY <1>1
  <2>. QED BY <2>1, ElementOfSeq
<1>3. Popped(m, G) \in Seq(Shells)
  BY <1>1, <1>2, SubSeqProperties DEF Popped
<1>4. ASSUME G = {} PROVE Popped(m, G) = m
  <2>1. 1 + Cardinality(G) = 1
    BY <1>4, FS_EmptySet
  <2>. QED BY <2>1, SubSeqFull DEF Popped
<1>5. ASSUME Len(m) < 1 + Cardinality(G) PROVE Popped(m, G) = <<>>
  BY <1>1, <1>5, SubSeqEmpty DEF Popped
<1>6. ASSUME NEW g, G = {g}, Len(m) = 1 PROVE Popped(m, G) = <<>>
  <2>1. Cardinality(G) = 1
    BY <1>6, FS_Singleton
  <2>. QED BY <1>5, <1>6, <2>1
<1>7. ASSUME m = <<>> PROVE Popped(m, G) = <<>>
  <2>1. Len(m) = 0
    BY <1>7
  <2>. QED BY <1>1, <1>5, <2>1
<1>. QED BY <1>3, <1>4, <1>6, <1>7

LEMMA SubFinite == ASSUME NEW G \in SUBSET Shells PROVE IsFiniteSet(G)
BY FS_Subset, ShellsAssumption

\* The record of a shell that was unrooted, that is gone, and after both.
Less(r) == [r EXCEPT !.own = @ - 1]
Freed(r) == [r EXCEPT !.heap = "free", !.home = None, !.stored = FALSE]
Gone(r) == Less(Freed(r))

LEMMA RecordFacts ==
  ASSUME NEW r \in ShellRec, r.own \in {0, 1}
  PROVE  /\ Less(r) \in ShellRec /\ Freed(r) \in ShellRec /\ Gone(r) \in ShellRec
         /\ Less(r).heap = r.heap /\ Less(r).own = r.own - 1
         /\ Freed(r).own = r.own /\ Freed(r).of = r.of /\ Freed(r).alias = r.alias
         /\ Gone(r).heap = "free" /\ Gone(r).own = r.own - 1 /\ Gone(r).alias = r.alias
         /\ Gone(r).home = None
<1>1. ASSUME NEW x \in ShellRec, x.own \in {0, 1}
      PROVE  /\ Less(x) \in ShellRec /\ Less(x).heap = x.heap /\ Less(x).own = x.own - 1
             /\ Less(x).home = x.home /\ Less(x).alias = x.alias
  BY <1>1 DEF Less, ShellRec
<1>2. /\ Freed(r) \in ShellRec /\ Freed(r).heap = "free" /\ Freed(r).home = None
      /\ Freed(r).own = r.own /\ Freed(r).of = r.of /\ Freed(r).alias = r.alias
  BY DEF Freed, ShellRec
<1>. QED BY <1>1, <1>2 DEF Gone

\* The shells of S that show t.
Of(w, S, t) == {s \in S : OfRec(w.shell[s]) = t}

\* The shells of S own a reference less in v than in w; they are freed; the
\* records of them in context c are taken back.
Unrooted(w, v, S) ==
  \A s \in Shells : v.shell[s] = IF s \in S THEN Less(w.shell[s]) ELSE w.shell[s]

Reaped(w, v, S) ==
  \A s \in Shells : v.shell[s] = IF s \in S THEN Gone(w.shell[s]) ELSE w.shell[s]

Unrecorded(w, v, S, c) ==
  /\ \A d \in Contexts, t \in Things : v.visitors[d][t] =
       IF d = c /\ Of(w, S, t) # {} THEN None ELSE w.visitors[d][t]
  /\ \A d \in Contexts, t \in Things : v.magic[t][d] =
       IF d = c THEN Popped(w.magic[t][d], Of(w, S, t)) ELSE w.magic[t][d]

LEMMA DroppedIs ==
  ASSUME NEW w \in World, NEW S \in SUBSET Shells, NEW c \in Contexts \cup {None},
         \A s \in S : w.shell[s].own \in {0, 1}
  PROVE  /\ Dropped(w, S, c) \in World
         /\ Unrooted(w, Dropped(w, S, c), S)
         /\ Unrecorded(w, Dropped(w, S, c), S, c)
<1> DEFINE unrooted == [s \in Shells |-> IF s \in S THEN Less(w.shell[s]) ELSE w.shell[s]]
           gone == [w.visitors EXCEPT ![c] = [t \in Things |-> IF Of(w, S, t) = {} THEN @[t] ELSE None]]
           bare == [t \in Things |-> [w.magic[t] EXCEPT ![c] = Popped(@, Of(w, S, t))]]
<1>1. unrooted \in [Shells -> ShellRec]
  <2>1. \A s \in Shells : w.shell[s] \in ShellRec
    BY DEF World
  <2>. QED BY <2>1, RecordFacts
<1>2. CASE c = None
  <2>1. Dropped(w, S, c) = [w EXCEPT !.shell = unrooted] /\ c \notin Contexts
    BY <1>2, NoneAssumption DEF Dropped, Less
  <2>2. /\ Dropped(w, S, c).shell = unrooted /\ Dropped(w, S, c).visitors = w.visitors
        /\ Dropped(w, S, c).magic = w.magic /\ Dropped(w, S, c) \in World
    BY <1>1, <2>1 DEF World
  <2>3. Unrooted(w, Dropped(w, S, c), S)
    BY <2>2 DEF Unrooted
  <2>4. Unrecorded(w, Dropped(w, S, c), S, c)
    BY <1>2, <2>1, <2>2 DEF Unrecorded
  <2>. QED BY <2>2, <2>3, <2>4
<1>3. CASE c \in Contexts
  <2>1. c # None
    BY <1>3, NoneAssumption
  <2>2. Dropped(w, S, c) = [shell |-> unrooted, visitors |-> gone, magic |-> bare]
    BY <2>1 DEF Dropped, Of, Less
  <2>3. gone \in [Contexts -> [Things -> Shells \cup {None}]]
    BY <1>3 DEF World
  <2>4. \A t \in Things : Popped(w.magic[t][c], Of(w, S, t)) \in Seq(Shells)
    <3>1. ASSUME NEW t \in Things PROVE Popped(w.magic[t][c], Of(w, S, t)) \in Seq(Shells)
      <4>1. Of(w, S, t) \in SUBSET Shells /\ w.magic[t][c] \in Seq(Shells)
        BY <1>3 DEF Of, World
      <4>. QED BY <4>1, SubFinite, PoppedFacts
    <3>. QED BY <3>1
  <2>5. bare \in [Things -> [Contexts -> Seq(Shells)]]
    BY <2>4, <1>3 DEF World
  <2>6. Dropped(w, S, c) \in World
    BY <1>1, <2>2, <2>3, <2>5 DEF World
  <2>7. \A d \in Contexts, t \in Things :
          gone[d][t] = IF d = c /\ Of(w, S, t) # {} THEN None ELSE w.visitors[d][t]
    BY <1>3 DEF World
  <2>8. \A d \in Contexts, t \in Things :
          bare[t][d] = IF d = c THEN Popped(w.magic[t][d], Of(w, S, t)) ELSE w.magic[t][d]
    BY <1>3 DEF World
  <2> HIDE DEF unrooted, gone, bare
  <2>9. /\ Dropped(w, S, c).shell = unrooted /\ Dropped(w, S, c).visitors = gone
        /\ Dropped(w, S, c).magic = bare
    BY <2>2
  <2>10. Unrooted(w, Dropped(w, S, c), S)
    BY <2>9 DEF Unrooted, unrooted
  <2>11. Unrecorded(w, Dropped(w, S, c), S, c)
    BY <2>7, <2>8, <2>9 DEF Unrecorded
  <2>. QED BY <2>6, <2>10, <2>11
<1>. QED BY <1>2, <1>3

LEMMA FinalizedIs ==
  ASSUME NEW w, Owned(w), NEW S \in SUBSET Shells, NEW c \in Contexts \cup {None},
         \A s \in S : w.shell[s].heap = "used"
  PROVE  /\ Owned(Finalized(w, S, c))
         /\ Reaped(w, Finalized(w, S, c), S)
         /\ Unrecorded(w, Finalized(w, S, c), S, c)
<1> DEFINE v == Dead(w, S)
<1>1. w \in World /\ \A s \in S : w.shell[s] \in ShellRec /\ w.shell[s].own \in {0, 1}
  BY DEF Owned, World
<1>2. /\ v.visitors = w.visitors /\ v.magic = w.magic /\ v \in World
      /\ \A s \in Shells : v.shell[s] = IF s \in S THEN Freed(w.shell[s]) ELSE w.shell[s]
  <2> DEFINE sh == [s \in Shells |-> IF s \in S THEN Freed(w.shell[s]) ELSE w.shell[s]]
  <2>1. sh \in [Shells -> ShellRec]
    <3>1. \A s \in Shells : w.shell[s] \in ShellRec
      BY <1>1 DEF World
    <3>. QED BY <1>1, <3>1, RecordFacts
  <2>2. v = [w EXCEPT !.shell = sh]
    BY DEF Dead, Freed
  <2> HIDE DEF v, sh
  <2>3. v.visitors = w.visitors /\ v.magic = w.magic /\ v.shell = sh
    BY <1>1, <2>2 DEF World
  <2>4. v = [shell |-> sh, visitors |-> w.visitors, magic |-> w.magic]
    BY <1>1, <2>2 DEF World
  <2>5. v \in World
    BY <1>1, <2>1, <2>4 DEF World
  <2>. QED BY <2>3, <2>5 DEF sh
<1>3. \A s \in S : /\ v.shell[s].own \in {0, 1} /\ OfRec(v.shell[s]) = OfRec(w.shell[s])
                   /\ Less(v.shell[s]) = Gone(w.shell[s])
  <2>1. ASSUME NEW s \in S
        PROVE  /\ v.shell[s].own \in {0, 1} /\ OfRec(v.shell[s]) = OfRec(w.shell[s])
               /\ Less(v.shell[s]) = Gone(w.shell[s])
    <3>1. v.shell[s] = Freed(w.shell[s]) /\ w.shell[s] \in ShellRec /\ w.shell[s].own \in {0, 1}
      BY <1>1, <1>2
    <3>. QED BY <3>1, RecordFacts DEF OfRec, Gone
  <2>. QED BY <2>1
<1>4. \A t \in Things : Of(v, S, t) = Of(w, S, t)
  BY <1>3 DEF Of
<1> HIDE DEF v
<1>5. /\ Dropped(v, S, c) \in World
      /\ Unrooted(v, Dropped(v, S, c), S) /\ Unrecorded(v, Dropped(v, S, c), S, c)
  <2>1. \A s \in S : v.shell[s].own \in {0, 1}
    BY <1>3
  <2>. QED BY <1>2, <2>1, DroppedIs
<1>6. Finalized(w, S, c) = Dropped(v, S, c)
  BY DEF Finalized, v
<1>7. Reaped(w, Finalized(w, S, c), S)
  BY <1>2, <1>3, <1>5, <1>6 DEF Unrooted, Reaped
<1>8. Unrecorded(w, Finalized(w, S, c), S, c)
  BY <1>2, <1>4, <1>5, <1>6 DEF Unrecorded
<1>9. Owned(Finalized(w, S, c))
  <2>1. \A s \in S : Gone(w.shell[s]).heap = "free" /\ Gone(w.shell[s]).own \in {-1, 0}
    BY <1>1, RecordFacts
  <2>. QED BY <1>5, <1>6, <1>7, <2>1 DEF Owned, Reaped
<1>. QED BY <1>7, <1>8, <1>9

\* v is w with a new shell s for t in c.
Added(w, v, c, t, s, al) ==
  /\ \A x \in Shells : v.shell[x] =
       IF x = s THEN [heap |-> "used", home |-> c, of |-> t, own |-> 1, stored |-> FALSE, alias |-> al]
       ELSE w.shell[x]
  /\ \A d \in Contexts, u \in Things :
       v.visitors[d][u] = IF d = c /\ u = t THEN s ELSE w.visitors[d][u]
  /\ \A d \in Contexts, u \in Things :
       v.magic[u][d] = IF d = c /\ u = t THEN <<s>> \o w.magic[u][d] ELSE w.magic[u][d]

LEMMA CreatedIs ==
  ASSUME NEW w, Owned(w), NEW c \in Contexts, NEW t \in Things, NEW s \in Shells,
         NEW al \in BOOLEAN
  PROVE  /\ Owned(Created(w, c, t, s, al))
         /\ Added(w, Created(w, c, t, s, al), c, t, s, al)
<1> DEFINE rec == [heap |-> "used", home |-> c, of |-> t, own |-> 1, stored |-> FALSE, alias |-> al]
           sh == [w.shell EXCEPT ![s] = rec]
           vi == [w.visitors EXCEPT ![c][t] = s]
           ma == [w.magic EXCEPT ![t][c] = <<s>> \o @]
<1>1. Created(w, c, t, s, al) = [shell |-> sh, visitors |-> vi, magic |-> ma]
  BY DEF Created
<1>2. rec \in ShellRec /\ w \in World
  BY DEF ShellRec, Owned
<1>3. sh \in [Shells -> ShellRec] /\ \A x \in Shells : sh[x] = IF x = s THEN rec ELSE w.shell[x]
  BY <1>2 DEF World
<1>4. /\ vi \in [Contexts -> [Things -> Shells \cup {None}]]
      /\ \A d \in Contexts, u \in Things : vi[d][u] = IF d = c /\ u = t THEN s ELSE w.visitors[d][u]
  BY <1>2 DEF World
<1>5. <<s>> \o w.magic[t][c] \in Seq(Shells)
  <2>1. <<s>> \in Seq(Shells) /\ w.magic[t][c] \in Seq(Shells)
    BY <1>2 DEF World
  <2>. QED BY <2>1, ConcatProperties
<1>6. w.magic \in [Things -> [Contexts -> Seq(Shells)]]
  BY <1>2 DEF World
<1>7. /\ ma \in [Things -> [Contexts -> Seq(Shells)]]
      /\ \A d \in Contexts, u \in Things :
           ma[u][d] = IF d = c /\ u = t THEN <<s>> \o w.magic[u][d] ELSE w.magic[u][d]
  BY <1>5, <1>6
<1> HIDE DEF sh, vi, ma
<1>8. Created(w, c, t, s, al) \in World
  BY <1>1, <1>3, <1>4, <1>7 DEF World
<1>9. \A x \in Shells :
        /\ sh[x].heap = "used" => sh[x].own \in {0, 1}
        /\ sh[x].heap = "free" => sh[x].own \in {-1, 0}
  BY <1>3 DEF Owned
<1>10. /\ Created(w, c, t, s, al).shell = sh /\ Created(w, c, t, s, al).visitors = vi
       /\ Created(w, c, t, s, al).magic = ma
  BY <1>1
<1>11. Owned(Created(w, c, t, s, al))
  BY <1>8, <1>9, <1>10 DEF Owned
<1>12. Added(w, Created(w, c, t, s, al), c, t, s, al)
  BY <1>3, <1>4, <1>7, <1>10 DEF Added
<1>. QED BY <1>11, <1>12

\* v is w but for what is stored.
Same(w, v) ==
  /\ v \in World /\ v.visitors = w.visitors /\ v.magic = w.magic
  /\ \A s \in Shells :
       /\ v.shell[s].heap = w.shell[s].heap /\ v.shell[s].home = w.shell[s].home
       /\ v.shell[s].of = w.shell[s].of /\ v.shell[s].own = w.shell[s].own
       /\ v.shell[s].alias = w.shell[s].alias

LEMMA SameOwned == ASSUME NEW w, NEW v, Same(w, v), Owned(w) PROVE Owned(v)
BY DEF Same, Owned

\* The shells of K are stored from now on, or no longer.
LEMMA StoredIs ==
  ASSUME NEW w \in World, NEW K \in SUBSET Shells, NEW b \in BOOLEAN
  PROVE  Same(w, [w EXCEPT !.shell =
           [s \in Shells |-> IF s \in K THEN [@[s] EXCEPT !.stored = b] ELSE @[s]]])
<1> DEFINE sh == [s \in Shells |-> IF s \in K THEN [w.shell[s] EXCEPT !.stored = b] ELSE w.shell[s]]
           v == [w EXCEPT !.shell = sh]
<1>1. sh \in [Shells -> ShellRec] /\ \A s \in Shells :
        /\ sh[s].heap = w.shell[s].heap /\ sh[s].home = w.shell[s].home
        /\ sh[s].of = w.shell[s].of /\ sh[s].own = w.shell[s].own
        /\ sh[s].alias = w.shell[s].alias
  <2>1. ASSUME NEW r \in ShellRec
        PROVE  LET q == [r EXCEPT !.stored = b]
               IN  /\ q \in ShellRec /\ q.heap = r.heap /\ q.home = r.home /\ q.of = r.of
                   /\ q.own = r.own /\ q.alias = r.alias
    BY DEF ShellRec
  <2>2. \A s \in Shells : w.shell[s] \in ShellRec
    BY DEF World
  <2>. QED BY <2>1, <2>2
<1> HIDE DEF sh
<1>2. v = [shell |-> sh, visitors |-> w.visitors, magic |-> w.magic]
  BY DEF World
<1>3. Same(w, v)
  <2>1. v \in World
    BY <1>1, <1>2 DEF World
  <2>2. v.shell = sh /\ v.visitors = w.visitors /\ v.magic = w.magic
    BY <1>2
  <2> HIDE DEF v
  <2>. QED BY <1>1, <2>1, <2>2 DEF Same
<1>. QED BY <1>3 DEF sh

-----------------------------------------------------------------------------
(* The agreement of the records.                                           *)

LEMMA SameAgrees ==
  ASSUME NEW w, NEW v, Same(w, v), w \in World, NEW L, NEW K, Agree(w, L, K)
  PROVE  Agree(v, L, K)
<1>1. \A s \in Shells : ShellAgrees(v, L, s)
  BY DEF Agree, ShellAgrees, Same
<1>2. ASSUME NEW c \in Contexts, NEW t \in Things PROVE EntryAgrees(v, L, c, t)
  <2>1. EntryAgrees(w, L, c, t) /\ w.visitors[c][t] \in Shells \cup {None}
    BY DEF Agree, World
  <2>. QED BY <2>1 DEF EntryAgrees, Same
<1>3. \A t \in Things : Referred(v, K, t) => Referred(w, K, t)
  BY DEF Referred, Same
<1>4. \A c \in Contexts, t \in Things : v.magic[t][c] = w.magic[t][c] /\ Marks(v, c, t) = Marks(w, c, t)
  BY DEF Same, Marks
<1>. QED BY <1>1, <1>2, <1>3, <1>4 DEF Agree

LEMMA FewerAgrees ==
  ASSUME NEW w, NEW L, NEW K, Agree(w, L, K), NEW J \in SUBSET K
  PROVE  Agree(w, L, J)
BY DEF Agree, Referred

LEMMA AddedAgrees ==
  ASSUME NEW w, NEW v, NEW L \in SUBSET Contexts, NEW K, w \in World, Agree(w, L, K),
         NEW c \in L, NEW t \in Things, NEW s \in Shells,
         w.shell[s].heap # "used", w.visitors[c][t] = None,
         \A d \in Contexts : w.magic[t][d] = Marks(w, d, t), Added(w, v, c, t, s, FALSE)
  PROVE  Agree(v, L, K)
<1> DEFINE rec == [heap |-> "used", home |-> c, of |-> t, own |-> 1, stored |-> FALSE, alias |-> FALSE]
<1>1. /\ v.shell[s] = rec
      /\ \A x \in Shells : x # s => v.shell[x] = w.shell[x]
      /\ v.visitors[c][t] = s
      /\ \A d \in Contexts, u \in Things : ~(d = c /\ u = t) =>
           v.visitors[d][u] = w.visitors[d][u] /\ v.magic[u][d] = w.magic[u][d]
      /\ v.magic[t][c] = <<s>> \o w.magic[t][c]
  BY DEF Added
<1>2. \A x \in Shells : w.shell[x].home \in Contexts \cup {None} /\ w.shell[x].of \in Things
  BY DEF World, ShellRec
<1>3. ASSUME NEW x \in Shells PROVE ShellAgrees(v, L, x)
  <2>1. CASE x = s
    BY <1>1, <2>1 DEF ShellAgrees
  <2>2. CASE x # s
    <3>1. ShellAgrees(w, L, x) /\ v.shell[x] = w.shell[x]
      BY <1>1, <2>2 DEF Agree
    <3>2. CASE w.shell[x].heap # "used"
      BY <3>1, <3>2 DEF ShellAgrees
    <3>3. CASE w.shell[x].heap = "used"
      <4> DEFINE d == w.shell[x].home
                 u == w.shell[x].of
      <4>1. d \in L /\ w.visitors[d][u] = x
        BY <3>1, <3>3 DEF ShellAgrees
      <4>2. d \in Contexts /\ u \in Things /\ ~(d = c /\ u = t)
        BY <1>2, <2>2, <4>1, NoneAssumption
      <4>3. v.visitors[d][u] = x
        BY <1>1, <4>1, <4>2
      <4>. QED BY <3>1, <4>1, <4>3 DEF ShellAgrees
    <3>. QED BY <3>2, <3>3
  <2>. QED BY <2>1, <2>2
<1>4. ASSUME NEW d \in Contexts, NEW u \in Things PROVE EntryAgrees(v, L, d, u)
  <2>1. CASE d = c /\ u = t
    BY <1>1, <2>1 DEF EntryAgrees
  <2>2. CASE ~(d = c /\ u = t)
    <3>1. EntryAgrees(w, L, d, u) /\ v.visitors[d][u] = w.visitors[d][u]
      BY <1>1, <2>2 DEF Agree
    <3>2. w.visitors[d][u] \in Shells \cup {None}
      BY DEF World
    <3>3. w.visitors[d][u] # None => v.shell[w.visitors[d][u]] = w.shell[w.visitors[d][u]]
      BY <1>1, <3>1, <3>2 DEF EntryAgrees
    <3>. QED BY <3>1, <3>3 DEF EntryAgrees
  <2>. QED BY <2>1, <2>2
<1>5. ASSUME NEW d \in Contexts, NEW u \in Things, Referred(v, K, u)
      PROVE  v.magic[u][d] = Marks(v, d, u)
  <2>1. CASE d = c /\ u = t
    <3>1. w.magic[t][c] = <<>> /\ v.magic[t][c] = <<s>> \o <<>>
      BY <1>1 DEF Marks
    <3>2. <<s>> \in Seq(Shells)
      OBVIOUS
    <3>3. v.magic[t][c] = <<s>>
      BY <3>1, <3>2, ConcatEmptySeq
    <3>. QED BY <1>1, <2>1, <3>3, NoneAssumption DEF Marks
  <2>2. CASE ~(d = c /\ u = t)
    <3>1. v.magic[u][d] = w.magic[u][d] /\ Marks(v, d, u) = Marks(w, d, u)
      BY <1>1, <2>2 DEF Marks
    <3>2. CASE u = t
      BY <3>1, <3>2
    <3>3. CASE u # t
      <4>1. Referred(w, K, u)
        BY <1>1, <1>5, <3>3 DEF Referred
      <4>. QED BY <3>1, <4>1 DEF Agree
    <3>. QED BY <3>2, <3>3
  <2>. QED BY <2>1, <2>2
<1>. QED BY <1>3, <1>4, <1>5 DEF Agree

\* A thing that nothing refers to is in no record but its own old magic, which a
\* new thing at its place has not.
LEMMA RenewedAgrees ==
  ASSUME NEW w, NEW v, NEW L, NEW K, w \in World, Agree(w, L, K), NEW t \in Things,
         ~Referred(w, K, t), v.shell = w.shell, v.visitors = w.visitors,
         \A d \in Contexts : v.magic[t][d] = <<>>,
         \A u \in Things : u # t => v.magic[u] = w.magic[u]
  PROVE  /\ \A d \in Contexts : v.visitors[d][t] = None
         /\ \A J \in SUBSET (K \cup {t}) : Agree(v, L, J)
<1>1. ASSUME NEW d \in Contexts PROVE w.visitors[d][t] = None
  <2>1. EntryAgrees(w, L, d, t) /\ w.visitors[d][t] \in Shells \cup {None}
    BY DEF Agree, World
  <2>. QED BY <2>1 DEF EntryAgrees, Referred
<1>2. \A s \in Shells : ShellAgrees(v, L, s)
  BY DEF Agree, ShellAgrees
<1>3. \A d \in Contexts, u \in Things : EntryAgrees(v, L, d, u)
  BY DEF Agree, EntryAgrees
<1>4. ASSUME NEW J \in SUBSET (K \cup {t}), NEW d \in Contexts, NEW u \in Things, Referred(v, J, u)
      PROVE  v.magic[u][d] = Marks(v, d, u)
  <2>1. CASE u = t
    BY <1>1, <2>1 DEF Marks
  <2>2. CASE u # t
    <3>1. Referred(w, K, u)
      BY <1>4, <2>2 DEF Referred
    <3>. QED BY <2>2, <3>1 DEF Agree, Marks
  <2>. QED BY <2>1, <2>2
<1>. QED BY <1>1, <1>2, <1>3, <1>4 DEF Agree

LEMMA ReapedAgrees ==
  ASSUME NEW w, NEW v, NEW c \in Contexts, NEW K, w \in World, Agree(w, {c}, K),
         NEW S \in SUBSET Shells, \A s \in S : w.shell[s].heap = "used" /\ w.shell[s].own \in {0, 1},
         Reaped(w, v, S), Unrecorded(w, v, S, c)
  PROVE  Agree(v, {c}, K)
<1>1. \A s \in Shells : w.shell[s] \in ShellRec /\ OfRec(w.shell[s]) = w.shell[s].of
  BY DEF World, Agree, ShellAgrees, OfRec
<1>2. \A s \in S : /\ ~Gone(w.shell[s]).alias /\ Gone(w.shell[s]).own = 0
                   /\ Gone(w.shell[s]).heap = "free"
  BY <1>1, RecordFacts DEF Agree, ShellAgrees
<1>3. \A s \in Shells : w.shell[s].heap = "used" =>
        w.shell[s].home = c /\ w.shell[s].of \in Things /\ w.visitors[c][w.shell[s].of] = s
  BY <1>1 DEF Agree, ShellAgrees, ShellRec
<1>4. \A t \in Things : Of(w, S, t) # {} =>
        w.visitors[c][t] \in S /\ Of(w, S, t) = {w.visitors[c][t]}
  <2>1. ASSUME NEW t \in Things, NEW s \in Of(w, S, t)
        PROVE  s \in S /\ s = w.visitors[c][t]
    BY <1>1, <1>3 DEF Of
  <2>. QED BY <2>1
<1>5. ASSUME NEW s \in Shells PROVE ShellAgrees(v, {c}, s)
  <2>1. CASE s \in S
    <3>1. v.shell[s] = Gone(w.shell[s])
      BY <2>1 DEF Reaped
    <3>. QED BY <1>2, <2>1, <3>1 DEF ShellAgrees
  <2>2. CASE s \notin S
    <3>1. v.shell[s] = w.shell[s] /\ ShellAgrees(w, {c}, s)
      BY <2>2 DEF Reaped, Agree
    <3>2. CASE w.shell[s].heap # "used"
      BY <3>1, <3>2 DEF ShellAgrees
    <3>3. CASE w.shell[s].heap = "used"
      <4>1. Of(w, S, w.shell[s].of) = {}
        BY <1>3, <1>4, <2>2, <3>3
      <4>2. v.visitors[c][w.shell[s].of] = s
        BY <1>3, <3>3, <4>1 DEF Unrecorded
      <4>. QED BY <1>3, <3>1, <3>3, <4>2 DEF ShellAgrees
    <3>. QED BY <3>2, <3>3
  <2>. QED BY <2>1, <2>2
<1>6. ASSUME NEW d \in Contexts, NEW t \in Things, v.visitors[d][t] # None
      PROVE  /\ v.visitors[d][t] = w.visitors[d][t] /\ d = c /\ Of(w, S, t) = {}
             /\ w.visitors[d][t] \in Shells \ S
  <2>1. v.visitors[d][t] = w.visitors[d][t] /\ (d = c => Of(w, S, t) = {})
    BY <1>6 DEF Unrecorded
  <2>2. EntryAgrees(w, {c}, d, t) /\ w.visitors[d][t] \in Shells \cup {None}
    <3>1. EntryAgrees(w, {c}, d, t)
      BY DEF Agree
    <3>. QED BY <3>1 DEF World
  <2>3. /\ d = c /\ w.visitors[d][t] \in Shells /\ w.shell[w.visitors[d][t]].of = t
    BY <1>6, <2>1, <2>2 DEF EntryAgrees
  <2>. QED BY <1>1, <2>1, <2>3 DEF Of
<1>7. ASSUME NEW d \in Contexts, NEW t \in Things PROVE EntryAgrees(v, {c}, d, t)
  <2>1. CASE v.visitors[d][t] # None
    <3>1. /\ v.visitors[d][t] = w.visitors[d][t] /\ EntryAgrees(w, {c}, d, t)
          /\ v.shell[w.visitors[d][t]] = w.shell[w.visitors[d][t]]
      BY <1>6, <2>1 DEF Agree, Reaped
    <3>. QED BY <3>1 DEF EntryAgrees
  <2>2. CASE v.visitors[d][t] = None
    BY <2>2 DEF EntryAgrees
  <2>. QED BY <2>1, <2>2
<1>8. ASSUME NEW d \in Contexts, NEW t \in Things, Referred(v, K, t)
      PROVE  v.magic[t][d] = Marks(v, d, t)
  <2>1. Referred(w, K, t)
    BY <1>2, <1>8 DEF Referred, Reaped
  <2>2. w.magic[t][d] = Marks(w, d, t) /\ w.magic[t][d] \in Seq(Shells)
    BY <2>1 DEF Agree, World
  <2>3. Of(w, S, t) \in SUBSET Shells /\ IsFiniteSet(Of(w, S, t))
    <3>1. Of(w, S, t) \in SUBSET Shells
      BY DEF Of
    <3>. QED BY <3>1, SubFinite
  <2>4. CASE d = c /\ Of(w, S, t) # {}
    <3>1. w.visitors[d][t] # None /\ Of(w, S, t) = {w.visitors[d][t]}
      BY <1>4, <2>4, NoneAssumption
    <3>2. w.magic[t][d] = <<w.visitors[d][t]>> /\ Len(<<w.visitors[d][t]>>) = 1
      BY <2>2, <3>1 DEF Marks
    <3>3. Popped(w.magic[t][d], Of(w, S, t)) = <<>>
      BY <2>2, <2>3, <3>1, <3>2, PoppedFacts
    <3>. QED BY <2>4, <3>3 DEF Unrecorded, Marks
  <2>5. CASE d = c /\ Of(w, S, t) = {}
    <3>1. Popped(w.magic[t][d], Of(w, S, t)) = w.magic[t][d]
      BY <2>2, <2>3, <2>5, PoppedFacts
    <3>. QED BY <2>2, <2>5, <3>1 DEF Unrecorded, Marks
  <2>6. CASE d # c
    BY <2>2, <2>6 DEF Unrecorded, Marks
  <2>. QED BY <2>4, <2>5, <2>6
<1>. QED BY <1>5, <1>7, <1>8 DEF Agree

-----------------------------------------------------------------------------
(* What every program keeps.                                               *)

\* The part of TypeOK that is not about Land.
Others ==
  /\ program \in Programs
  /\ live \subseteq Contexts
  /\ newborn \in [Contexts -> Shells \cup {None}]
  /\ kept \subseteq Things /\ var \in Things \cup {None}
  /\ call = None \/ call \in Call
  /\ result = None \/ result \in [cx: Contexts, thing: Things, face: Shells]
  /\ handle = None \/ handle \in [cx: Contexts, thing: Things, face: Shells]

\* What General says of the land.
Sound ==
  /\ Owned(Land)
  /\ \A s \in Shells : shell[s].alias => var # None
  /\ live = {} => \A s \in Shells : ~Used(s)

LEMMA Lands == Land.shell = shell /\ Land.visitors = visitors /\ Land.magic = magic
BY DEF Land

LEMMA WorldIs ==
  Land \in World <=> /\ shell \in [Shells -> ShellRec]
                     /\ visitors \in [Contexts -> [Things -> Shells \cup {None}]]
                     /\ magic \in [Things -> [Contexts -> Seq(Shells)]]
BY DEF Land, World

LEMMA GeneralIs == General <=> Others /\ Sound /\ (call # None => call.cx \in live)
<1>1. TypeOK <=> Others /\ Land \in World
  BY WorldIs DEF TypeOK, Others
<1>2. Owned(Land) => Land \in World
  BY DEF Owned
<1>. QED BY <1>1, <1>2 DEF General, Sound

LEMMA Becoming == ASSUME NEW w, w \in World, Becomes(w) PROVE Land' = w
<1>1. w = [shell |-> w.shell, visitors |-> w.visitors, magic |-> w.magic]
  BY DEF World
<1>. QED BY <1>1 DEF Becomes, Land

LEMMA Itself == ASSUME NEW w \in World PROVE Same(w, w)
BY DEF Same

\* Of a used shell OfRec is a thing.
LEMMA Shown == ASSUME General, NEW s \in Shells PROVE OfRec(shell[s]) \in Things
<1>1. shell[s] \in ShellRec /\ (shell[s].alias => var # None) /\ var \in Things \cup {None}
  BY DEF General, TypeOK
<1>. QED BY <1>1 DEF OfRec, ShellRec

LEMMA SoundStays ==
  ASSUME Sound, UNCHANGED <<shell, visitors, magic, live>>, var # None => var' # None
  PROVE  Sound'
BY DEF Sound, Land, Used

LEMMA GrownSound ==
  ASSUME Sound, NEW w, Owned(w), w.shell = shell, NEW c \in Contexts, c \in live, NEW t \in Things,
         NEW s \in Shells, NEW al \in BOOLEAN, al => var # None,
         NEW v, Same(Created(w, c, t, s, al), v), Becomes(v), UNCHANGED <<live, var>>
  PROVE  Sound' /\ Land' = v
<1>1. Owned(Created(w, c, t, s, al)) /\ Added(w, Created(w, c, t, s, al), c, t, s, al)
  BY CreatedIs
<1>2. Owned(v)
  BY <1>1, SameOwned
<1>3. Land' = v
  BY <1>2, Becoming DEF Owned
<1>4. \A x \in Shells : shell'[x].alias => var' # None
  <2>1. shell' = v.shell
    BY DEF Becomes
  <2>2. \A x \in Shells : v.shell[x].alias = IF x = s THEN al ELSE shell[x].alias
    BY <1>1 DEF Same, Added
  <2>. QED BY <2>1, <2>2 DEF Sound
<1>. QED BY <1>2, <1>3, <1>4 DEF Sound

LEMMA ReapedSound ==
  ASSUME Sound, NEW w, Owned(w), \A s \in Shells : w.shell[s].alias => var # None,
         NEW c \in Contexts, c \in live, NEW S \in SUBSET Shells, S \subseteq Garbage(w, live),
         Becomes(Finalized(w, S, c)), UNCHANGED <<live, var>>
  PROVE  /\ Sound' /\ Land' = Finalized(w, S, c) /\ \A s \in S : w.shell[s].heap = "used"
         /\ Reaped(w, Land', S) /\ Unrecorded(w, Land', S, c)
<1>1. \A s \in S : w.shell[s].heap = "used"
  BY DEF Garbage
<1>2. /\ Owned(Finalized(w, S, c)) /\ Reaped(w, Finalized(w, S, c), S)
      /\ Unrecorded(w, Finalized(w, S, c), S, c)
  BY <1>1, FinalizedIs
<1>3. Land' = Finalized(w, S, c)
  BY <1>2, Becoming DEF Owned
<1>4. \A s \in Shells : shell'[s].alias => var' # None
  <2>1. \A s \in Shells : shell'[s] = IF s \in S THEN Gone(w.shell[s]) ELSE w.shell[s]
    BY <1>2 DEF Becomes, Reaped
  <2>2. \A s \in S : Gone(w.shell[s]).alias = w.shell[s].alias
    <3>1. \A s \in S : w.shell[s] \in ShellRec /\ w.shell[s].own \in {0, 1}
      BY <1>1 DEF Owned, World
    <3>. QED BY <3>1, RecordFacts
  <2>. QED BY <2>1, <2>2
<1>. QED BY <1>1, <1>2, <1>3, <1>4 DEF Sound

\* How a conversion of a reference changes the land, if it does.
LEMMA ReflectSound ==
  ASSUME Sound, Others, NEW c \in live, NEW t \in Things, NEW s \in Shells, NEW al \in BOOLEAN,
         al => var # None, Reflect(c, t, s, al), UNCHANGED <<live, var>>
  PROVE  /\ Sound' /\ newborn' \in [Contexts -> Shells \cup {None}]
         /\ result' \in [cx: Contexts, thing: Things, face: Shells]
         /\ \/ visitors[c][t] = s /\ UNCHANGED <<shell, visitors, magic>>
            \/ /\ visitors[c][t] = None /\ ~Used(s)
               /\ Land' = Created(Land, c, t, s, al) /\ Owned(Land)
<1>1. c \in Contexts /\ result' \in [cx: Contexts, thing: Things, face: Shells]
  BY DEF Others, Reflect
<1>2. CASE s \in Existing(c, t) /\ Becomes(Land) /\ UNCHANGED newborn
  <2>1. UNCHANGED <<shell, visitors, magic>> /\ visitors[c][t] = s
    BY <1>2, Lands DEF Becomes, Existing
  <2>. QED BY <1>1, <1>2, <2>1, SoundStays DEF Others
<1>3. CASE /\ Existing(c, t) = {} /\ s \in Vacant(c, t)
           /\ Becomes(Created(Land, c, t, s, al))
           /\ newborn' = [newborn EXCEPT ![c] = s]
  <2>1. Owned(Land) /\ Land \in World
    BY DEF Sound, Owned
  <2>2. visitors[c][t] = None /\ ~Used(s)
    <3>1. visitors[c][t] \in Shells \cup {None}
      BY <1>1, <2>1, WorldIs
    <3>. QED BY <1>3, <3>1 DEF Existing, Vacant
  <2>3. Owned(Created(Land, c, t, s, al))
    BY <1>1, <2>1, CreatedIs
  <2>4. Same(Created(Land, c, t, s, al), Created(Land, c, t, s, al))
    BY <2>3, Itself DEF Owned
  <2>5. Sound' /\ Land' = Created(Land, c, t, s, al)
    BY <1>1, <1>3, <2>1, <2>4, Lands, GrownSound
  <2>6. newborn' \in [Contexts -> Shells \cup {None}]
    BY <1>3 DEF Others
  <2>. QED BY <1>1, <2>1, <2>2, <2>5, <2>6
<1>. QED BY <1>2, <1>3 DEF Reflect

LEMMA GeneralNext ==
  ASSUME Others', Sound', (call # None => call.cx \in live)'
  PROVE  General'
<1>1. Land' \in World
  BY DEF Sound, Owned
<1>2. TypeOK'
  BY <1>1 DEF Land, World, TypeOK, Others
<1>. QED BY <1>2 DEF General, Sound

LEMMA ProgramFacts == ASSUME Others PROVE program \in Program /\ program.args \in Nat
BY ProgramsAssumption DEF Others, Program

LEMMA GeneralInit == Init => General
<1> SUFFICES ASSUME Init PROVE General
  OBVIOUS
<1>1. (CHOOSE t \in Things : TRUE) \in Things
  BY ThingsAssumption
<1>2. /\ shell \in [Shells -> ShellRec] /\ visitors \in [Contexts -> [Things -> Shells \cup {None}]]
      /\ magic \in [Things -> [Contexts -> Seq(Shells)]]
      /\ \A s \in Shells : shell[s].heap = "free" /\ shell[s].own = 0 /\ ~shell[s].alias
  BY <1>1 DEF Init, ShellRec
<1>3. Owned(Land)
  BY <1>2, WorldIs, Lands DEF Owned
<1>4. program.undef \in Things \cup {None} /\ program \in Programs
  BY ProgramsAssumption DEF Init, Program
<1>5. Others
  BY <1>4 DEF Init, Others
<1>6. Sound
  BY <1>2, <1>3 DEF Sound, Used
<1>. QED BY <1>5, <1>6, GeneralIs DEF Init

-----------------------------------------------------------------------------
(* What the destruction of a context leaves.                               *)

\* The things whose magic Bare takes a piece off, by their shells.
Named(c, t) == {u \in Things : \E s \in Existing(c, u) : OfRec(shell[s]) = t}

LEMMA NamedFinite == ASSUME NEW c, NEW t PROVE IsFiniteSet(Named(c, t))
<1>1. Named(c, t) \in SUBSET Things
  BY DEF Named
<1>. QED BY <1>1, FS_Subset, ThingsAssumption

LEMMA BareIs ==
  ASSUME Owned(Land), NEW c \in Contexts
  PROVE  /\ Owned(Bare(c)) /\ Bare(c).shell = shell /\ Bare(c).visitors = visitors
         /\ \A t \in Things, d \in Contexts : Bare(c).magic[t][d] =
              IF d = c THEN Popped(magic[t][d], Named(c, t)) ELSE magic[t][d]
<1> DEFINE ma == [t \in Things |-> [magic[t] EXCEPT ![c] = Popped(@, Named(c, t))]]
<1>1. Land \in World /\ magic \in [Things -> [Contexts -> Seq(Shells)]]
  BY WorldIs DEF Owned
<1>2. ma \in [Things -> [Contexts -> Seq(Shells)]]
  <2>1. \A t \in Things : Popped(magic[t][c], Named(c, t)) \in Seq(Shells)
    BY <1>1, NamedFinite, PoppedFacts
  <2>. QED BY <1>1, <2>1
<1>3. \A t \in Things, d \in Contexts :
        ma[t][d] = IF d = c THEN Popped(magic[t][d], Named(c, t)) ELSE magic[t][d]
  BY <1>1
<1>4. Bare(c) = [Land EXCEPT !.magic = ma]
  BY DEF Bare, Named
<1> HIDE DEF ma
<1>5. Bare(c) = [shell |-> shell, visitors |-> visitors, magic |-> ma]
  BY <1>4 DEF Land
<1>6. Owned(Bare(c))
  <2>1. Bare(c) \in World
    BY <1>1, <1>2, <1>5, WorldIs DEF World
  <2>. QED BY <1>5, <2>1, Lands DEF Owned
<1>. QED BY <1>3, <1>5, <1>6

\* What a step leaves of w that destroys c and finalizes A and B.
Left(w, c, L, A, B) ==
  /\ \A s \in A \cup B : w.shell[s].heap = "used"
  /\ L = {} => \A s \in Shells : w.shell[s].heap = "used" => s \in A \cup B
  /\ \A s \in Shells :
       /\ shell'[s].heap = IF s \in A \cup B THEN "free" ELSE w.shell[s].heap
       /\ shell'[s].own = IF s \in A \cup B THEN w.shell[s].own - 1 ELSE w.shell[s].own
       /\ shell'[s].alias = w.shell[s].alias
  /\ \A d \in Contexts, t \in Things :
       visitors'[d][t] = IF d = c THEN None ELSE w.visitors[d][t]
  /\ \A d \in Contexts, t \in Things :
       magic'[t][d] = IF d = c THEN Popped(w.magic[t][d], Of(w, A, t)) ELSE w.magic[t][d]

LEMMA DestroyedIs ==
  ASSUME NEW w, Owned(w), NEW c \in Contexts, NEW L, NEW A \in SUBSET Shells, NEW B \in SUBSET Shells,
         Destroyed(w, c, L, A, B)
  PROVE  Owned(Land') /\ Left(w, c, L, A, B)
<1> DEFINE w1 == Finalized(w, A, c)
           w2 == Finalized(w1, B, None)
           sh == [s \in Shells |-> IF w2.shell[s].home = c THEN [w2.shell[s] EXCEPT !.home = None]
                                   ELSE w2.shell[s]]
           vi == [w2.visitors EXCEPT ![c] = [t \in Things |-> None]]
<1>1. /\ A \cup B \subseteq Garbage(w, L) /\ A \cap B = {}
      /\ L = {} => \A s \in Shells : w.shell[s].heap = "used" => s \in A \cup B
      /\ \A s \in A \cup B : w.shell[s].heap = "used"
  <2>1. L = {} => A \cup B = Garbage(w, {})
    BY DEF Destroyed
  <2>2. Garbage(w, {}) = {s \in Shells : w.shell[s].heap = "used"}
    BY DEF Garbage
  <2>3. A \cup B \subseteq Garbage(w, L) /\ A \cap B = {}
    BY DEF Destroyed
  <2>. QED BY <2>1, <2>2, <2>3 DEF Garbage
<1>2. Owned(w1) /\ Reaped(w, w1, A) /\ Unrecorded(w, w1, A, c)
  BY <1>1, FinalizedIs
<1>3. \A s \in B : w1.shell[s] = w.shell[s]
  BY <1>1, <1>2 DEF Reaped
<1>4. Owned(w2) /\ Reaped(w1, w2, B) /\ Unrecorded(w1, w2, B, None)
  <2>1. \A s \in B : w1.shell[s].heap = "used"
    BY <1>1, <1>3
  <2> HIDE DEF w1
  <2>. QED BY <1>2, <2>1, FinalizedIs
<1>5. /\ shell' = sh /\ visitors' = vi /\ magic' = w2.magic
  BY DEF Destroyed
<1> HIDE DEF w1, w2
<1>6. \A s \in Shells : /\ w.shell[s] \in ShellRec /\ w2.shell[s] \in ShellRec
                        /\ (s \in A \cup B => w.shell[s].own \in {0, 1})
  BY <1>1, <1>4 DEF Owned, World
<1>7. \A s \in Shells : w2.shell[s] = IF s \in A \cup B THEN Gone(w.shell[s]) ELSE w.shell[s]
  BY <1>1, <1>2, <1>3, <1>4 DEF Reaped
<1>8. \A s \in Shells : /\ sh[s] \in ShellRec /\ sh[s].heap = w2.shell[s].heap
                        /\ sh[s].own = w2.shell[s].own /\ sh[s].alias = w2.shell[s].alias
  <2>1. ASSUME NEW r \in ShellRec
        PROVE  LET q == [r EXCEPT !.home = None]
               IN  q \in ShellRec /\ q.heap = r.heap /\ q.own = r.own /\ q.alias = r.alias
    BY DEF ShellRec
  <2>. QED BY <1>6, <2>1
<1>9. sh \in [Shells -> ShellRec]
  BY <1>8
<1> HIDE DEF sh
<1>10. \A s \in Shells :
         /\ shell'[s].heap = IF s \in A \cup B THEN "free" ELSE w.shell[s].heap
         /\ shell'[s].own = IF s \in A \cup B THEN w.shell[s].own - 1 ELSE w.shell[s].own
         /\ shell'[s].alias = w.shell[s].alias
  BY <1>5, <1>6, <1>7, <1>8, RecordFacts
<1>11. \A d \in Contexts, t \in Things :
         visitors'[d][t] = IF d = c THEN None ELSE w.visitors[d][t]
  <2>1. \A d \in Contexts, t \in Things : vi[d][t] = IF d = c THEN None ELSE w2.visitors[d][t]
    BY <1>4 DEF Owned, World
  <2>. QED BY <1>2, <1>4, <1>5, <2>1, NoneAssumption DEF Unrecorded
<1>12. \A d \in Contexts, t \in Things :
         magic'[t][d] = IF d = c THEN Popped(w.magic[t][d], Of(w, A, t)) ELSE w.magic[t][d]
  BY <1>2, <1>4, <1>5, NoneAssumption DEF Unrecorded
<1>13. Owned(Land')
  <2>1. vi \in [Contexts -> [Things -> Shells \cup {None}]]
    BY <1>4 DEF Owned, World
  <2>2. Land' = [shell |-> sh, visitors |-> vi, magic |-> w2.magic]
    BY <1>5 DEF Land
  <2>3. Land' \in World
    BY <1>4, <1>9, <2>1, <2>2 DEF Owned, World
  <2>. QED BY <1>4, <1>8, <2>2, <2>3 DEF Owned
<1>14. Left(w, c, L, A, B)
  BY <1>1, <1>10, <1>11, <1>12 DEF Left
<1>. QED BY <1>13, <1>14

\* The lands that Invoke, Forget, Bind and Make start from.
Stored(K) ==
  [Land EXCEPT !.shell = [s \in Shells |-> IF s \in K THEN [@[s] EXCEPT !.stored = TRUE] ELSE @[s]]]
Unstored(s) == [Land EXCEPT !.shell[s].stored = FALSE]
Renewed(t) == [Land EXCEPT !.magic[t] = [d \in Contexts |-> <<>>]]

LEMMA StoredSame ==
  ASSUME NEW w \in World, NEW x \in Shells, NEW b \in BOOLEAN
  PROVE  Same(w, [w EXCEPT !.shell[x].stored = b])
<1> DEFINE q == [w.shell[x] EXCEPT !.stored = b]
           sh == [w.shell EXCEPT ![x] = q]
           v == [w EXCEPT !.shell[x].stored = b]
<1>1. /\ q \in ShellRec /\ q.heap = w.shell[x].heap /\ q.home = w.shell[x].home
      /\ q.of = w.shell[x].of /\ q.own = w.shell[x].own /\ q.alias = w.shell[x].alias
  <2>1. ASSUME NEW r \in ShellRec
        PROVE  LET p == [r EXCEPT !.stored = b]
               IN  /\ p \in ShellRec /\ p.heap = r.heap /\ p.home = r.home /\ p.of = r.of
                   /\ p.own = r.own /\ p.alias = r.alias
    BY DEF ShellRec
  <2>2. w.shell[x] \in ShellRec
    BY DEF World
  <2>. QED BY <2>1, <2>2
<1>2. v = [w EXCEPT !.shell = sh]
  OBVIOUS
<1> HIDE DEF q, v
<1>3. /\ sh \in [Shells -> ShellRec]
      /\ \A s \in Shells : sh[s] = IF s = x THEN q ELSE w.shell[s]
  BY <1>1 DEF World
<1> HIDE DEF sh
<1>4. v \in World /\ v.shell = sh /\ v.visitors = w.visitors /\ v.magic = w.magic
  BY <1>2, <1>3 DEF World
<1>5. Same(w, v)
  BY <1>1, <1>3, <1>4 DEF Same
<1>. QED BY <1>5 DEF v

LEMMA UnstoredIs ==
  ASSUME Land \in World, NEW s \in Shells
  PROVE  Same(Land, Unstored(s))
BY StoredSame DEF Unstored

LEMMA BoundSame ==
  ASSUME Land \in World, NEW s \in Shells, shell' = [shell EXCEPT ![s].stored = TRUE],
         UNCHANGED <<visitors, magic>>
  PROVE  Same(Land, Land')
<1>1. Same(Land, [Land EXCEPT !.shell[s].stored = TRUE])
  BY StoredSame
<1>2. [Land EXCEPT !.shell[s].stored = TRUE] =
        [Land EXCEPT !.shell = [Land.shell EXCEPT ![s].stored = TRUE]]
  OBVIOUS
<1>3. [Land EXCEPT !.shell = [Land.shell EXCEPT ![s].stored = TRUE]] = Land'
  <2> DEFINE sh == [shell EXCEPT ![s].stored = TRUE]
  <2>1. Land.shell = shell /\ shell' = sh
    BY DEF Land
  <2> HIDE DEF sh
  <2>2. [Land EXCEPT !.shell = sh] = [shell |-> sh, visitors |-> visitors, magic |-> magic]
    BY DEF Land
  <2>3. Land' = [shell |-> sh, visitors |-> visitors, magic |-> magic]
    BY <2>1 DEF Land
  <2>. QED BY <2>1, <2>2, <2>3 DEF sh
<1>. QED BY <1>1, <1>2, <1>3

LEMMA RenewedIs ==
  ASSUME Owned(Land), NEW t \in Things
  PROVE  /\ Owned(Renewed(t)) /\ Renewed(t).shell = shell /\ Renewed(t).visitors = visitors
         /\ \A d \in Contexts : Renewed(t).magic[t][d] = <<>>
         /\ \A u \in Things : u # t => Renewed(t).magic[u] = magic[u]
<1> DEFINE ma == [magic EXCEPT ![t] = [d \in Contexts |-> <<>>]]
<1>1. Land \in World /\ magic \in [Things -> [Contexts -> Seq(Shells)]]
  BY WorldIs DEF Owned
<1>2. Renewed(t) = [shell |-> shell, visitors |-> visitors, magic |-> ma]
  BY DEF Renewed, Land
<1>3. ma \in [Things -> [Contexts -> Seq(Shells)]]
  BY <1>1
<1>4. Renewed(t) \in World
  BY <1>1, <1>2, <1>3, WorldIs DEF World
<1>5. Owned(Renewed(t))
  BY <1>2, <1>4, Lands DEF Owned
<1>. QED BY <1>1, <1>2, <1>5

LEMMA SameSound ==
  ASSUME Sound, Same(Land, Land'), UNCHANGED <<live, var>>
  PROVE  Sound'
<1>1. Owned(Land')
  BY SameOwned DEF Sound
<1>2. \A s \in Shells : shell'[s].alias = shell[s].alias /\ shell'[s].heap = shell[s].heap
  BY DEF Same, Land
<1>. QED BY <1>1, <1>2 DEF Sound, Used

LEMMA SameReaped ==
  ASSUME Sound, NEW w, Same(Land, w), NEW c \in Contexts, c \in live, UNCHANGED <<live, var>>,
         \E S \in SUBSET Garbage(w, live) : Becomes(Finalized(w, S, c))
  PROVE  /\ Sound' /\ Owned(w)
         /\ \E S \in SUBSET Shells :
              /\ \A s \in S : w.shell[s].heap = "used"
              /\ Reaped(w, Land', S) /\ Unrecorded(w, Land', S, c)
<1>1. PICK S \in SUBSET Garbage(w, live) : Becomes(Finalized(w, S, c))
  OBVIOUS
<1>2. S \in SUBSET Shells /\ S \subseteq Garbage(w, live)
  BY DEF Garbage
<1>3. Owned(w) /\ \A s \in Shells : w.shell[s].alias => var # None
  BY SameOwned, Lands DEF Sound, Same
<1>. QED BY <1>1, <1>2, <1>3, ReapedSound


LEMMA GeneralStep == General /\ [Next]_vars => General'
<1> SUFFICES ASSUME General, [Next]_vars PROVE General'
  OBVIOUS
<1>0. /\ Others /\ Sound /\ (call # None => call.cx \in live)
      /\ Owned(Land) /\ Land \in World
      /\ program \in Program /\ program.args \in Nat
  BY GeneralIs, ProgramFacts DEF Sound, Owned
<1>1. CASE UNCHANGED vars
  BY <1>1, <1>0, SoundStays, GeneralNext DEF vars, Others
<1>2. ASSUME NEW c \in Contexts, NewContext(c) PROVE General'
  <2>1. Sound'
    BY <1>0, <1>2 DEF NewContext, Sound, Land, Used
  <2>2. Others' /\ (call # None => call.cx \in live)'
    BY <1>0, <1>2 DEF NewContext, Others
  <2>. QED BY <2>1, <2>2, GeneralNext
<1>3. ASSUME NEW c \in Contexts, NEW n \in 0 .. program.args, NEW todo \in [1 .. n -> kept],
             StartCall(c, todo)
      PROVE  General'
  <2>1. todo \in Seq(Things) /\ <<>> \in Seq(Things \X Shells)
    <3>1. n \in Nat /\ todo \in [1 .. n -> Things]
      BY <1>0, <1>3 DEF Others
    <3>. QED BY <3>1, SeqDef
  <2>2. Others' /\ (call # None => call.cx \in live)'
    BY <1>0, <1>3, <2>1 DEF StartCall, Others, Call
  <2>. QED BY <1>0, <1>3, <2>2, SoundStays, GeneralNext DEF StartCall
<1>4. ASSUME NEW c \in Contexts, NEW S \in SUBSET Garbage(Land, live), GC(c, S)
      PROVE  General'
  <2>1. S \in SUBSET Shells
    BY DEF Garbage
  <2>2. Sound'
    BY <1>0, <1>4, <2>1, Lands, ReapedSound DEF GC, Sound
  <2>3. Others' /\ (call # None => call.cx \in live)'
    BY <1>0, <1>4 DEF GC, Others
  <2>. QED BY <2>2, <2>3, GeneralNext
<1>6. ASSUME NEW t \in Things, NewThing(t) PROVE General'
  <2>1. Land' = [shell |-> shell, visitors |-> visitors, magic |-> magic']
    BY <1>6 DEF NewThing, Land
  <2>2. magic' \in [Things -> [Contexts -> Seq(Shells)]]
    BY <1>0, <1>6, WorldIs DEF NewThing
  <2>3. Owned(Land')
    <3>1. Land' \in World
      BY <1>0, <2>1, <2>2, WorldIs DEF World
    <3>. QED BY <1>0, <2>1, <3>1, Lands DEF Owned
  <2>4. Sound'
    BY <1>0, <1>6, <2>3 DEF NewThing, Sound, Used
  <2>5. Others' /\ (call # None => call.cx \in live)'
    BY <1>0, <1>6 DEF NewThing, Others
  <2>. QED BY <2>4, <2>5, GeneralNext
<1>7. ASSUME NEW t \in Things, DropThing(t) PROVE General'
  <2>1. Others' /\ (call # None => call.cx \in live)'
    BY <1>0, <1>7 DEF DropThing, Others
  <2>. QED BY <1>0, <1>7, <2>1, SoundStays, GeneralNext DEF DropThing
<1>8. ASSUME NEW t \in Things, AssignVar(t) PROVE General'
  <2>1. Others' /\ (call # None => call.cx \in live)' /\ var' # None
    BY <1>0, <1>8, NoneAssumption DEF AssignVar, Others
  <2>. QED BY <1>0, <1>8, <2>1, SoundStays, GeneralNext DEF AssignVar
<1>9. ASSUME NEW s \in Shells, Convert(s) PROVE General'
  <2> DEFINE t == Head(call.todo)
  <2>1. call \in Call /\ call.cx \in live /\ t \in Things /\ Tail(call.todo) \in Seq(Things)
    <3>1. call \in Call /\ call.cx \in live /\ call.todo # <<>>
      BY <1>0, <1>9 DEF Convert, Others
    <3>2. call.todo \in Seq(Things)
      BY <3>1 DEF Call
    <3>. QED BY <3>1, <3>2, HeadTailProperties
  <2>2. /\ Reflect(call.cx, t, s, FALSE) /\ UNCHANGED <<live, var, kept, program, handle>>
        /\ call' = [call EXCEPT !.todo = Tail(@), !.args = Append(@, <<t, s>>)]
    BY <1>9 DEF Convert
  <2>3. Append(call.args, <<t, s>>) \in Seq(Things \X Shells)
    <3>1. call.args \in Seq(Things \X Shells) /\ <<t, s>> \in Things \X Shells
      BY <2>1 DEF Call
    <3>. QED BY <3>1, AppendProperties
  <2>4. call' \in Call /\ call'.cx = call.cx
    BY <2>1, <2>2, <2>3 DEF Call
  <2> HIDE DEF t
  <2>5. /\ Sound' /\ newborn' \in [Contexts -> Shells \cup {None}]
        /\ result' \in [cx: Contexts, thing: Things, face: Shells]
    BY <1>0, <2>1, <2>2, ReflectSound
  <2>. QED BY <1>0, <2>1, <2>2, <2>4, <2>5, GeneralNext DEF Others
<1>11. ASSUME NEW s \in Shells, GiveBack(s) PROVE General'
  <2>1. OfRec(shell[s]) \in Things
    BY Shown
  <2>2. Others' /\ (call # None => call.cx \in live)'
    BY <1>0, <1>11, <2>1 DEF GiveBack, Others
  <2>. QED BY <1>0, <1>11, <2>2, SoundStays, GeneralNext DEF GiveBack
<1>12. ASSUME NEW c \in Contexts, NEW s \in Shells, ReadVar(c, s) PROVE General'
  <2>1. c \in live /\ var \in Things /\ var # None /\ Reflect(c, var, s, TRUE)
    BY <1>0, <1>12 DEF ReadVar, Others
  <2>2. /\ Sound' /\ newborn' \in [Contexts -> Shells \cup {None}]
        /\ result' \in [cx: Contexts, thing: Things, face: Shells]
    BY <1>0, <1>12, <2>1, ReflectSound DEF ReadVar
  <2>. QED BY <1>0, <1>12, <2>2, GeneralNext DEF ReadVar, Others
<1>14. ASSUME NEW c \in Contexts, NEW s \in Shells, MakeFails(c, s) PROVE General'
  <2> DEFINE rec == [heap |-> "used", home |-> c, of |-> program.undef,
                     own |-> 1, stored |-> FALSE, alias |-> FALSE]
  <2>1. rec \in ShellRec /\ rec.heap = "used" /\ rec.own = 1 /\ ~rec.alias
    BY <1>0, <1>14 DEF MakeFails, ShellRec, Program
  <2> HIDE DEF rec
  <2>2. shell' = [shell EXCEPT ![s] = rec] /\ shell \in [Shells -> ShellRec]
    BY <1>0, <1>14, WorldIs DEF MakeFails, rec
  <2>3. Land' = [shell |-> shell', visitors |-> visitors, magic |-> magic]
    BY <1>14 DEF MakeFails, Land
  <2>4. Land' \in World
    BY <1>0, <2>1, <2>2, <2>3, WorldIs DEF World
  <2>5. Owned(Land')
    BY <1>0, <2>1, <2>2, <2>3, <2>4, Lands DEF Owned
  <2>6. Sound'
    BY <1>0, <1>14, <2>1, <2>2, <2>5 DEF MakeFails, Sound
  <2>7. Others' /\ (call # None => call.cx \in live)'
    BY <1>0, <1>14 DEF MakeFails, Others
  <2>. QED BY <2>6, <2>7, GeneralNext
<1>18. ASSUME NEW c \in Contexts, NEW t \in Things, TakeHandle(c, t) PROVE General'
  <2>1. Head(magic[t][c]) \in Shells
    <3>1. magic[t][c] \in Seq(Shells) /\ magic[t][c] # <<>>
      BY <1>0, <1>18, WorldIs DEF TakeHandle
    <3>. QED BY <3>1, HeadTailProperties
  <2>2. Others' /\ (call # None => call.cx \in live)'
    BY <1>0, <1>18, <2>1 DEF TakeHandle, Others
  <2>. QED BY <1>0, <1>18, <2>2, SoundStays, GeneralNext DEF TakeHandle
<1>5. ASSUME NEW c \in Contexts, NEW A \in SUBSET Shells, NEW B \in SUBSET Shells,
             DestroyContext(c, A, B)
      PROVE  General'
  <2> DEFINE w == Bare(c)
             L == live \ {c}
  <2>1. Owned(w) /\ w.shell = shell
    BY <1>0, BareIs
  <2>2. Destroyed(w, c, L, A, B) /\ call = None /\ live' = L /\ UNCHANGED <<var, call>>
    BY <1>5 DEF DestroyContext
  <2> HIDE DEF w
  <2>4. Owned(Land') /\ Left(w, c, L, A, B)
    BY <2>1, <2>2, DestroyedIs
  <2>5. Sound'
    <3>1. \A s \in Shells : shell'[s].alias => var' # None
      BY <1>0, <2>1, <2>2, <2>4 DEF Sound, Left
    <3>2. live' = {} => \A s \in Shells : shell'[s].heap # "used"
      BY <2>2, <2>4 DEF Left
    <3>. QED BY <2>4, <3>1, <3>2 DEF Sound, Used
  <2>6. Others' /\ (call # None => call.cx \in live)'
    BY <1>0, <1>5 DEF DestroyContext, Others
  <2>. QED BY <2>5, <2>6, GeneralNext
<1>10. ASSUME NEW s \in Shells, ConvertFails(s) PROVE General'
  <2> DEFINE c == call.cx
             t == Head(call.todo)
             w == Created(Land, c, t, s, FALSE)
             v == Dropped(w, {s}, c)
  <2>1. c \in Contexts /\ c \in live /\ t \in Things
    <3>1. call \in Call /\ call.cx \in live /\ call.todo # <<>>
      BY <1>0, <1>10 DEF ConvertFails, Others
    <3>2. call.todo \in Seq(Things)
      BY <3>1 DEF Call
    <3>. QED BY <1>0, <3>1, <3>2, HeadTailProperties DEF Others
  <2>2. Becomes(v) /\ newborn' = [newborn EXCEPT ![c] = s]
    BY <1>10 DEF ConvertFails
  <2> HIDE DEF c, t
  <2>3. Owned(w) /\ Added(Land, w, c, t, s, FALSE)
    BY <1>0, <2>1, CreatedIs
  <2>4. /\ w.shell[s].heap = "used" /\ w.shell[s].own = 1 /\ ~w.shell[s].alias
        /\ \A x \in Shells : x # s => w.shell[x] = shell[x]
    <3>1. w.shell[s] = [heap |-> "used", home |-> c, of |-> t, own |-> 1, stored |-> FALSE,
                        alias |-> FALSE]
      BY <2>3 DEF Added
    <3>2. \A x \in Shells : x # s => w.shell[x] = shell[x]
      BY <2>3, Lands DEF Added
    <3> HIDE DEF w
    <3>. QED BY <3>1, <3>2
  <2> HIDE DEF w
  <2>5. v \in World /\ Unrooted(w, v, {s})
    <3>1. w \in World /\ \A x \in {s} : w.shell[x].own \in {0, 1}
      BY <2>3, <2>4 DEF Owned
    <3>. QED BY <2>1, <3>1, DroppedIs
  <2> HIDE DEF v
  <2>6. Land' = v
    BY <2>2, <2>5, Becoming
  <2>7. \A x \in Shells : x # s => v.shell[x] = shell[x]
    BY <2>4, <2>5 DEF Unrooted
  <2>8. v.shell[s].heap = "used" /\ v.shell[s].own = 0
    <3>1. v.shell[s] = Less(w.shell[s]) /\ w.shell[s] \in ShellRec
      BY <2>3, <2>5 DEF Unrooted, Owned, World
    <3>. QED BY <2>4, <3>1, RecordFacts
  <2>9. ~v.shell[s].alias
    <3>1. v.shell[s] = Less(w.shell[s]) /\ w.shell[s] \in ShellRec
      BY <2>3, <2>5 DEF Unrooted, Owned, World
    <3>2. Less(w.shell[s]).alias = w.shell[s].alias
      BY <3>1 DEF Less, ShellRec
    <3>. QED BY <2>4, <3>1, <3>2
  <2>10. Owned(Land')
    <3>1. \A x \in Shells : x # s => /\ v.shell[x].heap = "used" => v.shell[x].own \in {0, 1}
                                     /\ v.shell[x].heap = "free" => v.shell[x].own \in {-1, 0}
      BY <1>0, <2>7, Lands DEF Owned
    <3>. QED BY <2>5, <2>6, <2>8, <3>1 DEF Owned
  <2>11. Sound'
    <3>1. shell' = v.shell /\ UNCHANGED <<live, var>>
      BY <1>10, <2>2 DEF Becomes, ConvertFails
    <3>2. \A x \in Shells : shell'[x].alias => var' # None
      BY <1>0, <2>7, <2>9, <3>1 DEF Sound
    <3>. QED BY <2>1, <2>10, <3>1, <3>2 DEF Sound
  <2>12. Others' /\ (call # None => call.cx \in live)'
    BY <1>0, <1>10, <2>2 DEF ConvertFails, Others
  <2>. QED BY <2>11, <2>12, GeneralNext
<1>13. ASSUME NEW c \in Contexts, NEW s \in Shells, Forget(c, s) PROVE General'
  <2>1. /\ Same(Land, Unstored(s)) /\ c \in live /\ UNCHANGED <<live, var>>
        /\ \E S \in SUBSET Garbage(Unstored(s), live) : Becomes(Finalized(Unstored(s), S, c))
    BY <1>0, <1>13, UnstoredIs DEF Forget, Unstored
  <2>2. Sound'
    BY <1>0, <2>1, SameReaped
  <2>3. Others' /\ (call # None => call.cx \in live)'
    BY <1>0, <1>13 DEF Forget, Others
  <2>. QED BY <2>2, <2>3, GeneralNext
<1>15. ASSUME NEW c \in Contexts, NEW t \in Things, NEW s \in Shells, Bind(c, t, s) PROVE General'
  <2>1. Others' /\ (call # None => call.cx \in live)'
    BY <1>0, <1>15 DEF Bind, Others
  <2>2. CASE /\ s \in Existing(c, t)
             /\ shell' = [shell EXCEPT ![s].stored = TRUE]
             /\ UNCHANGED <<visitors, magic, newborn>>
    <3>1. Same(Land, Land') /\ UNCHANGED <<live, var>>
      BY <1>0, <1>15, <2>2, BoundSame DEF Bind
    <3>2. Sound'
      BY <1>0, <3>1, SameSound
    <3>. QED BY <2>1, <3>2, GeneralNext
  <2>3. CASE /\ Existing(c, t) = {} /\ s \in Vacant(c, t)
             /\ Becomes([Created(Land, c, t, s, FALSE) EXCEPT !.shell[s].stored = TRUE])
             /\ newborn' = [newborn EXCEPT ![c] = s]
    <3>1. Same(Created(Land, c, t, s, FALSE),
               [Created(Land, c, t, s, FALSE) EXCEPT !.shell[s].stored = TRUE])
      BY <1>0, CreatedIs, StoredSame DEF Owned
    <3>2. Sound'
      BY <1>0, <1>15, <2>3, <3>1, Lands, GrownSound DEF Bind
    <3>. QED BY <2>1, <3>2, GeneralNext
  <2>. QED BY <1>15, <2>2, <2>3 DEF Bind
<1>16. ASSUME NEW c \in Contexts, NEW t \in Things, NEW s \in Shells, Construct(c, t, s)
       PROVE  General'
  <2>1. Same(Created(Land, c, t, s, FALSE), Created(Land, c, t, s, FALSE))
    BY <1>0, CreatedIs, Itself DEF Owned
  <2>2. Sound'
    BY <1>0, <1>16, <2>1, Lands, GrownSound DEF Construct
  <2>3. Others' /\ (call # None => call.cx \in live)'
    BY <1>0, <1>16 DEF Construct, Others
  <2>. QED BY <2>2, <2>3, GeneralNext
<1>17. ASSUME NEW c \in Contexts, NEW t \in Things, NEW s \in Shells, Make(c, t, s)
       PROVE  General'
  <2>1. /\ Owned(Renewed(t)) /\ Renewed(t).shell = shell
        /\ Becomes(Created(Renewed(t), c, t, s, FALSE)) /\ c \in live /\ UNCHANGED <<live, var>>
    BY <1>0, <1>17, RenewedIs DEF Make, Renewed
  <2>2. Same(Created(Renewed(t), c, t, s, FALSE), Created(Renewed(t), c, t, s, FALSE))
    BY <2>1, CreatedIs, Itself DEF Owned
  <2>3. Sound'
    BY <1>0, <2>1, <2>2, GrownSound
  <2>4. Others' /\ (call # None => call.cx \in live)'
    BY <1>0, <1>17 DEF Make, Others
  <2>. QED BY <2>3, <2>4, GeneralNext
<1>19. ASSUME NEW K \in SUBSET Shells, Invoke(K) PROVE General'
  <2>1. call \in Call /\ call.cx \in live /\ call.cx \in Contexts
    BY <1>0, <1>19 DEF Invoke, Others
  <2>2. /\ Same(Land, Stored(K)) /\ UNCHANGED <<live, var>>
        /\ \E S \in SUBSET Garbage(Stored(K), live) : Becomes(Finalized(Stored(K), S, call.cx))
    BY <1>0, <1>19, StoredIs DEF Invoke, Stored
  <2>3. Sound'
    BY <1>0, <2>1, <2>2, SameReaped
  <2>4. Others' /\ (call # None => call.cx \in live)'
    BY <1>0, <1>19 DEF Invoke, Others
  <2>. QED BY <2>3, <2>4, GeneralNext
<1>. QED BY <1>1, <1>2, <1>3, <1>4, <1>5, <1>6, <1>7, <1>8, <1>9, <1>10, <1>11, <1>12, <1>13,
            <1>14, <1>15, <1>16, <1>17, <1>18, <1>19 DEF Next

-----------------------------------------------------------------------------
(* What tame programs keep.                                                *)

LEMMA LandStays == ASSUME UNCHANGED <<shell, visitors, magic>> PROVE Land' = Land
BY DEF Land

LEMMA LaterAgrees ==
  ASSUME NEW w, NEW K, Agree(w, {}, K), NEW c PROVE Agree(w, {c}, K)
BY DEF Agree, ShellAgrees, EntryAgrees

\* A thing that is referred to may as well be kept.
LEMMA ReferredAgrees ==
  ASSUME NEW w, NEW L, NEW K, Agree(w, L, K), NEW t, Referred(w, K, t)
  PROVE  Agree(w, L, K \cup {t})
BY DEF Agree, Referred

LEMMA NotAlive ==
  ASSUME General, Orderly, NEW t \in Things, ~Alive(t)
  PROVE  ~Referred(Land, kept, t)
<1>1. \A s \in Shells : shell[s].heap = "used" => shell[s].own > 0 /\ OfRec(shell[s]) = shell[s].of
  BY Lands DEF Orderly, Agree, ShellAgrees, OfRec
<1>. QED BY <1>1, Lands DEF Alive, Referred

\* A collection in the only context.
LEMMA ReapedOrderly ==
  ASSUME General, Orderly, NEW c \in Contexts, c \in live, NEW w, Same(Land, w),
         \E S \in SUBSET Garbage(w, live) : Becomes(Finalized(w, S, c)), UNCHANGED <<live, var, kept>>
  PROVE  Agree(Land', live', kept')
<1>1. Sound /\ Land \in World /\ live = {c}
  BY GeneralIs DEF Orderly, Sound, Owned
<1>2. Owned(w) /\ \E S \in SUBSET Shells :
           /\ \A s \in S : w.shell[s].heap = "used"
           /\ Reaped(w, Land', S) /\ Unrecorded(w, Land', S, c)
  BY <1>1, SameReaped
<1>3. PICK S \in SUBSET Shells :
           /\ \A s \in S : w.shell[s].heap = "used"
           /\ Reaped(w, Land', S) /\ Unrecorded(w, Land', S, c)
  BY <1>2
<1>4. w \in World /\ \A s \in S : w.shell[s].heap = "used" /\ w.shell[s].own \in {0, 1}
  BY <1>2, <1>3 DEF Owned
<1>5. Agree(w, {c}, kept)
  BY <1>1, SameAgrees DEF Orderly
<1>. QED BY <1>1, <1>3, <1>4, <1>5, ReapedAgrees

\* A new shell for a thing of the program in the only context.
LEMMA GrownOrderly ==
  ASSUME General, Orderly, NEW c \in live, NEW t \in kept, NEW s \in Shells, ~Used(s),
         visitors[c][t] = None
  PROVE  LET w == Created(Land, c, t, s, FALSE)
         IN  w \in World /\ Agree(w, live, kept)
<1>1. Owned(Land) /\ Land \in World /\ c \in Contexts /\ t \in Things /\ live \in SUBSET Contexts
  BY DEF General, Owned, TypeOK
<1>2. Owned(Created(Land, c, t, s, FALSE)) /\ Added(Land, Created(Land, c, t, s, FALSE), c, t, s, FALSE)
  BY <1>1, CreatedIs
<1>3. Agree(Land, live, kept) /\ \A d \in Contexts : Land.magic[t][d] = Marks(Land, d, t)
  BY <1>1 DEF Orderly, Agree, Referred
<1>4. Land.shell[s].heap # "used" /\ Land.visitors[c][t] = None
  BY Lands DEF Used
<1>5. Agree(Created(Land, c, t, s, FALSE), live, kept)
  BY <1>1, <1>2, <1>3, <1>4, AddedAgrees
<1>. QED BY <1>2, <1>5 DEF Owned

LEMMA DestroyedAgrees ==
  ASSUME General, Orderly, NEW c \in Contexts, c \in live, NEW A \in SUBSET Shells, NEW B \in SUBSET Shells,
         Destroyed(Bare(c), c, {}, A, B)
  PROVE  Agree(Land', {}, kept) /\ \A d \in Contexts, t \in Things : visitors'[d][t] = None
<1> DEFINE w == Bare(c)
<1>1. /\ Owned(Land) /\ Land \in World /\ live = {c} /\ Agree(Land, {c}, kept)
      /\ \A s \in Shells : shell[s].heap \in {"free", "used"}
  <2>1. Owned(Land) /\ Land \in World /\ live = {c} /\ Agree(Land, live, kept)
    BY DEF General, Orderly, Owned
  <2>2. \A s \in Shells : shell[s] \in ShellRec
    BY DEF General, TypeOK
  <2>. QED BY <2>1, <2>2 DEF ShellRec
<1>2. /\ Owned(w) /\ w.shell = shell /\ w.visitors = visitors /\ w \in World
      /\ \A t \in Things, d \in Contexts :
           w.magic[t][d] = IF d = c THEN Popped(magic[t][d], Named(c, t)) ELSE magic[t][d]
  BY <1>1, BareIs DEF Owned
<1> HIDE DEF w
<1>3. Left(w, c, {}, A, B)
  BY <1>2, DestroyedIs DEF w
<1>4. \A s \in Shells : /\ shell'[s].heap = "free" /\ shell'[s].own = 0 /\ ~shell'[s].alias
  <2>1. \A s \in Shells : s \in A \cup B <=> shell[s].heap = "used"
    BY <1>2, <1>3 DEF Left
  <2>2. \A s \in Shells : ~shell[s].alias /\ shell[s].own = IF shell[s].heap = "used" THEN 1 ELSE 0
    BY <1>1, Lands DEF Agree, ShellAgrees
  <2>. QED BY <1>1, <1>2, <1>3, <2>1, <2>2 DEF Left
<1>5. ASSUME NEW d \in Contexts, NEW t \in Things PROVE visitors'[d][t] = None
  <2>1. EntryAgrees(Land, {c}, d, t)
    BY <1>1 DEF Agree
  <2>2. visitors'[d][t] = IF d = c THEN None ELSE visitors[d][t]
    BY <1>2, <1>3 DEF Left
  <2>. QED BY <2>1, <2>2, Lands DEF EntryAgrees
<1>6. ASSUME NEW d \in Contexts, NEW t \in kept PROVE magic'[t][d] = <<>>
  <2>1. t \in Things /\ EntryAgrees(Land, {c}, d, t)
    BY <1>1 DEF General, TypeOK, Agree
  <2>2. magic[t][d] = Marks(Land, d, t) /\ magic[t][d] \in Seq(Shells)
    BY <1>1, <2>1, Lands, WorldIs DEF Agree, Referred
  <2>3. CASE d # c
    <3>1. magic'[t][d] = magic[t][d] /\ visitors[d][t] = None
      BY <1>2, <1>3, <2>1, <2>3, Lands DEF Left, EntryAgrees
    <3>. QED BY <2>2, <3>1, Lands DEF Marks
  <2>4. CASE d = c
    <3>1. Popped(magic[t][c], Named(c, t)) = <<>>
      <4>1. CASE visitors[c][t] = None
        BY <2>2, <2>4, <4>1, Lands, NamedFinite, PoppedFacts DEF Marks
      <4>2. CASE visitors[c][t] # None
        <5>1. visitors[c][t] \in Shells
          BY <1>1, <2>1, <4>2, WorldIs
        <5>2. ASSUME NEW u \in Things, NEW s \in Existing(c, u) PROVE OfRec(shell[s]) = u
          <6>1. EntryAgrees(Land, {c}, c, u) /\ visitors[c][u] = s /\ s \in Shells /\ s # None
            BY <1>1, NoneAssumption DEF Agree, Existing
          <6>. QED BY <1>1, <6>1, Lands DEF EntryAgrees, Agree, ShellAgrees, OfRec
        <5>3. Named(c, t) = {t}
          <6>1. \A u \in Named(c, t) : u = t
            BY <5>2 DEF Named
          <6>2. visitors[c][t] \in Existing(c, t)
            BY <5>1 DEF Existing
          <6>. QED BY <2>1, <5>2, <6>1, <6>2 DEF Named
        <5>4. magic[t][c] = <<visitors[c][t]>>
          BY <2>2, <2>4, <4>2, Lands DEF Marks
        <5>5. Len(magic[t][c]) = 1
          BY <5>4
        <5>. QED BY <2>2, <2>4, <5>3, <5>5, NamedFinite, PoppedFacts
      <4>. QED BY <4>1, <4>2
    <3>2. magic'[t][c] = Popped(<<>>, Of(w, A, t))
      BY <1>2, <1>3, <2>1, <3>1 DEF Left
    <3>3. Of(w, A, t) \in SUBSET Shells /\ <<>> \in Seq(Shells)
      BY DEF Of
    <3>. QED BY <2>4, <3>2, <3>3, SubFinite, PoppedFacts
  <2>. QED BY <2>3, <2>4
<1>7. Agree(Land', {}, kept)
  <2>1. Land'.shell = shell' /\ Land'.visitors = visitors' /\ Land'.magic = magic'
    BY DEF Land
  <2>2. \A s \in Shells : ShellAgrees(Land', {}, s)
    BY <1>4, <2>1 DEF ShellAgrees
  <2>3. \A d \in Contexts, t \in Things : EntryAgrees(Land', {}, d, t)
    BY <1>5, <2>1 DEF EntryAgrees
  <2>4. \A d \in Contexts, t \in Things : Referred(Land', kept, t) => Land'.magic[t][d] = Marks(Land', d, t)
    BY <1>4, <1>5, <1>6, <2>1 DEF Referred, Marks
  <2> HIDE DEF Land
  <2>. QED BY <2>2, <2>3, <2>4 DEF Agree
<1>. QED BY <1>5, <1>7

LEMMA OrderlyInit == Init => Orderly
<1> SUFFICES ASSUME Init PROVE Orderly
  OBVIOUS
<1>1. /\ \A s \in Shells : shell[s].heap = "free" /\ shell[s].own = 0 /\ ~shell[s].alias
      /\ \A c \in Contexts, t \in Things : visitors[c][t] = None /\ magic[t][c] = <<>>
  BY DEF Init
<1>2. Agree(Land, live, kept)
  BY <1>1, Lands DEF Agree, ShellAgrees, EntryAgrees, Marks
<1>. QED BY <1>2 DEF Init, Orderly

LEMMA OrderlyStep ==
  ASSUME General, Orderly, Tame, [Next]_vars
  PROVE  Orderly'
<1>0. /\ Others /\ Sound /\ Land \in World /\ live \in SUBSET Contexts
      /\ Agree(Land, live, kept) /\ var = None /\ \A c, d \in live : c = d
      /\ call # None => call \in Call /\ call.cx \in live /\ \A i \in DOMAIN call.todo : call.todo[i] \in kept
      /\ handle # None => handle.cx \in live
  BY GeneralIs DEF Orderly, Sound, Owned, Others
<1>1. CASE UNCHANGED vars
  BY <1>0, <1>1, LandStays DEF vars, Orderly
<1>2. ASSUME NEW c \in Contexts, NewContext(c) PROVE Orderly'
  <2>1. live = {} /\ live' = {c} /\ Land' = Land
    BY <1>2, LandStays DEF NewContext, Tame
  <2>2. Agree(Land', live', kept)
    BY <1>0, <2>1, LaterAgrees
  <2>. QED BY <1>0, <1>2, <2>1, <2>2 DEF NewContext, Orderly
<1>3. ASSUME NEW c \in Contexts, NEW n \in 0 .. program.args, NEW todo \in [1 .. n -> kept],
             StartCall(c, todo)
      PROVE  Orderly'
  <2>1. Land' = Land
    BY <1>3, LandStays DEF StartCall
  <2>2. \A i \in DOMAIN todo : todo[i] \in kept
    OBVIOUS
  <2>3. call'.todo = todo
    BY <1>3 DEF StartCall
  <2>. QED BY <1>0, <1>3, <2>1, <2>2, <2>3 DEF StartCall, Orderly
<1>4. ASSUME NEW c \in Contexts, NEW S \in SUBSET Garbage(Land, live), GC(c, S)
      PROVE  Orderly'
  <2>1. Same(Land, Land) /\ c \in live /\ Becomes(Finalized(Land, S, c)) /\ UNCHANGED <<live, var, kept>>
    BY <1>0, <1>4, Itself DEF GC
  <2>2. Agree(Land', live', kept')
    BY <2>1, ReapedOrderly
  <2>. QED BY <1>0, <1>4, <2>2 DEF GC, Orderly
<1>5. ASSUME NEW c \in Contexts, NEW A \in SUBSET Shells, NEW B \in SUBSET Shells,
             DestroyContext(c, A, B)
      PROVE  Orderly'
  <2>1. c \in live /\ live' = live \ {c} /\ Destroyed(Bare(c), c, live \ {c}, A, B)
    BY <1>5 DEF DestroyContext
  <2>2. live \ {c} = {}
    BY <1>0, <2>1
  <2>3. Agree(Land', {}, kept)
    BY <2>1, <2>2, DestroyedAgrees
  <2>4. handle' = None
    BY <1>0, <1>5, <2>2 DEF DestroyContext
  <2>. QED BY <1>0, <1>5, <2>1, <2>2, <2>3, <2>4 DEF DestroyContext, Orderly
<1>6. ASSUME NEW t \in Things, NewThing(t) PROVE Orderly'
  <2>1. ~Referred(Land, kept, t)
    BY <1>6, NotAlive DEF NewThing
  <2>2. /\ Land'.shell = Land.shell /\ Land'.visitors = Land.visitors /\ Land'.magic = magic'
        /\ magic' = [magic EXCEPT ![t] = [d \in Contexts |-> <<>>]]
        /\ magic \in [Things -> [Contexts -> Seq(Shells)]]
    BY <1>0, <1>6, WorldIs DEF NewThing, Land
  <2>3. /\ \A d \in Contexts : Land'.magic[t][d] = <<>>
        /\ \A u \in Things : u # t => Land'.magic[u] = Land.magic[u]
    BY <2>2, Lands
  <2>4. Agree(Land', live, kept \cup {t})
    <3> DEFINE v == Land'
               J == kept \cup {t}
    <3>1. /\ v.shell = Land.shell /\ v.visitors = Land.visitors
          /\ \A d \in Contexts : v.magic[t][d] = <<>>
          /\ \A u \in Things : u # t => v.magic[u] = Land.magic[u]
      BY <2>2, <2>3
    <3> HIDE DEF v
    <3>2. \A I \in SUBSET (kept \cup {t}) : Agree(v, live, I)
      BY <1>0, <2>1, <3>1, RenewedAgrees
    <3>3. J \in SUBSET (kept \cup {t})
      OBVIOUS
    <3> HIDE DEF J
    <3>4. Agree(v, live, J)
      BY <3>2, <3>3
    <3>. QED BY <3>4 DEF v, J
  <2>5. kept' = kept \cup {t} /\ (handle' # None => handle' = handle) /\ UNCHANGED <<live, call, var>>
    BY <1>6 DEF NewThing
  <2>. QED BY <1>0, <2>4, <2>5 DEF Orderly
<1>7. ASSUME NEW t \in Things, DropThing(t) PROVE Orderly'
  <2>1. Land' = Land /\ kept' \in SUBSET kept /\ UNCHANGED <<live, var, handle>> /\ call' = None
    BY <1>7, LandStays DEF DropThing
  <2>2. Agree(Land', live', kept')
    BY <1>0, <2>1, FewerAgrees
  <2>. QED BY <1>0, <2>1, <2>2 DEF Orderly
<1>8. ASSUME NEW s \in Shells, Convert(s) PROVE Orderly'
  <2> DEFINE t == Head(call.todo)
  <2>1. /\ call \in Call /\ call.cx \in live /\ call.todo \in Seq(Things) /\ call.todo # <<>>
        /\ \A i \in DOMAIN call.todo : call.todo[i] \in kept
    BY <1>0, <1>8 DEF Convert, Call
  <2>2. t \in kept /\ \A i \in DOMAIN Tail(call.todo) : Tail(call.todo)[i] \in kept
    <3>1. /\ Len(call.todo) \in Nat \ {0} /\ DOMAIN call.todo = 1 .. Len(call.todo)
          /\ t = call.todo[1]
      BY <2>1, LenProperties, EmptySeq
    <3>2. /\ Tail(call.todo) \in Seq(Things) /\ Len(Tail(call.todo)) = Len(call.todo) - 1
          /\ \A i \in 1 .. Len(Tail(call.todo)) : Tail(call.todo)[i] = call.todo[i + 1]
      BY <2>1, HeadTailProperties
    <3>3. DOMAIN Tail(call.todo) = 1 .. Len(Tail(call.todo))
      BY <3>2, LenProperties
    <3>4. t \in kept
      BY <2>1, <3>1
    <3>5. \A i \in 1 .. Len(Tail(call.todo)) : i + 1 \in DOMAIN call.todo
      BY <3>1, <3>2
    <3>. QED BY <2>1, <3>2, <3>3, <3>4, <3>5
  <2>3. /\ Reflect(call.cx, t, s, FALSE) /\ UNCHANGED <<live, var, kept, handle>>
        /\ call'.todo = Tail(call.todo)
    BY <1>8, <2>1 DEF Convert, Call
  <2> HIDE DEF t
  <2>4. t \in Things
    BY <1>0, <2>2 DEF Others
  <2>5. \/ visitors[call.cx][t] = s /\ UNCHANGED <<shell, visitors, magic>>
        \/ /\ visitors[call.cx][t] = None /\ ~Used(s)
           /\ Land' = Created(Land, call.cx, t, s, FALSE)
    BY <1>0, <2>1, <2>3, <2>4, ReflectSound
  <2>6. Agree(Land', live, kept)
    <3>1. CASE UNCHANGED <<shell, visitors, magic>>
      BY <1>0, <3>1, LandStays
    <3>2. CASE /\ visitors[call.cx][t] = None /\ ~Used(s)
               /\ Land' = Created(Land, call.cx, t, s, FALSE)
      BY <2>1, <2>2, <3>2, GrownOrderly
    <3>. QED BY <2>5, <3>1, <3>2
  <2>. QED BY <1>0, <2>2, <2>3, <2>6 DEF Orderly
<1>9. ASSUME NEW s \in Shells, GiveBack(s) PROVE Orderly'
  <2>1. Used(s) /\ kept' = kept \cup {OfRec(shell[s])} /\ Land' = Land
    BY <1>9, LandStays DEF GiveBack
  <2>2. Referred(Land, kept, OfRec(shell[s]))
    BY <1>0, <2>1, Lands DEF Referred, Used, OfRec, Agree, ShellAgrees
  <2>3. Agree(Land', live, kept')
    BY <1>0, <2>1, <2>2, ReferredAgrees
  <2>. QED BY <1>0, <1>9, <2>3 DEF GiveBack, Orderly
<1>10. ASSUME NEW c \in Contexts, NEW s \in Shells, Forget(c, s) PROVE Orderly'
  <2>1. /\ Same(Land, Unstored(s)) /\ c \in live /\ UNCHANGED <<live, var, kept>>
        /\ \E S \in SUBSET Garbage(Unstored(s), live) : Becomes(Finalized(Unstored(s), S, c))
    BY <1>0, <1>10, UnstoredIs DEF Forget, Unstored
  <2>2. Agree(Land', live', kept')
    BY <2>1, ReapedOrderly
  <2>. QED BY <1>0, <1>10, <2>2 DEF Forget, Orderly
<1>11. ASSUME NEW c \in Contexts, NEW t \in Things, NEW s \in Shells, Bind(c, t, s)
       PROVE  Orderly'
  <2>1. Agree(Land', live, kept)
    <3>1. CASE /\ s \in Existing(c, t)
               /\ shell' = [shell EXCEPT ![s].stored = TRUE]
               /\ UNCHANGED <<visitors, magic, newborn>>
      <4>1. Same(Land, Land')
        BY <1>0, <3>1, BoundSame
      <4>. QED BY <1>0, <4>1, SameAgrees
    <3>2. CASE /\ Existing(c, t) = {} /\ s \in Vacant(c, t)
               /\ Becomes([Created(Land, c, t, s, FALSE) EXCEPT !.shell[s].stored = TRUE])
      <4> DEFINE w == Created(Land, c, t, s, FALSE)
                 v == [w EXCEPT !.shell[s].stored = TRUE]
      <4>1. c \in live /\ t \in kept /\ ~Used(s) /\ visitors[c][t] = None
        <5>1. visitors[c][t] \in Shells \cup {None}
          BY <1>0, WorldIs
        <5>. QED BY <1>11, <3>2, <5>1 DEF Bind, Existing, Vacant
      <4>2. w \in World /\ Agree(w, live, kept)
        BY <4>1, GrownOrderly
      <4> HIDE DEF w
      <4>3. Same(w, v)
        BY <4>2, StoredSame
      <4>4. Becomes(v)
        BY <3>2 DEF w
      <4>5. Agree(v, live, kept)
        BY <4>2, <4>3, SameAgrees
      <4> HIDE DEF v
      <4>6. Land' = v
        BY <4>3, <4>4, Becoming DEF Same
      <4>. QED BY <4>5, <4>6
    <3>. QED BY <1>11, <3>1, <3>2 DEF Bind
  <2>. QED BY <1>0, <1>11, <2>1 DEF Bind, Orderly
<1>12. ASSUME NEW c \in Contexts, NEW t \in Things, NEW s \in Shells, Make(c, t, s)
       PROVE  Orderly'
  <2> DEFINE w == Renewed(t)
             v == Created(w, c, t, s, FALSE)
  <2>1. /\ c \in live /\ ~Alive(t) /\ ~Used(s) /\ Becomes(v) /\ UNCHANGED <<live, var, kept, call>>
        /\ handle' # None => handle' = handle
    BY <1>12 DEF Make, Renewed
  <2>2. ~Referred(Land, kept, t)
    BY <2>1, NotAlive
  <2>3. /\ Owned(w) /\ w.shell = Land.shell /\ w.visitors = Land.visitors
        /\ \A d \in Contexts : w.magic[t][d] = <<>>
        /\ \A u \in Things : u # t => w.magic[u] = Land.magic[u]
    BY <1>0, Lands, RenewedIs DEF Sound
  <2>4. Owned(v) /\ Added(w, v, c, t, s, FALSE)
    BY <2>3, CreatedIs
  <2> HIDE DEF w, v
  <2>5. (\A d \in Contexts : w.visitors[d][t] = None) /\ Agree(w, live, kept)
    <3>1. kept \in SUBSET (kept \cup {t})
      OBVIOUS
    <3>. QED BY <1>0, <2>2, <2>3, <3>1, RenewedAgrees
  <2>6. w \in World /\ w.shell[s].heap # "used" /\ \A d \in Contexts : w.magic[t][d] = Marks(w, d, t)
    BY <2>1, <2>3, <2>5, Lands DEF Owned, Used, Marks
  <2>7. Agree(v, live, kept)
    BY <1>0, <2>1, <2>4, <2>5, <2>6, AddedAgrees
  <2>8. Land' = v
    BY <2>1, <2>4, Becoming DEF Owned
  <2>. QED BY <1>0, <2>1, <2>7, <2>8 DEF Orderly
<1>13. ASSUME NEW c \in Contexts, NEW t \in Things, TakeHandle(c, t) PROVE Orderly'
  <2>1. Land' = Land /\ handle'.cx = c /\ c \in live
    BY <1>13, LandStays DEF TakeHandle
  <2>. QED BY <1>0, <1>13, <2>1 DEF TakeHandle, Orderly
<1>14. ASSUME NEW K \in SUBSET Shells, Invoke(K) PROVE Orderly'
  <2>1. /\ Same(Land, Stored(K)) /\ UNCHANGED <<live, var, kept>> /\ call.cx \in live
        /\ \E S \in SUBSET Garbage(Stored(K), live) : Becomes(Finalized(Stored(K), S, call.cx))
    BY <1>0, <1>14, StoredIs DEF Invoke, Stored
  <2>2. Agree(Land', live', kept')
    BY <1>0, <2>1, ReapedOrderly
  <2>. QED BY <1>0, <1>14, <2>2 DEF Invoke, Orderly
<1>15. /\ \A t \in Things : ~AssignVar(t)
       /\ \A s \in Shells : ~ConvertFails(s)
       /\ \A c \in Contexts, s \in Shells : ~ReadVar(c, s) /\ ~MakeFails(c, s)
       /\ \A c \in Contexts, t \in Things, s \in Shells : ~Construct(c, t, s)
  BY DEF Tame, AssignVar, ConvertFails, ReadVar, MakeFails, Construct
<1>. QED BY <1>1, <1>2, <1>3, <1>4, <1>5, <1>6, <1>7, <1>8, <1>9, <1>10, <1>11, <1>12, <1>13,
            <1>14, <1>15 DEF Next

-----------------------------------------------------------------------------
(* The invariants of the model.                                            *)

LEMMA ProgramStays == [Next]_vars => program' = program
<1>1. ASSUME NEW c \in Contexts
      PROVE  /\ NewContext(c) => program' = program
             /\ \A todo : StartCall(c, todo) => program' = program
             /\ \A S : GC(c, S) => program' = program
             /\ \A A, B : DestroyContext(c, A, B) => program' = program
  BY DEF NewContext, StartCall, GC, DestroyContext
<1>2. ASSUME NEW t \in Things
      PROVE  NewThing(t) \/ DropThing(t) \/ AssignVar(t) => program' = program
  BY DEF NewThing, DropThing, AssignVar
<1>3. ASSUME NEW s \in Shells
      PROVE  Convert(s) \/ ConvertFails(s) \/ GiveBack(s) => program' = program
  BY DEF Convert, ConvertFails, GiveBack
<1>4. ASSUME NEW c \in Contexts, NEW s \in Shells
      PROVE  ReadVar(c, s) \/ Forget(c, s) \/ MakeFails(c, s) => program' = program
  BY DEF ReadVar, Forget, MakeFails
<1>5. ASSUME NEW c \in Contexts, NEW t \in Things, NEW s \in Shells
      PROVE  Bind(c, t, s) \/ Construct(c, t, s) \/ Make(c, t, s) => program' = program
  BY DEF Bind, Construct, Make
<1>6. ASSUME NEW c \in Contexts, NEW t \in Things PROVE TakeHandle(c, t) => program' = program
  BY DEF TakeHandle
<1>7. ASSUME NEW K PROVE Invoke(K) => program' = program
  BY DEF Invoke
<1>. QED BY <1>1, <1>2, <1>3, <1>4, <1>5, <1>6, <1>7 DEF Next, vars

LEMMA IInvInit == Init => IInv
BY GeneralInit, OrderlyInit DEF IInv

LEMMA IInvStep == IInv /\ [Next]_vars => IInv'
<1> SUFFICES ASSUME IInv, [Next]_vars PROVE IInv'
  OBVIOUS
<1>1. General'
  BY GeneralStep DEF IInv
<1>2. Tame' => Tame
  BY ProgramStays DEF Tame
<1>3. Tame' => Orderly'
  BY <1>2, OrderlyStep DEF IInv
<1>. QED BY <1>1, <1>3 DEF IInv

LEMMA IInvHolds == Spec => []IInv
BY IInvInit, IInvStep, PTL DEF Spec

(* Every variable has its type, whatever the program does: no place in the *)
(* private slots, the hashes and the magic ever holds anything but what is *)
(* declared for it, and no slot owns more than one reference.              *)
THEOREM VisitorTypes == Spec => []TypeOK
<1>1. IInv => TypeOK
  BY DEF IInv, General
<1>. QED BY <1>1, IInvHolds, PTL

(* Whatever the program does, singletons, package variables, failures and  *)
(* several contexts included: when the last context is gone no shell is    *)
(* left, and none ever owned a reference that its finalizer did not give   *)
(* back, once at least (PJS_Context.c:217-223, 295-296, 323).              *)
THEOREM NothingLeaks == Spec => []NoLeak
<1>1. IInv => NoLeak
  <2> SUFFICES ASSUME IInv, live = {}, NEW s \in Shells
               PROVE  ~Used(s) /\ shell[s].own <= 0
    BY DEF NoLeak
  <2>1. Owned(Land) /\ ~Used(s) /\ shell[s] \in ShellRec
    BY DEF IInv, General, TypeOK
  <2>2. shell[s].heap = "free"
    BY <2>1 DEF Used, ShellRec
  <2>3. shell[s].own \in {-1, 0}
    BY <2>1, <2>2, Lands DEF Owned
  <2>. QED BY <2>1, <2>3
<1>. QED BY <1>1, IInvHolds, PTL

\* What agreement says in the words of the properties.
LEMMA OrderlyFacts ==
  ASSUME General, Orderly
  PROVE  /\ \A s \in Shells :
              /\ OfRec(shell[s]) = shell[s].of /\ shell[s].of \in Things
              /\ shell[s].own = IF Used(s) THEN 1 ELSE 0
              /\ Used(s) => /\ shell[s].home \in live
                            /\ visitors[shell[s].home][shell[s].of] = s
         /\ \A c \in Contexts, t \in Things :
              /\ visitors[c][t] \in Shells \cup {None}
              /\ visitors[c][t] # None => LET s == visitors[c][t]
                                          IN  c \in live /\ Used(s) /\ shell[s].home = c /\ shell[s].of = t
<1>1. \A s \in Shells : ShellAgrees(Land, live, s) /\ shell[s] \in ShellRec
  BY DEF General, TypeOK, Orderly, Agree
<1>2. \A s \in Shells :
              /\ OfRec(shell[s]) = shell[s].of /\ shell[s].of \in Things
              /\ shell[s].own = IF Used(s) THEN 1 ELSE 0
              /\ Used(s) => /\ shell[s].home \in live
                            /\ visitors[shell[s].home][shell[s].of] = s
  BY <1>1, Lands DEF ShellAgrees, ShellRec, OfRec, Used
<1>3. \A c \in Contexts, t \in Things : EntryAgrees(Land, live, c, t) /\ visitors[c][t] \in Shells \cup {None}
  BY DEF General, TypeOK, Orderly, Agree
<1>. QED BY <1>2, <1>3, Lands DEF EntryAgrees, Used

LEMMA MagicFacts ==
  ASSUME General, Orderly, NEW c \in Contexts, NEW t \in Things, Alive(t)
  PROVE  magic[t][c] = IF visitors[c][t] = None THEN <<>> ELSE <<visitors[c][t]>>
<1>1. \A s \in Shells : shell[s].own > 0 => Used(s) /\ OfRec(shell[s]) = shell[s].of
  BY OrderlyFacts
<1>2. Referred(Land, kept, t)
  BY <1>1, Lands, NoneAssumption DEF Alive, Referred, Orderly, Used
<1>3. magic[t][c] = Marks(Land, c, t)
  BY <1>2, Lands DEF Orderly, Agree
<1>. QED BY <1>3, Lands DEF Marks

(* A tame program: in one context a visiting thing has one shell, and the  *)
(* jsvisitors hash of the context names it and nothing else, however calls,*)
(* collections, new contexts and reused addresses follow each other        *)
(* (PJS_Context.c:256-345, PJS_Reflection.c:133-138).                      *)
THEOREM IdentityIsKept == Spec => []IdentityKept
<1>1. IInv => IdentityKept
  <2> SUFFICES ASSUME IInv, Tame PROVE IdentityKept
    BY DEF IdentityKept
  <2>1. General /\ Orderly /\ live \subseteq Contexts
    BY DEF IInv, General, TypeOK
  <2>. QED BY <2>1, OrderlyFacts DEF IdentityKept
<1>. QED BY <1>1, IInvHolds, PTL

(* A tame program: the magic on a thing that is alive names the shells it  *)
(* has and nothing else, and no shell gives its reference back twice, or   *)
(* before its finalizer (PJS_Context.c:159-216, 295-296, 308-327).         *)
THEOREM MagicIsExact == Spec => []MagicExact
<1>1. IInv => MagicExact
  <2> SUFFICES ASSUME IInv, Tame PROVE MagicExact
    BY DEF MagicExact
  <2>1. General /\ Orderly
    BY DEF IInv
  <2>2. ASSUME NEW t \in Things, NEW c \in Contexts, Alive(t)
        PROVE  {magic[t][c][i] : i \in DOMAIN magic[t][c]} =
                 {s \in Shells : c \in live /\ Used(s) /\ shell[s].home = c /\ OfRec(shell[s]) = t}
    <3>1. \A s \in Shells : c \in live /\ Used(s) /\ shell[s].home = c /\ OfRec(shell[s]) = t
                            <=> s = visitors[c][t]
      BY <2>1, OrderlyFacts, NoneAssumption
    <3>a. /\ magic[t][c] = IF visitors[c][t] = None THEN <<>> ELSE <<visitors[c][t]>>
          /\ visitors[c][t] \in Shells \cup {None}
      <4>1. magic[t][c] = IF visitors[c][t] = None THEN <<>> ELSE <<visitors[c][t]>>
        BY <2>1, <2>2, MagicFacts
      <4>. QED BY <2>1, <4>1, OrderlyFacts
    <3>2. CASE visitors[c][t] = None
      <4>1. magic[t][c] = <<>> /\ DOMAIN magic[t][c] = {}
        BY <3>a, <3>2
      <4>. QED BY <3>1, <3>2, <4>1, NoneAssumption
    <3>3. CASE visitors[c][t] # None
      <4>1. magic[t][c] = <<visitors[c][t]>> /\ visitors[c][t] \in Shells
        BY <3>a, <3>3
      <4>2. DOMAIN magic[t][c] = {1} /\ magic[t][c][1] = visitors[c][t]
        BY <4>1
      <4>. QED BY <3>1, <4>1, <4>2
    <3>. QED BY <3>2, <3>3
  <2>3. \A s \in Shells : shell[s].own = IF Used(s) THEN 1 ELSE 0
    BY <2>1, OrderlyFacts
  <2>. QED BY <2>2, <2>3 DEF MagicExact
<1>. QED BY <1>1, IInvHolds, PTL

(* A tame program: a visitor handle whose shell still shows the thing      *)
(* answers TRUE (JS.xs:274-320, Controller.pm:159-165).                    *)
THEOREM HandlesAreHonest == Spec => []HandleHonest
<1>1. IInv => HandleHonest
  <2> SUFFICES ASSUME IInv, Tame, handle # None, Used(handle.face),
                      OfRec(shell[handle.face]) = handle.thing
               PROVE  VALID
    BY DEF HandleHonest
  <2>1. /\ General /\ Orderly /\ handle.face \in Shells /\ handle.cx \in live /\ handle.cx \in Contexts
        /\ \A c, d \in live : c = d
    BY DEF IInv, General, Orderly, TypeOK
  <2>2. /\ shell[handle.face].home = handle.cx
        /\ visitors[handle.cx][handle.thing] = handle.face
        /\ handle.thing \in Things
    BY <2>1, OrderlyFacts
  <2>3. Alive(handle.thing)
    <3>1. shell[handle.face].own = 1
      BY <2>1, OrderlyFacts
    <3>. QED BY <2>1, <3>1 DEF Alive
  <2>4. magic[handle.thing][handle.cx] = <<handle.face>>
    BY <2>1, <2>2, <2>3, MagicFacts, NoneAssumption
  <2>. QED BY <2>4 DEF VALID
<1>. QED BY <1>1, IInvHolds, PTL

-----------------------------------------------------------------------------
(* The abstract specification: a tame step is a conversion that answers a  *)
(* face, the departure of some faces, or nothing to it.                    *)

LEMMA FaceIs ==
  ASSUME IInv, Tame
  PROVE  Face = visitors
<1>1. /\ General /\ Orderly
      /\ visitors \in [Contexts -> [Things -> Shells \cup {None}]]
  BY DEF IInv, General, TypeOK
<1>2. ASSUME NEW c \in Contexts, NEW t \in Things PROVE Face[c][t] = visitors[c][t]
  <2> DEFINE P(s) == Used(s) /\ shell[s].home = c /\ OfRec(shell[s]) = t
  <2>1. \A s \in Shells : P(s) => c \in live /\ visitors[c][t] = s
    BY <1>1, OrderlyFacts
  <2>2. visitors[c][t] # None => c \in live /\ visitors[c][t] \in Shells /\ P(visitors[c][t])
    BY <1>1, OrderlyFacts
  <2>3. Face[c][t] = IF c \in live /\ \E s \in Shells : P(s) THEN CHOOSE s \in Shells : P(s) ELSE None
    BY DEF Face
  <2> HIDE DEF P
  <2>4. CASE \E s \in Shells : P(s)
    <3>1. (CHOOSE s \in Shells : P(s)) \in Shells /\ P(CHOOSE s \in Shells : P(s))
      BY <2>4
    <3>. QED BY <2>1, <2>3, <2>4, <3>1
  <2>5. CASE ~\E s \in Shells : P(s)
    BY <2>2, <2>3, <2>5
  <2>. QED BY <2>4, <2>5
<1>3. Face \in [Contexts -> [Things -> Shells \cup {None}]]
  <2>1. \A c \in Contexts, t \in Things : Face[c][t] \in Shells \cup {None}
    BY <1>1, <1>2
  <2>2. Face = [c \in Contexts |-> [t \in Things |-> Face[c][t]]]
    BY DEF Face
  <2>. QED BY <2>1, <2>2
<1>. QED BY <1>1, <1>2, <1>3

\* A step of the abstract specification or none, when face is visitors.
Maps == RoundTrip!Next \/ UNCHANGED RoundTrip!vars

LEMMA StutterMaps ==
  ASSUME Face = visitors, Face' = visitors', UNCHANGED <<visitors, result>>
  PROVE  Maps
BY DEF Maps, RoundTrip!vars

LEMMA ShowMaps ==
  ASSUME Face = visitors, Face' = visitors', NEW c \in Contexts, NEW t \in Things, NEW s \in Shells,
         visitors[c][t] = s, UNCHANGED visitors, result' = [cx |-> c, thing |-> t, face |-> s]
  PROVE  Maps
<1>1. RoundTrip!Show(c, t)
  BY NoneAssumption DEF RoundTrip!Show, RoundTrip!Answer
<1>. QED BY <1>1 DEF Maps, RoundTrip!Next

LEMMA EnterMaps ==
  ASSUME Face = visitors, Face' = visitors', General, Orderly, TypeOK',
         NEW c \in Contexts, NEW t \in Things, NEW s \in Shells,
         visitors[c][t] = None, ~Used(s), result' = [cx |-> c, thing |-> t, face |-> s],
         \A d \in Contexts, u \in Things :
           visitors'[d][u] = IF d = c /\ u = t THEN s ELSE visitors[d][u]
  PROVE  Maps
<1>1. /\ visitors \in [Contexts -> [Things -> Shells \cup {None}]]
      /\ visitors' \in [Contexts -> [Things -> Shells \cup {None}]]
  BY DEF General, TypeOK
<1>2. visitors' = [visitors EXCEPT ![c][t] = s]
  BY <1>1
<1>3. \A d \in Contexts, u \in Things : visitors[d][u] # s
  BY OrderlyFacts, NoneAssumption
<1>4. RoundTrip!Enter(c, t, s)
  BY <1>2, <1>3 DEF RoundTrip!Enter, RoundTrip!Fresh, RoundTrip!Answer
<1>. QED BY <1>4 DEF Maps, RoundTrip!Next

LEMMA LeaveMaps ==
  ASSUME Face = visitors, Face' = visitors', TypeOK', NEW X \in SUBSET Shells,
         UNCHANGED result,
         \A d \in Contexts, u \in Things :
           visitors'[d][u] = IF visitors[d][u] \in X THEN None ELSE visitors[d][u]
  PROVE  Maps
<1>1. visitors' \in [Contexts -> [Things -> Shells \cup {None}]]
  BY DEF TypeOK
<1>2. visitors' = [d \in Contexts |-> [u \in Things |->
                     IF visitors[d][u] \in X THEN None ELSE visitors[d][u]]]
  BY <1>1
<1>3. RoundTrip!Leave
  BY <1>2 DEF RoundTrip!Leave
<1>. QED BY <1>3 DEF Maps, RoundTrip!Next

\* A collection takes the faces of the shells that it finalizes.
LEMMA CollectionMaps ==
  ASSUME Face = visitors, Face' = visitors', TypeOK', General, Orderly,
         NEW c \in Contexts, c \in live, NEW w, Same(Land, w),
         \E S \in SUBSET Garbage(w, live) : Becomes(Finalized(w, S, c)),
         UNCHANGED <<live, var, result>>
  PROVE  Maps
<1>1. Sound /\ Land \in World /\ live = {c}
  BY GeneralIs DEF Orderly, Sound, Owned
<1>2. \E S \in SUBSET Shells :
           /\ \A s \in S : w.shell[s].heap = "used"
           /\ Reaped(w, Land', S) /\ Unrecorded(w, Land', S, c)
  BY <1>1, SameReaped
<1>3. PICK S \in SUBSET Shells :
           /\ \A s \in S : w.shell[s].heap = "used"
           /\ Unrecorded(w, Land', S, c)
  BY <1>2
<1>4. \A s \in Shells : /\ w.shell[s].heap = shell[s].heap
                        /\ OfRec(w.shell[s]) = OfRec(shell[s])
  BY Lands DEF Same, OfRec
<1>5. \A s \in S : Used(s) /\ OfRec(w.shell[s]) \in Things /\ visitors[c][OfRec(w.shell[s])] = s
  BY <1>1, <1>3, <1>4, OrderlyFacts DEF Used
<1>6. ASSUME NEW d \in Contexts, NEW u \in Things
      PROVE  visitors'[d][u] = IF visitors[d][u] \in S THEN None ELSE visitors[d][u]
  <2>1. visitors'[d][u] = IF d = c /\ Of(w, S, u) # {} THEN None ELSE visitors[d][u]
    BY <1>3, Lands DEF Unrecorded, Same, Land
  <2>2. visitors[d][u] \in S => d = c /\ visitors[d][u] \in Of(w, S, u)
    <3>1. visitors[d][u] \in S => /\ d \in live
                                  /\ OfRec(shell[visitors[d][u]]) = u
      BY OrderlyFacts, NoneAssumption
    <3>. QED BY <1>1, <1>4, <3>1 DEF Of
  <2>3. d = c /\ Of(w, S, u) # {} => visitors[d][u] \in S
    BY <1>5 DEF Of
  <2>. QED BY <2>1, <2>2, <2>3
<1>. QED BY <1>6, LeaveMaps

LEMMA RoundTripInit == Init => RoundTrip!Init
BY DEF Init, RoundTrip!Init, Face

LEMMA RoundTripStep ==
  ASSUME IInv, IInv', Tame, Face = visitors, Face' = visitors', [Next]_vars
  PROVE  Maps
<1>0. /\ General /\ Orderly /\ Sound /\ Others /\ Owned(Land) /\ Land \in World /\ TypeOK'
      /\ \A c \in Contexts, t \in Things : visitors[c][t] \in Shells \cup {None}
      /\ call # None => call \in Call /\ call.cx \in live
  <2>1. General /\ Orderly /\ General'
    BY DEF IInv
  <2>. QED BY <2>1, GeneralIs, WorldIs DEF General, Sound, Owned, Others
<1>1. CASE UNCHANGED <<visitors, result>>
  BY <1>1, StutterMaps
<1>2. ASSUME NEW c \in Contexts, NEW S \in SUBSET Garbage(Land, live), GC(c, S) PROVE Maps
  <2>1. Same(Land, Land) /\ c \in live /\ Becomes(Finalized(Land, S, c)) /\ UNCHANGED <<live, var, result>>
    BY <1>0, <1>2, Itself DEF GC
  <2>. QED BY <1>0, <2>1, CollectionMaps
<1>3. ASSUME NEW c \in Contexts, NEW A \in SUBSET Shells, NEW B \in SUBSET Shells,
             DestroyContext(c, A, B)
      PROVE  Maps
  <2>1. c \in live /\ Destroyed(Bare(c), c, live \ {c}, A, B) /\ result' = result
    BY <1>3 DEF DestroyContext
  <2>2. live \ {c} = {}
    BY <1>0, <2>1 DEF Orderly
  <2>3. \A d \in Contexts, u \in Things : visitors'[d][u] = None
    BY <1>0, <2>1, <2>2, DestroyedAgrees
  <2>4. \A d \in Contexts, u \in Things :
          visitors'[d][u] = IF visitors[d][u] \in Shells THEN None ELSE visitors[d][u]
    BY <1>0, <2>3
  <2>. QED BY <1>0, <2>1, <2>4, LeaveMaps
<1>4. ASSUME NEW s \in Shells, Convert(s) PROVE Maps
  <2> DEFINE t == Head(call.todo)
             c == call.cx
  <2>1. c \in Contexts /\ c \in live /\ t \in Things
    <3>1. call \in Call /\ call.cx \in live /\ call.todo # <<>>
      BY <1>0, <1>4 DEF Convert
    <3>2. call.todo \in Seq(Things)
      BY <3>1 DEF Call
    <3>. QED BY <1>0, <3>1, <3>2, HeadTailProperties DEF Others
  <2>2. Reflect(c, t, s, FALSE) /\ UNCHANGED <<live, var>>
    BY <1>4 DEF Convert
  <2> HIDE DEF c, t
  <2>3. result' = [cx |-> c, thing |-> t, face |-> s]
    BY <2>2 DEF Reflect
  <2>4. \/ visitors[c][t] = s /\ UNCHANGED <<shell, visitors, magic>>
        \/ visitors[c][t] = None /\ ~Used(s) /\ Land' = Created(Land, c, t, s, FALSE)
    BY <1>0, <2>1, <2>2, ReflectSound
  <2>5. CASE visitors[c][t] = s /\ UNCHANGED <<shell, visitors, magic>>
    BY <2>1, <2>3, <2>5, ShowMaps
  <2>6. CASE visitors[c][t] = None /\ ~Used(s) /\ Land' = Created(Land, c, t, s, FALSE)
    <3>1. Added(Land, Created(Land, c, t, s, FALSE), c, t, s, FALSE)
      BY <1>0, <2>1, CreatedIs
    <3>2. \A d \in Contexts, u \in Things :
            visitors'[d][u] = IF d = c /\ u = t THEN s ELSE visitors[d][u]
      <4>1. visitors' = Created(Land, c, t, s, FALSE).visitors
        <5>1. Land'.visitors = visitors'
          BY DEF Land
        <5>. QED BY <2>6, <5>1
      <4>. QED BY <3>1, <4>1, Lands DEF Added
    <3>. QED BY <1>0, <2>1, <2>3, <2>6, <3>2, EnterMaps
  <2>. QED BY <2>4, <2>5, <2>6
<1>5. ASSUME NEW c \in Contexts, NEW s \in Shells, Forget(c, s) PROVE Maps
  <2>1. /\ Same(Land, Unstored(s)) /\ c \in live /\ UNCHANGED <<live, var, result>>
        /\ \E S \in SUBSET Garbage(Unstored(s), live) : Becomes(Finalized(Unstored(s), S, c))
    BY <1>0, <1>5, UnstoredIs DEF Forget, Unstored
  <2>. QED BY <1>0, <2>1, CollectionMaps
<1>6. ASSUME NEW c \in Contexts, NEW t \in Things, NEW s \in Shells, Bind(c, t, s) PROVE Maps
  <2>1. result' = [cx |-> c, thing |-> t, face |-> s]
    BY <1>6 DEF Bind
  <2>2. CASE s \in Existing(c, t) /\ UNCHANGED visitors
    BY <2>1, <2>2, ShowMaps DEF Existing
  <2>3. CASE /\ Existing(c, t) = {} /\ s \in Vacant(c, t)
             /\ Becomes([Created(Land, c, t, s, FALSE) EXCEPT !.shell[s].stored = TRUE])
    <3>1. ~Used(s) /\ visitors[c][t] = None
      BY <1>0, <2>3 DEF Existing, Vacant
    <3>2. /\ Owned(Created(Land, c, t, s, FALSE))
          /\ Added(Land, Created(Land, c, t, s, FALSE), c, t, s, FALSE)
      BY <1>0, CreatedIs
    <3>3. Same(Created(Land, c, t, s, FALSE),
               [Created(Land, c, t, s, FALSE) EXCEPT !.shell[s].stored = TRUE])
      BY <3>2, StoredSame DEF Owned
    <3>4. visitors' = Created(Land, c, t, s, FALSE).visitors
      BY <2>3, <3>3 DEF Same, Becomes
    <3>5. \A d \in Contexts, u \in Things :
            visitors'[d][u] = IF d = c /\ u = t THEN s ELSE visitors[d][u]
      BY <3>2, <3>4, Lands DEF Added
    <3>. QED BY <1>0, <2>1, <3>1, <3>5, EnterMaps
  <2>. QED BY <1>6, <2>2, <2>3 DEF Bind
<1>7. ASSUME NEW c \in Contexts, NEW t \in Things, NEW s \in Shells, Make(c, t, s) PROVE Maps
  <2>1. /\ ~Alive(t) /\ ~Used(s) /\ Becomes(Created(Renewed(t), c, t, s, FALSE))
        /\ result' = [cx |-> c, thing |-> t, face |-> s]
    BY <1>7 DEF Make, Renewed
  <2>2. Owned(Renewed(t)) /\ Renewed(t).visitors = visitors
    BY <1>0, RenewedIs
  <2>3. Added(Renewed(t), Created(Renewed(t), c, t, s, FALSE), c, t, s, FALSE)
    BY <2>2, CreatedIs
  <2>4. \A d \in Contexts, u \in Things :
          visitors'[d][u] = IF d = c /\ u = t THEN s ELSE visitors[d][u]
    BY <2>1, <2>2, <2>3 DEF Added, Becomes
  <2>5. visitors[c][t] = None
    <3>1. visitors[c][t] # None => LET x == visitors[c][t]
                                   IN  x \in Shells /\ shell[x].own = 1 /\ OfRec(shell[x]) = t
      BY <1>0, OrderlyFacts
    <3>. QED BY <2>1, <3>1 DEF Alive
  <2>. QED BY <1>0, <2>1, <2>4, <2>5, EnterMaps
<1>8. ASSUME NEW K \in SUBSET Shells, Invoke(K) PROVE Maps
  <2>1. /\ Same(Land, Stored(K)) /\ UNCHANGED <<live, var, result>>
        /\ call.cx \in live /\ call.cx \in Contexts
        /\ \E S \in SUBSET Garbage(Stored(K), live) : Becomes(Finalized(Stored(K), S, call.cx))
    BY <1>0, <1>8, StoredIs DEF Invoke, Stored, Others
  <2>. QED BY <1>0, <2>1, CollectionMaps
<1>9. /\ \A t \in Things : ~AssignVar(t)
      /\ \A s \in Shells : ~ConvertFails(s)
      /\ \A c \in Contexts, s \in Shells : ~ReadVar(c, s) /\ ~MakeFails(c, s)
      /\ \A c \in Contexts, t \in Things, s \in Shells : ~Construct(c, t, s)
  BY DEF Tame, AssignVar, ConvertFails, ReadVar, MakeFails, Construct
<1>10. /\ \A c \in Contexts : NewContext(c) => UNCHANGED <<visitors, result>>
       /\ \A c \in Contexts : \A todo : StartCall(c, todo) => UNCHANGED <<visitors, result>>
       /\ \A t \in Things : NewThing(t) \/ DropThing(t) => UNCHANGED <<visitors, result>>
       /\ \A s \in Shells : GiveBack(s) => UNCHANGED <<visitors, result>>
       /\ \A c \in Contexts, t \in Things : TakeHandle(c, t) => UNCHANGED <<visitors, result>>
       /\ UNCHANGED vars => UNCHANGED <<visitors, result>>
  BY DEF NewContext, StartCall, NewThing, DropThing, GiveBack, TakeHandle, vars
<1>. QED BY <1>1, <1>2, <1>3, <1>4, <1>5, <1>6, <1>7, <1>8, <1>9, <1>10 DEF Next

(* A tame program sees what lib/JSP.pm promises: in one context a thing    *)
(* has one face until that is collected, and every conversion answers it.  *)
THEOREM RoundTripImplemented == Spec => RoundTripIntegrity
<1> DEFINE Faced == Tame => Face = visitors
<1>1. IInv => Faced
  BY FaceIs
<1>2. IInv /\ IInv' /\ Faced /\ Faced' /\ [Next]_vars => [Tame => [RoundTrip!Next]_(RoundTrip!vars)]_vars
  <2> SUFFICES ASSUME IInv, IInv', Faced, Faced', [Next]_vars, Tame
               PROVE  [RoundTrip!Next]_(RoundTrip!vars)
    OBVIOUS
  <2>1. Tame'
    BY ProgramStays DEF Tame
  <2>2. Face = visitors /\ Face' = visitors'
    BY <2>1
  <2>3. Maps
    BY <2>2, RoundTripStep
  <2>. QED BY <2>3 DEF Maps
<1> HIDE DEF Faced
<1>. QED BY <1>1, <1>2, IInvHolds, RoundTripInit, PTL DEF Spec, RoundTripIntegrity

=============================================================================
