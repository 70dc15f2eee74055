------------------------ MODULE SessionJournal_proofs ------------------------
(***************************************************************************)
(* Theorems about SessionJournal and the tables of Namespace, for any set  *)
(* of paths, any number of operations and sessions, and any size of the    *)
(* stream's buffer and of its catch-up.                                    *)
(***************************************************************************)
EXTENDS SessionJournal, SequenceTheorems, FiniteSetTheorems, WellFoundedInduction, TLAPS

-----------------------------------------------------------------------------
(* The inductive invariant.                                                *)

(* Inodes and rows are numbered by the operations there have been.         *)
Counted(t) == \A p \in Path : t.mf[p] # None => t.mf[p].ino \in 1 .. t.id
InodesCounted == db.id <= ops /\ Counted(db)
RowsCounted ==
    /\ \A r \in journal : r.id <= ops /\ r.seq <= r.id
    /\ \A r, x \in journal : r.id = x.id => r = x

(* What a row holds is what was there when it was written; the reverts     *)
(* under way work from such rows.                                          *)
RowSound(r) ==
    /\ r.op = "rename" => r.from \in Path
    /\ r.op \in {"update", "delete"} => r.body = r.was
RowsSound == \A r \in journal : RowSound(r)
Founded(v) ==
    /\ v.pc # "idle" => RowSound(v.row)
    /\ v.pc = "source" => v.row.from # Root
RevertSound == \A i \in Reverter : Founded(rv[i])

(* A frame is on its way to a stream, or in its buffer, once; one that the *)
(* stream has shown is at most at its watermark.                           *)
Due(e) == e.id <= ops /\ (e.id \in Range(st.sent) => e.seq <= st.hi)
FramesSound ==
    /\ \A e \in bc : /\ Due(e)
                     /\ \A f \in bc : e.id = f.id => e = f
                     /\ \A r \in journal : e.id = r.id => e.seq = r.seq
                     /\ \A i \in DOMAIN st.q : st.q[i].id # e.id
    /\ \A i \in DOMAIN st.q : /\ Due(st.q[i])
                              /\ \A j \in DOMAIN st.q : st.q[i].id = st.q[j].id => i = j
    /\ \A i \in DOMAIN st.sent : st.sent[i] <= ops

(* Every entry of dir_entries but a top-level one sits in a listed one.    *)
Parents(t) == \A p \in t.de : splitParent(p) \in t.de \cup {Root}
TreeSound == ~mixed => WellFormed(db) /\ Parents(db)

RecordInv == RowsCounted /\ KeysUnique /\ RowsSound /\ FramesSound /\ StreamSendsOnce
JournalInv == InodesCounted /\ RecordInv /\ RevertSound

-----------------------------------------------------------------------------
(* Numbers and sequences.                                                  *)

\* A set of numbers has a least one ...
LEMMA Least ==
    ASSUME NEW T \in SUBSET Nat, T # {}
    PROVE  \E x \in T : \A y \in T : x <= y
<1>1. PICK x \in T : \A y \in T : ~(<<y, x>> \in OpToRel(<, Nat))
  BY NatLessThanWellFounded, WFMin, Zenon
<1>2. \A y \in T : ~(y < x)
  BY <1>1 DEF OpToRel
<1> QED
  BY <1>2

\* ... and, below a bound, a greatest one.
LEMMA Greatest ==
    ASSUME NEW n \in Nat, NEW T \in SUBSET (0 .. n), T # {}
    PROVE  \E x \in T : \A y \in T : x >= y
<1> DEFINE U == {n - y : y \in T}
<1>0. \A y \in T : y \in 0 .. n /\ n - y \in Nat
  OBVIOUS
<1>1. U \in SUBSET Nat /\ U # {}
  BY <1>0
<1>2. PICK u \in U : \A v \in U : u <= v
  BY <1>1, Least
<1>3. PICK x \in T : u = n - x
  OBVIOUS
<1>4. ASSUME NEW y \in T PROVE x >= y
  <2>1. n - y \in U
    OBVIOUS
  <2>2. n - x <= n - y
    BY <1>2, <1>3, <2>1
  <2>3. x \in 0 .. n /\ y \in 0 .. n
    OBVIOUS
  <2> QED
    BY <2>2, <2>3
<1> QED
  BY <1>4

-----------------------------------------------------------------------------
(* Paths.                                                                  *)

AnyPath == Seq(Name)

LEMMA PathFacts ==
    ASSUME NEW p \in Path
    PROVE  /\ p \in AnyPath /\ p # Root /\ Len(p) \in Nat /\ Len(p) > 0
           /\ splitParent(p) \in Path \cup {Root}
<1>1. p \in Seq(Name) /\ p # <<>> /\ splitParent(p) \in Path \cup {Root}
  BY NamespaceAssumption DEF Root
<1> QED
  BY <1>1, EmptySeq DEF AnyPath, Root

LEMMA UnderIs ==
    ASSUME NEW d \in AnyPath, NEW p \in AnyPath
    PROVE  Under(d, p) <=> Len(d) < Len(p) /\ \A i \in 1 .. Len(d) : d[i] = p[i]
<1> USE DEF AnyPath
<1>1. /\ Len(d) \in Nat /\ Len(p) \in Nat
      /\ \A i \in 1 .. Len(d) : d[i] \in Name
      /\ \A i \in 1 .. Len(p) : p[i] \in Name
  BY LenProperties, ElementOfSeq
<1>2. SubSeq(d, 1, Len(d)) = d
  BY SubSeqFull
<1>3. ASSUME Len(d) <= Len(p)
      PROVE  /\ SubSeq(p, 1, Len(d)) \in Seq(Name) /\ Len(SubSeq(p, 1, Len(d))) = Len(d)
             /\ \A i \in 1 .. Len(d) : SubSeq(p, 1, Len(d))[i] = p[i]
  <2>1. \A i \in 1 .. Len(d) : p[i] \in Name
    BY <1>1, <1>3
  <2> QED
    BY <1>1, <2>1, SubSeqProperties
<1>4. ASSUME Under(d, p) PROVE Len(d) < Len(p) /\ \A i \in 1 .. Len(d) : d[i] = p[i]
  <2>1. Len(d) <= Len(p) /\ d = SubSeq(p, 1, Len(d)) /\ d # p
    BY <1>2, <1>4 DEF Under, IsStrictPrefix, IsPrefix
  <2>2. Len(d) # Len(p)
    BY <2>1, SubSeqFull
  <2> QED
    BY <1>1, <1>3, <2>1, <2>2
<1>5. ASSUME Len(d) < Len(p), \A i \in 1 .. Len(d) : d[i] = p[i] PROVE Under(d, p)
  <2>1. SubSeq(p, 1, Len(d)) = d
    BY <1>1, <1>3, <1>5, SeqEqual
  <2> QED
    BY <1>1, <1>2, <1>5, <2>1 DEF Under, IsStrictPrefix, IsPrefix
<1> QED
  BY <1>4, <1>5

LEMMA ParentIs ==
    ASSUME NEW p \in AnyPath, p # Root
    PROVE  /\ splitParent(p) \in AnyPath /\ Len(splitParent(p)) = Len(p) - 1
           /\ \A i \in 1 .. Len(p) - 1 : splitParent(p)[i] = p[i]
           /\ Len(p) \in Nat /\ Len(p) > 0
<1>1. Len(p) \in Nat /\ Len(p) > 0 /\ \A i \in 1 .. Len(p) : p[i] \in Name
  BY EmptySeq, ElementOfSeq DEF AnyPath, Root
<1> DEFINE f == SubSeq(p, 1, Len(p) - 1)
<1>2. PICK n \in Nat : n = Len(p) - 1
  BY <1>1
<1>3. \A i \in 1 .. n : p[i] \in Name
  BY <1>1, <1>2
<1>4. f = SubSeq(p, 1, n) /\ splitParent(p) = f
  BY <1>2 DEF splitParent, Front
<1>5. /\ f \in Seq(Name) /\ Len(f) = IF 1 <= n THEN n - 1 + 1 ELSE 0
      /\ \A i \in 1 .. n - 1 + 1 : f[i] = p[1 + i - 1]
  BY <1>3, <1>4, SubSeqProperties
<1> HIDE DEF f
<1>6. Len(f) = n
  BY <1>5
<1>7. ASSUME NEW i \in 1 .. n PROVE f[i] = p[i]
  <2>1. i \in 1 .. n - 1 + 1 /\ 1 + i - 1 = i
    OBVIOUS
  <2> QED
    BY <1>5, <2>1
<1> QED
  BY <1>1, <1>2, <1>4, <1>5, <1>6, <1>7 DEF AnyPath

LEMMA GraftIs ==
    ASSUME NEW from \in AnyPath, NEW to \in AnyPath, NEW p \in AnyPath, Under(from, p)
    PROVE  /\ Graft(from, to, p) \in AnyPath
           /\ Len(Graft(from, to, p)) = Len(to) + Len(p) - Len(from)
           /\ \A i \in 1 .. Len(to) : Graft(from, to, p)[i] = to[i]
           /\ \A i \in Len(to) + 1 .. Len(to) + Len(p) - Len(from) :
                  Graft(from, to, p)[i] = p[i - Len(to) + Len(from)]
           /\ Len(from) \in Nat /\ Len(to) \in Nat /\ Len(p) \in Nat /\ Len(from) < Len(p)
<1> USE DEF AnyPath
<1> DEFINE rest == SubSeq(p, Len(from) + 1, Len(p))
<1>1. /\ Len(from) \in Nat /\ Len(to) \in Nat /\ Len(p) \in Nat /\ Len(from) < Len(p)
      /\ \A i \in 1 .. Len(p) : p[i] \in Name
  BY LenProperties, ElementOfSeq, UnderIs
<1>2. \A i \in Len(from) + 1 .. Len(p) : p[i] \in Name
  BY <1>1
<1>3. /\ rest \in Seq(Name) /\ Len(rest) = Len(p) - Len(from)
      /\ \A i \in 1 .. Len(p) - Len(from) : rest[i] = p[Len(from) + i]
  <2>1. /\ rest \in Seq(Name)
        /\ Len(rest) = IF Len(from) + 1 <= Len(p) THEN Len(p) - (Len(from) + 1) + 1 ELSE 0
        /\ \A i \in 1 .. Len(p) - (Len(from) + 1) + 1 : rest[i] = p[Len(from) + 1 + i - 1]
    BY <1>1, <1>2, SubSeqProperties
  <2> QED
    BY <1>1, <2>1
<1> HIDE DEF rest
<1>4. /\ to \o rest \in Seq(Name) /\ Len(to \o rest) = Len(to) + Len(rest)
      /\ \A i \in 1 .. Len(to) + Len(rest) : (to \o rest)[i] = IF i <= Len(to) THEN to[i] ELSE rest[i - Len(to)]
  BY <1>3, ConcatProperties
<1>5. Graft(from, to, p) = to \o rest
  BY DEF Graft, rest
<1>6. Len(Graft(from, to, p)) = Len(to) + Len(p) - Len(from)
  BY <1>1, <1>3, <1>4, <1>5
<1>7. \A i \in 1 .. Len(to) : Graft(from, to, p)[i] = to[i]
  BY <1>1, <1>3, <1>4, <1>5
<1>8. ASSUME NEW i \in Len(to) + 1 .. Len(to) + Len(p) - Len(from)
      PROVE  Graft(from, to, p)[i] = p[i - Len(to) + Len(from)]
  <2>1. (to \o rest)[i] = rest[i - Len(to)] /\ i - Len(to) \in 1 .. Len(p) - Len(from)
    BY <1>1, <1>3, <1>4
  <2>2. rest[i - Len(to)] = p[Len(from) + (i - Len(to))]
    BY <1>3, <2>1
  <2>3. Len(from) + (i - Len(to)) = i - Len(to) + Len(from)
    BY <1>1
  <2> QED
    BY <1>5, <2>1, <2>2, <2>3
<1> QED
  BY <1>1, <1>4, <1>5, <1>6, <1>7, <1>8

LEMMA Lengths ==
    ASSUME NEW p \in AnyPath
    PROVE  Len(p) \in Nat
BY LenProperties DEF AnyPath

LEMMA SamePath ==
    ASSUME NEW p \in AnyPath, NEW q \in AnyPath, Len(p) = Len(q), \A i \in 1 .. Len(p) : p[i] = q[i]
    PROVE  p = q
BY SeqEqual DEF AnyPath

LEMMA UnderOrder ==
    ASSUME NEW p \in AnyPath, NEW q \in AnyPath
    PROVE  /\ ~Under(p, p) /\ ~(Under(p, q) /\ Under(q, p))
           /\ Under(p, q) => q # Root /\ p # q
           /\ \A r \in AnyPath : Under(p, q) /\ Under(q, r) => Under(p, r)
<1>1. Len(p) \in Nat /\ Len(q) \in Nat
  BY Lengths
<1>2. ~Under(p, p) /\ ~(Under(p, q) /\ Under(q, p))
  BY <1>1, UnderIs
<1>3. Under(p, q) => q # Root /\ p # q
  <2> SUFFICES ASSUME Under(p, q) PROVE q # Root
    BY <1>2
  <2>1. Len(q) > 0
    BY <1>1, UnderIs
  <2>2. Len(<<>>) = 0
    BY EmptySeq
  <2> QED
    BY <2>1, <2>2 DEF Root
<1>4. ASSUME NEW r \in AnyPath, Under(p, q), Under(q, r) PROVE Under(p, r)
  <2>1. Len(r) \in Nat
    BY Lengths
  <2>2. Len(p) < Len(q) /\ Len(q) < Len(r)
    BY <1>4, UnderIs
  <2>3. ASSUME NEW i \in 1 .. Len(p) PROVE p[i] = r[i]
    <3>1. i \in 1 .. Len(q)
      BY <1>1, <2>2
    <3> QED
      BY <1>4, <3>1, UnderIs
  <2> QED
    BY <1>1, <2>1, <2>2, <2>3, UnderIs
<1> QED
  BY <1>2, <1>3, <1>4

LEMMA ParentUnder ==
    ASSUME NEW p \in AnyPath, p # Root
    PROVE  /\ splitParent(p) \in AnyPath /\ Under(splitParent(p), p) /\ splitParent(p) # p
           /\ \A d \in AnyPath : Under(d, p) => d = splitParent(p) \/ Under(d, splitParent(p))
           /\ \A d \in AnyPath : Under(d, splitParent(p)) => Under(d, p)
<1> DEFINE f == splitParent(p)
<1>1. /\ f \in AnyPath /\ Len(f) = Len(p) - 1 /\ \A i \in 1 .. Len(p) - 1 : f[i] = p[i]
      /\ Len(p) \in Nat /\ Len(p) > 0
  BY ParentIs
<1> HIDE DEF f
<1>2. Under(f, p)
  BY <1>1, UnderIs
<1>3. ASSUME NEW d \in AnyPath, Under(d, p) PROVE d = f \/ Under(d, f)
  <2>1. Len(d) \in Nat /\ Len(d) < Len(p) /\ \A i \in 1 .. Len(d) : d[i] = p[i]
    BY <1>3, UnderIs, Lengths
  <2>2. \A i \in 1 .. Len(d) : d[i] = f[i]
    <3> SUFFICES ASSUME NEW i \in 1 .. Len(d) PROVE d[i] = f[i]
      OBVIOUS
    <3>1. i \in 1 .. Len(p) - 1
      BY <1>1, <2>1
    <3> QED
      BY <1>1, <2>1, <3>1
  <2>3. CASE Len(d) = Len(f)
    BY <1>1, <2>2, <2>3, SamePath
  <2>4. CASE Len(d) < Len(f)
    BY <1>1, <2>2, <2>4, UnderIs
  <2> QED
    BY <1>1, <2>1, <2>3, <2>4
<1>4. ASSUME NEW d \in AnyPath, Under(d, f) PROVE Under(d, p)
  BY <1>1, <1>2, <1>4, UnderOrder
<1>5. f # p
  BY <1>1, <1>2, UnderOrder
<1> QED
  BY <1>1, <1>2, <1>3, <1>4, <1>5 DEF f

\* A graft keeps what is below the root of the subtree and can be undone.
LEMMA GraftFacts ==
    ASSUME NEW from \in AnyPath, NEW to \in AnyPath, NEW p \in AnyPath, Under(from, p)
    PROVE  /\ Graft(from, to, p) \in AnyPath
           /\ Under(to, Graft(from, to, p))
           /\ Graft(to, from, Graft(from, to, p)) = p
           /\ splitParent(Graft(from, to, p)) =
                  IF splitParent(p) = from THEN to ELSE Graft(from, to, splitParent(p))
<1> DEFINE g == Graft(from, to, p)
           a == Len(from)
           b == Len(to)
           n == Len(p)
<1>1. /\ g \in AnyPath /\ Len(g) = b + n - a
      /\ \A i \in 1 .. b : g[i] = to[i]
      /\ \A i \in b + 1 .. b + n - a : g[i] = p[i - b + a]
      /\ a \in Nat /\ b \in Nat /\ n \in Nat /\ a < n
  BY GraftIs
<1> HIDE DEF g, a, b, n
<1>2. Under(to, g)
  BY <1>1, UnderIs DEF b
<1>3. \A i \in 1 .. a : p[i] = from[i]
  BY UnderIs DEF a
<1>4. Graft(to, from, g) = p
  <2> DEFINE h == Graft(to, from, g)
  <2>1. /\ h \in AnyPath /\ Len(h) = a + Len(g) - b
        /\ \A i \in 1 .. a : h[i] = from[i]
        /\ \A i \in a + 1 .. a + Len(g) - b : h[i] = g[i - a + b]
    BY ZenonT(60), <1>1, <1>2, GraftIs DEF a, b
  <2> HIDE DEF h
  <2>2. Len(h) = n /\ a + Len(g) - b = n
    BY <1>1, <2>1
  <2>3. ASSUME NEW i \in 1 .. n PROVE h[i] = p[i]
    <3>1. CASE i <= a
      <4>1. i \in 1 .. a
        BY <1>1, <3>1
      <4> QED
        BY <1>3, <2>1, <4>1
    <3>2. CASE i > a
      <4>1. i \in a + 1 .. n /\ i - a + b \in b + 1 .. b + n - a /\ i - a + b - b + a = i
        BY <1>1, <3>2
      <4>2. h[i] = g[i - a + b]
        BY <2>1, <2>2, <4>1
      <4>3. g[i - a + b] = p[i - a + b - b + a]
        BY <1>1, <4>1
      <4> QED
        BY <4>1, <4>2, <4>3
    <3> QED
      BY <1>1, <3>1, <3>2
  <2>4. h = p
    BY <2>1, <2>2, <2>3, SamePath DEF n
  <2> QED
    BY <2>4 DEF h
<1>5. g # Root /\ p # Root
  BY <1>1, <1>2, UnderOrder
<1>6. /\ splitParent(g) \in AnyPath /\ Len(splitParent(g)) = b + n - a - 1
      /\ \A i \in 1 .. b + n - a - 1 : splitParent(g)[i] = g[i]
  BY <1>1, <1>5, ParentIs
<1>7. /\ splitParent(p) \in AnyPath /\ Len(splitParent(p)) = n - 1
      /\ \A i \in 1 .. n - 1 : splitParent(p)[i] = p[i]
  BY <1>1, <1>5, ParentIs DEF n
<1>8. CASE splitParent(p) = from
  <2>1. a = n - 1
    BY <1>7, <1>8 DEF a
  <2>2. Len(splitParent(g)) = b /\ \A i \in 1 .. b : splitParent(g)[i] = to[i]
    BY <1>1, <1>6, <2>1
  <2>3. splitParent(g) = to
    BY <1>6, <2>2, SamePath DEF b
  <2> QED
    BY <1>1, <1>2, <1>4, <1>8, <2>3 DEF g
<1>9. CASE splitParent(p) # from
  <2> DEFINE f == splitParent(p)
             h == Graft(from, to, f)
  <2>1. Under(from, f)
    BY <1>5, <1>9, ParentUnder
  <2>2. /\ h \in AnyPath /\ Len(h) = b + (n - 1) - a
        /\ \A i \in 1 .. b : h[i] = to[i]
        /\ \A i \in b + 1 .. b + (n - 1) - a : h[i] = f[i - b + a]
        /\ a < n - 1
    <3>1. f \in AnyPath /\ Len(f) = n - 1
      BY <1>7
    <3> HIDE DEF f
    <3>2. /\ h \in AnyPath /\ Len(h) = b + Len(f) - a
          /\ \A i \in 1 .. b : h[i] = to[i]
          /\ \A i \in b + 1 .. b + Len(f) - a : h[i] = f[i - b + a]
          /\ a < Len(f)
      BY ZenonT(60), <2>1, <3>1, GraftIs DEF a, b
    <3> QED
      BY <3>1, <3>2
  <2> HIDE DEF h
  <2>3. Len(h) = b + n - a - 1
    BY <1>1, <2>2
  <2>4. ASSUME NEW i \in 1 .. b + n - a - 1 PROVE splitParent(g)[i] = h[i]
    <3>1. splitParent(g)[i] = g[i]
      BY <1>6
    <3>2. CASE i <= b
      <4>1. i \in 1 .. b
        BY <1>1, <3>2
      <4> QED
        BY <1>1, <2>2, <3>1, <4>1
    <3>3. CASE i > b
      <4>1. i \in b + 1 .. b + n - a /\ i \in b + 1 .. b + (n - 1) - a /\ i - b + a \in 1 .. n - 1
        BY <1>1, <3>3
      <4>2. g[i] = p[i - b + a] /\ h[i] = f[i - b + a] /\ f[i - b + a] = p[i - b + a]
        BY <1>1, <1>7, <2>2, <4>1
      <4> QED
        BY <3>1, <4>2
    <3> QED
      BY <1>1, <3>2, <3>3
  <2>5. splitParent(g) = h
    BY <1>6, <2>2, <2>3, <2>4, SamePath
  <2> QED
    BY <1>1, <1>2, <1>4, <1>9, <2>5 DEF g, h
<1> QED
  BY <1>8, <1>9

-----------------------------------------------------------------------------
(* The tables as a tree.                                                   *)

(* Well-formed tables, without the ways to ask for a kind.                 *)
Sound(t) ==
    /\ \A p \in Path : OneKind(t, p)
    /\ Rows(t) \subseteq t.de
    /\ \A q \in t.de : splitParent(q) = Root \/ splitParent(q) \in t.de \ Rows(t)

(* The node at a name, when the tables are sound.                          *)
Local(t, p) ==
    IF t.mf[p] # None THEN <<"file", t.mf[p].ino>>
    ELSE IF p \in t.ln THEN <<"symlink", 0>>
    ELSE IF p \in t.sp THEN <<"special", 0>>
    ELSE IF p \in t.de THEN <<"dir", 0>>
    ELSE <<"absent", 0>>

LEMMA TableFields ==
    ASSUME NEW t \in Tables
    PROVE  /\ t.mf \in [Path -> Manifest \cup {None}] /\ t.id \in Nat
           /\ t.ln \subseteq Path /\ t.sp \subseteq Path /\ t.de \subseteq Path
           /\ Rows(t) \subseteq Path
           /\ \A p \in Path : p \in Rows(t) <=> t.mf[p] # None \/ p \in t.ln \/ p \in t.sp
           /\ \A p \in Path : t.mf[p] # None => t.mf[p] \in Manifest
BY DEF Tables, Rows

LEMMA KindIs ==
    ASSUME NEW t \in Tables, Parents(t) \/ Sound(t), NEW p \in Path
    PROVE  /\ resolveKind(t, p) = Local(t, p)[1]
           /\ Node(t, p) = Local(t, p)
<1>1. Children(t, p) # {} => p \in t.de
  <2> SUFFICES ASSUME NEW q \in t.de, splitParent(q) = p PROVE p \in t.de
    BY DEF Children
  <2>1. p # Root
    BY PathFacts
  <2> QED
    BY <2>1 DEF Parents, Sound
<1>2. resolveKind(t, p) = Local(t, p)[1]
  BY <1>1 DEF resolveKind, Local
<1>3. t.mf[p] = None => Local(t, p)[2] = 0
  BY DEF Local
<1> QED
  BY <1>2, <1>3 DEF Node, Local

LEMMA SoundIs ==
    ASSUME NEW t \in Tables
    PROVE  WellFormed(t) /\ Parents(t) <=> Sound(t)
<1> USE TableFields
<1>1. ASSUME WellFormed(t), Parents(t) PROVE Sound(t)
  <2>1. ASSUME NEW q \in t.de, splitParent(q) # Root PROVE splitParent(q) \in t.de \ Rows(t)
    <3>1. splitParent(q) \in t.de /\ splitParent(q) \in Path
      BY <1>1, <2>1 DEF Parents
    <3>2. resolveKind(t, splitParent(q)) = "dir"
      BY <1>1, <2>1 DEF WellFormed, InDirectory, IsDir
    <3>3. splitParent(q) \notin Rows(t)
      BY <1>1, <3>1, <3>2, KindIs DEF Local
    <3> QED
      BY <3>1, <3>3
  <2> QED
    BY <1>1, <2>1 DEF Sound, WellFormed, Listed
<1>2. ASSUME Sound(t) PROVE WellFormed(t) /\ Parents(t)
  <2>1. Parents(t)
    BY <1>2 DEF Sound, Parents
  <2>2. ASSUME NEW q \in t.de PROVE IsDir(t, splitParent(q))
    <3>1. CASE splitParent(q) = Root
      BY <3>1 DEF IsDir
    <3>2. CASE splitParent(q) \in t.de \ Rows(t)
      <4>1. splitParent(q) \in Path
        BY <3>2
      <4>2. Local(t, splitParent(q))[1] = "dir"
        BY <3>2, <4>1 DEF Local
      <4> QED
        BY <1>2, <4>1, <4>2, KindIs DEF IsDir
    <3> QED
      BY <1>2, <3>1, <3>2 DEF Sound
  <2> QED
    BY <1>2, <2>1, <2>2 DEF Sound, WellFormed, Listed, InDirectory
<1> QED
  BY <1>1, <1>2

LEMMA DirIs ==
    ASSUME NEW t \in Tables, Sound(t), NEW d \in Path \cup {Root}
    PROVE  IsDir(t, d) <=> d = Root \/ d \in t.de \ Rows(t)
<1> USE TableFields
<1>1. CASE d = Root
  BY <1>1 DEF IsDir
<1>2. CASE d # Root
  <2>1. d \in Path /\ resolveKind(t, d) = Local(t, d)[1]
    BY <1>2, KindIs
  <2> QED
    BY <1>2, <2>1 DEF IsDir, Local
<1> QED
  BY <1>1, <1>2

\* A name without children has nothing below it.
LEMMA NothingBelow ==
    ASSUME NEW t \in Tables, Sound(t), NEW p \in Path, \A q \in t.de : splitParent(q) # p
    PROVE  \A q \in t.de : ~Under(p, q)
<1> SUFFICES ASSUME NEW q0 \in t.de, Under(p, q0) PROVE FALSE
  OBVIOUS
<1> DEFINE B == {q \in t.de : Under(p, q)}
           L == {Len(q) : q \in B}
<1>1. \A q \in t.de : q \in Path /\ q \in AnyPath /\ q # Root /\ Len(q) \in Nat
  BY TableFields, PathFacts
<1>2. L \in SUBSET Nat /\ L # {}
  BY <1>1
<1>3. PICK n \in L : \A m \in L : n <= m
  BY <1>2, Least
<1>4. PICK q \in B : n = Len(q)
  OBVIOUS
<1>5. p \in AnyPath /\ q \in AnyPath /\ q # Root /\ Len(q) \in Nat
  BY <1>1, PathFacts
<1>6. Under(p, splitParent(q)) /\ splitParent(q) \in AnyPath
  BY <1>5, ParentUnder
<1>7. splitParent(q) # Root
  BY <1>5, <1>6, UnderOrder
<1>8. splitParent(q) \in B
  BY <1>6, <1>7 DEF Sound
<1>9. Len(splitParent(q)) = Len(q) - 1
  BY <1>5, ParentIs
<1>10. Len(splitParent(q)) \in L
  BY <1>8
<1> QED
  BY SMTT(30), <1>3, <1>4, <1>5, <1>9, <1>10

-----------------------------------------------------------------------------
(* What a change of the tables is to the tree.                             *)

(* The name q of u holds what the name p of t holds; it holds nothing.     *)
Like(u, q, t, p) ==
    /\ u.mf[q] = None <=> t.mf[p] = None
    /\ t.mf[p] # None => u.mf[q].ino = t.mf[p].ino
    /\ q \in u.ln <=> p \in t.ln
    /\ q \in u.sp <=> p \in t.sp
    /\ q \in u.de <=> p \in t.de
Blank(t, p) == t.mf[p] = None /\ p \notin t.ln /\ p \notin t.sp /\ p \notin t.de
DirEntry(t, d) == d = Root \/ d \in t.de \ Rows(t)
Numbers(t) == \A p \in Path : t.mf[p] # None => t.mf[p].ino \in 1 .. MaxOp

LEMMA LikeIs ==
    ASSUME NEW t \in Tables, NEW u \in Tables, NEW p \in Path, NEW q \in Path, Like(u, q, t, p)
    PROVE  /\ Local(u, q) = Local(t, p)
           /\ OneKind(t, p) => OneKind(u, q)
           /\ q \in Rows(u) <=> p \in Rows(t)
           /\ q \in u.de <=> p \in t.de
<1>1. Local(u, q) = Local(t, p)
  BY DEF Like, Local
<1>2. OneKind(t, p) => OneKind(u, q)
  BY DEF Like, OneKind
<1>3. q \in Rows(u) <=> p \in Rows(t)
  BY TableFields DEF Like
<1> QED
  BY <1>1, <1>2, <1>3 DEF Like

LEMMA BlankIs ==
    ASSUME NEW t \in Tables, NEW p \in Path, Blank(t, p)
    PROVE  Local(t, p) = Tree!Absent /\ OneKind(t, p) /\ p \notin Rows(t) /\ p \notin t.de
<1>1. p \notin Rows(t)
  BY TableFields DEF Blank
<1>2. Local(t, p) = Tree!Absent
  BY DEF Blank, Local, Tree!Absent
<1> QED
  BY <1>1, <1>2 DEF Blank, OneKind

LEMMA AbsentIs ==
    ASSUME NEW t \in Tables, Sound(t), NEW p \in Path
    PROVE  /\ Local(t, p) = Tree!Absent <=> p \notin t.de
           /\ p \notin t.de <=> Blank(t, p)
           /\ Local(t, p) = Tree!Dir <=> p \in t.de \ Rows(t)
<1>1. p \notin t.de <=> Blank(t, p)
  BY TableFields DEF Blank, Sound
<1>2. Local(t, p) = Tree!Absent <=> p \notin t.de
  BY <1>1, TableFields DEF Local, Blank, Tree!Absent, Sound
<1>3. Local(t, p) = Tree!Dir <=> p \in t.de \ Rows(t)
  BY TableFields DEF Local, Tree!Dir, Sound
<1> QED
  BY <1>1, <1>2, <1>3

LEMMA TreeIs ==
    ASSUME NEW t \in Tables, Sound(t)
    PROVE  TreeOf(t) = [p \in Path |-> Local(t, p)]
BY KindIs DEF TreeOf

LEMMA TreeDirs ==
    ASSUME NEW t \in Tables, Sound(t), NEW d \in Path \cup {Root}, DirEntry(t, d)
    PROVE  Tree!IsDir(TreeOf(t), d)
<1>1. CASE d = Root
  BY <1>1 DEF Tree!IsDir, Root
<1>2. CASE d # Root
  <2>1. d \in Path /\ d \in t.de \ Rows(t)
    BY <1>2 DEF DirEntry
  <2> QED
    BY <2>1, TreeIs, AbsentIs DEF Tree!IsDir
<1> QED
  BY <1>1, <1>2

LEMMA TreeEmpty ==
    ASSUME NEW t \in Tables, Sound(t), NEW d \in Path, \A q \in t.de : ~Under(d, q)
    PROVE  Tree!IsEmpty(TreeOf(t), d)
<1> SUFFICES ASSUME NEW q \in Path, IsStrictPrefix(d, q) PROVE TreeOf(t)[q] = Tree!Absent
  BY DEF Tree!IsEmpty, Tree!IsStrictPrefix, Tree!IsPrefix, IsStrictPrefix, IsPrefix
<1>1. q \notin t.de
  BY DEF Under
<1> QED
  BY <1>1, TreeIs, AbsentIs

LEMMA KeepsNodes ==
    ASSUME NEW t \in Tables, NEW u \in Tables, Sound(t), \A q \in Path : Like(u, q, t, q)
    PROVE  Sound(u) /\ TreeOf(u) = TreeOf(t)
<1>1. \A q \in Path : /\ Local(u, q) = Local(t, q) /\ OneKind(u, q)
                      /\ q \in Rows(u) <=> q \in Rows(t)
                      /\ q \in u.de <=> q \in t.de
  BY LikeIs DEF Sound
<1>2. u.de = t.de /\ Rows(u) = Rows(t)
  BY <1>1, TableFields
<1>3. Sound(u)
  BY <1>1, <1>2 DEF Sound
<1> QED
  BY <1>1, <1>3, TreeIs

LEMMA MakesNode ==
    ASSUME NEW t \in Tables, NEW u \in Tables, Sound(t), Numbers(u),
           NEW p \in Path, p \notin t.de, DirEntry(t, splitParent(p)),
           \A q \in Path \ {p} : Like(u, q, t, q), p \in u.de, OneKind(u, p)
    PROVE  Sound(u) /\ Tree!Step(TreeOf(t), TreeOf(u))
<1>1. \A q \in Path \ {p} : /\ Local(u, q) = Local(t, q) /\ OneKind(u, q)
                            /\ q \in Rows(u) <=> q \in Rows(t)
                            /\ q \in u.de <=> q \in t.de
  BY LikeIs DEF Sound
<1>2. Rows(u) \subseteq u.de
  BY <1>1, TableFields DEF Sound
<1>3. p \in AnyPath /\ p # Root /\ splitParent(p) \in Path \cup {Root} /\ splitParent(p) # p
  BY PathFacts, ParentUnder
<1>4. ASSUME NEW q \in u.de PROVE DirEntry(u, splitParent(q))
  <2>1. q \in Path
    BY TableFields
  <2>2. DirEntry(t, splitParent(q))
    BY <1>1, <2>1 DEF Sound, DirEntry
  <2>3. splitParent(q) # p
    BY <2>2, <1>3 DEF DirEntry
  <2>4. splitParent(q) \in Path \cup {Root}
    BY <2>1, PathFacts
  <2> QED
    BY <1>1, <2>2, <2>3, <2>4 DEF DirEntry
<1>5. Sound(u)
  <2>1. \A q \in Path : OneKind(u, q)
    BY <1>1
  <2> QED
    BY <1>2, <1>4, <2>1 DEF Sound, DirEntry
<1>6. TreeOf(t)[p] = Tree!Absent
  BY TreeIs, AbsentIs
<1>7. TreeOf(u) = [TreeOf(t) EXCEPT ![p] = Local(u, p)]
  BY <1>1, <1>5, TreeIs
<1>8. Local(u, p) \in Tree!Nodes
  <2>1. CASE u.mf[p] # None
    <3>1. u.mf[p].ino \in 1 .. MaxOp /\ Local(u, p) = <<"file", u.mf[p].ino>>
      BY <2>1 DEF Numbers, Local
    <3> QED
      BY <3>1 DEF Tree!Nodes
  <2>2. CASE u.mf[p] = None
    BY <2>2 DEF Local, Tree!Nodes, Tree!Dir
  <2> QED
    BY <2>1, <2>2
<1>9. Tree!IsDir(TreeOf(t), Front(p))
  BY <1>3, TreeDirs DEF splitParent
<1>10. Tree!Makes(TreeOf(t), TreeOf(u), p, Local(u, p))
  BY <1>6, <1>7, <1>9 DEF Tree!Makes, Tree!Front, Front
<1> QED
  BY <1>5, <1>8, <1>10 DEF Tree!Step

LEMMA UnmakesNode ==
    ASSUME NEW t \in Tables, NEW u \in Tables, Sound(t),
           NEW p \in Path, p \in t.de, \A q \in t.de : splitParent(q) # p,
           \A q \in Path \ {p} : Like(u, q, t, q), Blank(u, p)
    PROVE  Sound(u) /\ Tree!Step(TreeOf(t), TreeOf(u))
<1>1. \A q \in Path \ {p} : /\ Local(u, q) = Local(t, q) /\ OneKind(u, q)
                            /\ q \in Rows(u) <=> q \in Rows(t)
                            /\ q \in u.de <=> q \in t.de
  BY LikeIs DEF Sound
<1>2. Local(u, p) = Tree!Absent /\ OneKind(u, p) /\ p \notin Rows(u) /\ p \notin u.de
  BY BlankIs
<1>3. Rows(u) \subseteq u.de
  BY <1>1, <1>2, TableFields DEF Sound
<1>4. ASSUME NEW q \in u.de PROVE DirEntry(u, splitParent(q))
  <2>1. q \in Path /\ q \in t.de
    BY <1>1, <1>2, TableFields
  <2>2. DirEntry(t, splitParent(q)) /\ splitParent(q) # p
    BY <2>1 DEF Sound, DirEntry
  <2>3. splitParent(q) \in Path \cup {Root}
    BY <2>1, PathFacts
  <2> QED
    BY <1>1, <2>2, <2>3 DEF DirEntry
<1>5. Sound(u)
  <2>1. \A q \in Path : OneKind(u, q)
    BY <1>1, <1>2
  <2> QED
    BY <1>3, <1>4, <2>1 DEF Sound, DirEntry
<1>6. TreeOf(t)[p] # Tree!Absent
  BY TreeIs, AbsentIs
<1>7. TreeOf(u) = [TreeOf(t) EXCEPT ![p] = Tree!Absent]
  BY <1>1, <1>2, <1>5, TreeIs
<1>8. Tree!IsEmpty(TreeOf(t), p)
  BY NothingBelow, TreeEmpty
<1>9. Tree!Unmakes(TreeOf(t), TreeOf(u), p)
  BY <1>6, <1>7, <1>8 DEF Tree!Unmakes
<1> QED
  BY <1>5, <1>9 DEF Tree!Step

LEMMA PrefixIs ==
    ASSUME NEW d \in AnyPath, NEW p \in AnyPath
    PROVE  /\ Tree!IsPrefix(d, p) <=> p = d \/ Under(d, p)
           /\ Tree!IsStrictPrefix(d, p) <=> Under(d, p)
<1>1. Len(d) \in Nat /\ SubSeq(d, 1, Len(d)) = d
  BY Lengths, SubSeqFull DEF AnyPath
<1>2. Tree!IsPrefix(d, d)
  BY <1>1 DEF Tree!IsPrefix
<1>3. Tree!IsPrefix(d, p) <=> IsPrefix(d, p)
  BY DEF Tree!IsPrefix, IsPrefix
<1>4. Under(d, p) <=> IsPrefix(d, p) /\ d # p
  BY DEF Under, IsStrictPrefix
<1>5. Tree!IsStrictPrefix(d, p) <=> Tree!IsPrefix(d, p) /\ d # p
  BY DEF Tree!IsStrictPrefix
<1> QED
  BY <1>2, <1>3, <1>4, <1>5

LEMMA SourceIs ==
    ASSUME NEW from \in AnyPath, NEW to \in AnyPath
    PROVE  /\ Tree!Source(from, to, to) = from
           /\ \A p : Tree!Source(from, to, p) = Graft(to, from, p)
<1>1. \A p : Tree!Source(from, to, p) = Graft(to, from, p)
  BY DEF Tree!Source, Graft
<1>2. Len(to) \in Nat
  BY Lengths
<1>3. SubSeq(to, Len(to) + 1, Len(to)) = <<>>
  BY <1>2, SubSeqEmpty
<1>4. from \o <<>> = from
  BY ConcatEmptySeq DEF AnyPath
<1> QED
  BY <1>1, <1>3, <1>4 DEF Graft

(* What is at q after the subtree at from has moved to to.                 *)
MovedTo(u, t, from, to, q) ==
    IF Under(to, q) THEN IF Graft(to, from, q) \in Path THEN Like(u, q, t, Graft(to, from, q)) ELSE Blank(u, q)
    ELSE IF q = to THEN Like(u, to, t, from)
    ELSE IF q = from \/ Under(from, q) THEN Blank(u, q)
    ELSE Like(u, q, t, q)

LEMMA MovesSubtree ==
    ASSUME NEW t \in Tables, NEW u \in Tables, Sound(t),
           NEW from \in Path, NEW to \in Path, from \in t.de, from # to, ~Under(from, to),
           DirEntry(t, splitParent(to)), \A q \in t.de : ~Under(to, q),
           to \in t.de => (from \in Rows(t) <=> to \in Rows(t)),
           \A q \in Path : MovedTo(u, t, from, to, q)
    PROVE  Sound(u) /\ Tree!Step(TreeOf(t), TreeOf(u))
<1>1. /\ from \in AnyPath /\ to \in AnyPath /\ from # Root /\ to # Root
      /\ \A q \in Path : q \in AnyPath /\ q # Root /\ splitParent(q) \in Path \cup {Root}
  BY PathFacts
<1>2. ~Under(to, from) /\ ~Under(to, to)
  BY <1>1, UnderOrder
<1>3. \A q \in Path : OneKind(t, q)
  BY DEF Sound
<1>4. ASSUME NEW q \in Path
      PROVE  /\ OneKind(u, q) /\ (q \in Rows(u) => q \in u.de)
             /\ Local(u, q) = IF Tree!IsPrefix(to, q) THEN Tree!At(TreeOf(t), Tree!Source(from, to, q))
                              ELSE IF Tree!IsPrefix(from, q) THEN Tree!Absent
                              ELSE TreeOf(t)[q]
             /\ q \in u.de => DirEntry(u, splitParent(q))
  <2> DEFINE f == splitParent(q)
  <2>0. /\ Tree!IsPrefix(to, q) <=> q = to \/ Under(to, q)
        /\ Tree!IsPrefix(from, q) <=> q = from \/ Under(from, q)
        /\ Tree!Source(from, to, to) = from
        /\ Tree!Source(from, to, q) = Graft(to, from, q)
        /\ \A p \in Path : TreeOf(t)[p] = Local(t, p)
        /\ \A p \in Path : Tree!At(TreeOf(t), p) = Local(t, p)
        /\ \A p : p \notin Path => Tree!At(TreeOf(t), p) = Tree!Absent
    BY <1>1, PrefixIs, SourceIs, TreeIs DEF Tree!At
  <2>1. CASE Under(to, q)
    <3> DEFINE g == Graft(to, from, q)
    <3>1. CASE g \in Path
      <4>1. Like(u, q, t, g)
        BY <2>1, <3>1 DEF MovedTo
      <4>2. Local(u, q) = Local(t, g) /\ OneKind(u, q)
        BY <1>3, <3>1, <4>1, LikeIs
      <4>3. q \in Rows(u) => q \in u.de
        BY <3>1, <4>1, LikeIs DEF Sound
      <4>4. ASSUME q \in u.de PROVE DirEntry(u, f)
        <5>1. g \in t.de
          BY <3>1, <4>1, <4>4 DEF Like
        <5>2. /\ Under(from, g) /\ g \in AnyPath
              /\ splitParent(g) = IF f = to THEN from ELSE Graft(to, from, f)
          BY <1>1, <2>1, GraftFacts
        <5>3. splitParent(g) = from \/ Under(from, splitParent(g))
          BY <1>1, <3>1, <5>2, ParentUnder
        <5>4. splitParent(g) # Root
          BY <1>1, <3>1, <5>3, ParentUnder, UnderOrder
        <5>5. splitParent(g) \in t.de \ Rows(t)
          BY <5>1, <5>4 DEF Sound
        <5>6. CASE f = to
          <6>1. Like(u, to, t, from)
            BY <1>2 DEF MovedTo
          <6>2. to \in u.de \ Rows(u)
            BY <5>2, <5>5, <5>6, <6>1, LikeIs
          <6> QED
            BY <5>6, <6>2 DEF DirEntry
        <5>7. CASE f # to
          <6>1. Under(to, f) /\ f \in AnyPath
            BY <1>1, <2>1, <5>7, ParentUnder
          <6>2. f \in Path
            BY <1>1, <6>1, UnderOrder
          <6>3. Graft(to, from, f) \in t.de \ Rows(t) /\ Graft(to, from, f) \in Path
            BY <5>2, <5>5, <5>7, TableFields
          <6>4. Like(u, f, t, Graft(to, from, f))
            BY <6>1, <6>2, <6>3 DEF MovedTo
          <6>5. f \in u.de \ Rows(u)
            BY <6>2, <6>3, <6>4, LikeIs
          <6> QED
            BY <6>5 DEF DirEntry
        <5> QED
          BY <5>6, <5>7
      <4> QED
        BY <2>0, <2>1, <3>1, <4>2, <4>3, <4>4
    <3>2. CASE g \notin Path
      <4>1. Blank(u, q)
        BY SMTT(30), <2>1, <3>2 DEF MovedTo
      <4> QED
        BY <2>0, <2>1, <3>2, <4>1, BlankIs
    <3> QED
      BY <3>1, <3>2
  <2>2. CASE q = to
    <3>1. Like(u, to, t, from)
      BY <1>2 DEF MovedTo
    <3>2. /\ Local(u, to) = Local(t, from) /\ OneKind(u, to)
          /\ to \in Rows(u) => to \in u.de
      BY <1>3, <3>1, LikeIs DEF Sound
    <3>3. DirEntry(u, f)
      <4>1. CASE f = Root
        BY <4>1 DEF DirEntry
      <4>2. CASE f # Root
        <5>1. f \in t.de \ Rows(t) /\ f \in Path
          BY <2>2, <4>2, TableFields DEF DirEntry
        <5>2. f # to /\ ~Under(to, f) /\ f # from /\ ~Under(from, f)
          BY <1>1, <2>2, <5>1, ParentUnder
        <5>3. Like(u, f, t, f)
          BY <5>1, <5>2 DEF MovedTo
        <5> QED
          BY <5>1, <5>3, LikeIs DEF DirEntry
      <4> QED
        BY <4>1, <4>2
    <3> QED
      BY <2>0, <2>2, <3>2, <3>3
  <2>3. CASE ~Under(to, q) /\ q # to /\ (q = from \/ Under(from, q))
    <3>1. Blank(u, q)
      BY <2>3 DEF MovedTo
    <3> QED
      BY <2>0, <2>3, <3>1, BlankIs
  <2>4. CASE ~Under(to, q) /\ q # to /\ q # from /\ ~Under(from, q)
    <3>1. Like(u, q, t, q)
      BY <2>4 DEF MovedTo
    <3>2. /\ Local(u, q) = Local(t, q) /\ OneKind(u, q)
          /\ q \in Rows(u) => q \in u.de
      BY <1>3, <3>1, LikeIs DEF Sound
    <3>3. ASSUME q \in u.de PROVE DirEntry(u, f)
      <4>1. CASE f = Root
        BY <4>1 DEF DirEntry
      <4>2. CASE f # Root
        <5>1. q \in t.de
          BY <3>1, <3>3 DEF Like
        <5>2. f \in t.de \ Rows(t) /\ f \in Path
          BY <4>2, <5>1, TableFields DEF Sound
        <5>3. Under(f, q) /\ ~Under(from, f) /\ f \in AnyPath
          BY <1>1, <2>4, ParentUnder
        <5>4. f # to /\ ~Under(to, f) /\ f # from
          BY <2>4, <5>1, <5>2, <5>3
        <5>5. Like(u, f, t, f)
          BY <5>2, <5>3, <5>4 DEF MovedTo
        <5> QED
          BY <5>2, <5>5, LikeIs DEF DirEntry
      <4> QED
        BY <4>1, <4>2
    <3> QED
      BY <2>0, <2>4, <3>2, <3>3
  <2> QED
    BY <2>1, <2>2, <2>3, <2>4
<1>5. Sound(u)
  <2>1. Rows(u) \subseteq u.de
    BY <1>4, TableFields
  <2>2. \A q \in u.de : DirEntry(u, splitParent(q))
    BY <1>4, TableFields
  <2> QED
    BY <1>4, <2>1, <2>2 DEF Sound, DirEntry
<1>6. Tree!Moves(TreeOf(t), TreeOf(u), from, to)
  <2>1. TreeOf(t)[from] # Tree!Absent
    BY TreeIs, AbsentIs
  <2>2. TreeOf(u)[from] = Tree!Absent
    <3>1. Blank(u, from)
      BY <1>2 DEF MovedTo
    <3> QED
      BY <1>5, <3>1, BlankIs, TreeIs
  <2>3. ~Tree!IsStrictPrefix(from, to)
    BY <1>1, PrefixIs
  <2>4. Tree!IsDir(TreeOf(t), Tree!Front(to))
    BY <1>1, TreeDirs DEF splitParent, Tree!Front, Front
  <2>5. TreeOf(t)[to] # Tree!Absent => (TreeOf(t)[from] = Tree!Dir <=> TreeOf(t)[to] = Tree!Dir)
    BY TreeIs, AbsentIs
  <2>6. Tree!IsEmpty(TreeOf(t), to)
    BY TreeEmpty
  <2>7. TreeOf(u) = [p \in Path |-> Local(u, p)]
    BY <1>5, TreeIs
  <2>8. TreeOf(u) = [p \in Path |-> IF Tree!IsPrefix(to, p) THEN Tree!At(TreeOf(t), Tree!Source(from, to, p))
                              ELSE IF Tree!IsPrefix(from, p) THEN Tree!Absent
                              ELSE TreeOf(t)[p]]
    BY <1>4, <2>7
  <2> QED
    BY <2>1, <2>2, <2>3, <2>4, <2>5, <2>6, <2>8 DEF Tree!Moves
<1> QED
  BY <1>5, <1>6 DEF Tree!Step

-----------------------------------------------------------------------------
(* What each operation does to the tables.                                 *)

LEMMA VersionIs ==
    ASSUME NEW t \in Tables, NEW p \in Path
    PROVE  Version(t, p) \in Nat /\ (Version(t, p) = 0 <=> t.mf[p] = None)
<1>1. t.mf[p] # None => t.mf[p].ver \in Nat \ {0}
  BY TableFields DEF Manifest
<1> QED
  BY <1>1 DEF Version

LEMMA ContentIs ==
    ASSUME NEW t \in Tables, NEW p \in Path
    PROVE  Content(t, p) \in Nat
<1>1. t.mf[p] # None => t.mf[p].body \in Nat
  BY TableFields DEF Manifest
<1> QED
  BY <1>1 DEF Content

LEMMA ListFields ==
    ASSUME NEW t \in Tables, NEW p \in Path
    PROVE  /\ List(t, p) \in Tables
           /\ List(t, p).mf = t.mf /\ List(t, p).ln = t.ln /\ List(t, p).sp = t.sp
           /\ List(t, p).de = t.de \cup {p} /\ List(t, p).id = t.id
BY DEF List, Tables

LEMMA UnlistFields ==
    ASSUME NEW t \in Tables, NEW p \in Path
    PROVE  /\ Unlist(t, p) \in Tables
           /\ Unlist(t, p).mf = t.mf /\ Unlist(t, p).ln = t.ln /\ Unlist(t, p).sp = t.sp
           /\ Unlist(t, p).de = t.de \ {p} /\ Unlist(t, p).id = t.id
BY DEF Unlist, Tables

LEMMA SetInodeFields ==
    ASSUME NEW t \in Tables, NEW ino, NEW ver \in Nat \ {0}, NEW body \in Nat
    PROVE  LET u == SetInode(t, ino, ver, body)
           IN  /\ u \in Tables
               /\ u.ln = t.ln /\ u.sp = t.sp /\ u.de = t.de /\ u.id = t.id
               /\ \A q \in Path : /\ u.mf[q] = None <=> t.mf[q] = None
                                  /\ t.mf[q] # None => u.mf[q].ino = t.mf[q].ino
                                  /\ t.mf[q] # None /\ t.mf[q].ino = ino => u.mf[q].body = body
<1> DEFINE row(q) == [t.mf[q] EXCEPT !.ver = ver, !.body = body]
           F == [q \in Path |-> IF q \in Names(t, ino) THEN row(q) ELSE t.mf[q]]
<1>1. ASSUME NEW q \in Path, q \in Names(t, ino)
      PROVE  row(q) \in Manifest /\ row(q) # None /\ row(q).ino = t.mf[q].ino /\ row(q).body = body
  <2>1. t.mf[q] \in Manifest
    BY <1>1, TableFields DEF Names
  <2>2. row(q) \in Manifest /\ row(q).ino = t.mf[q].ino /\ row(q).body = body
    BY <2>1 DEF Manifest
  <2> QED
    BY <2>2, NamespaceAssumption
<1>2. \A q \in Path : q \in Names(t, ino) <=> t.mf[q] # None /\ t.mf[q].ino = ino
  BY DEF Names
<1> HIDE DEF row
<1>3. F \in [Path -> Manifest \cup {None}]
  BY <1>1, TableFields
<1>4. \A q \in Path : /\ F[q] = None <=> t.mf[q] = None
                      /\ t.mf[q] # None => F[q].ino = t.mf[q].ino
                      /\ t.mf[q] # None /\ t.mf[q].ino = ino => F[q].body = body
  BY <1>1, <1>2
<1>5. SetInode(t, ino, ver, body) = [t EXCEPT !.mf = F]
  BY DEF SetInode, row
<1> HIDE DEF F
<1>6. /\ [t EXCEPT !.mf = F] \in Tables /\ [t EXCEPT !.mf = F].mf = F
      /\ [t EXCEPT !.mf = F].ln = t.ln /\ [t EXCEPT !.mf = F].sp = t.sp
      /\ [t EXCEPT !.mf = F].de = t.de /\ [t EXCEPT !.mf = F].id = t.id
  BY <1>3 DEF Tables
<1> QED
  BY <1>4, <1>5, <1>6

LEMMA PutNew ==
    ASSUME NEW t \in Tables, NEW p \in Path, NEW body \in Nat, t.mf[p] = None
    PROVE  LET u == Put(t, p, 0, body)
           IN  /\ u \in Tables /\ u.ln = t.ln /\ u.sp = t.sp /\ u.de = t.de \cup {p} /\ u.id = t.id + 1
               /\ u.mf[p] # None /\ u.mf[p].ino = t.id + 1 /\ u.mf[p].body = body
               /\ \A q \in Path \ {p} : u.mf[q] = t.mf[q]
<1> DEFINE row == [ino |-> t.id + 1, ver |-> 1, body |-> body]
           v == [t EXCEPT !.mf[p] = row, !.id = @ + 1]
<1>1. row \in Manifest /\ row # None /\ row.ino = t.id + 1 /\ row.body = body
  <2>1. row \in Manifest
    BY TableFields DEF Manifest
  <2> QED
    BY <2>1, NamespaceAssumption
<1>2. Put(t, p, 0, body) = List(v, p)
  BY DEF Put
<1> HIDE DEF row
<1>3. /\ v \in Tables /\ v.mf = [t.mf EXCEPT ![p] = row]
      /\ v.ln = t.ln /\ v.sp = t.sp /\ v.de = t.de /\ v.id = t.id + 1
  <2> DEFINE F == [t.mf EXCEPT ![p] = row]
  <2>1. F \in [Path -> Manifest \cup {None}] /\ t.id + 1 \in Nat
    BY <1>1, TableFields
  <2>2. v = [t EXCEPT !.mf = F, !.id = t.id + 1]
    BY DEF Tables
  <2> HIDE DEF F, v
  <2>3. v \in Tables /\ v.mf = F /\ v.ln = t.ln /\ v.sp = t.sp /\ v.de = t.de /\ v.id = t.id + 1
    BY <2>1, <2>2 DEF Tables
  <2> QED
    BY <2>3 DEF F
<1> HIDE DEF v
<1>4. v.mf[p] = row /\ \A q \in Path \ {p} : v.mf[q] = t.mf[q]
  BY <1>3, TableFields
<1>5. /\ List(v, p) \in Tables
      /\ List(v, p).mf = v.mf /\ List(v, p).ln = t.ln /\ List(v, p).sp = t.sp
      /\ List(v, p).de = t.de \cup {p} /\ List(v, p).id = t.id + 1
  BY <1>3, ListFields
<1> QED
  BY <1>1, <1>2, <1>4, <1>5

LEMMA PutOver ==
    ASSUME NEW t \in Tables, NEW p \in Path, NEW body \in Nat, NEW exp \in Nat \ {0}, t.mf[p] # None
    PROVE  LET u == Put(t, p, exp, body)
           IN  /\ u \in Tables /\ u.ln = t.ln /\ u.sp = t.sp /\ u.de = t.de \cup {p} /\ u.id = t.id
               /\ u.mf[p].body = body
               /\ \A q \in Path : /\ u.mf[q] = None <=> t.mf[q] = None
                                  /\ t.mf[q] # None => u.mf[q].ino = t.mf[q].ino
<1> DEFINE v == SetInode(t, t.mf[p].ino, exp + 1, body)
<1>1. Put(t, p, exp, body) = List(v, p)
  BY DEF Put
<1>2. /\ v \in Tables
      /\ v.ln = t.ln /\ v.sp = t.sp /\ v.de = t.de /\ v.id = t.id
      /\ \A q \in Path : /\ v.mf[q] = None <=> t.mf[q] = None
                         /\ t.mf[q] # None => v.mf[q].ino = t.mf[q].ino
                         /\ t.mf[q] # None /\ t.mf[q].ino = t.mf[p].ino => v.mf[q].body = body
  <2>1. PICK ver \in Nat \ {0} : ver = exp + 1
    OBVIOUS
  <2>2. PICK ino : ino = t.mf[p].ino
    OBVIOUS
  <2>3. v = SetInode(t, ino, ver, body)
    BY <2>1, <2>2
  <2> HIDE DEF v
  <2>4. /\ v \in Tables
        /\ v.ln = t.ln /\ v.sp = t.sp /\ v.de = t.de /\ v.id = t.id
        /\ \A q \in Path : /\ v.mf[q] = None <=> t.mf[q] = None
                           /\ t.mf[q] # None => v.mf[q].ino = t.mf[q].ino
                           /\ t.mf[q] # None /\ t.mf[q].ino = ino => v.mf[q].body = body
    BY <2>3, SetInodeFields
  <2> QED
    BY <2>2, <2>4
<1> HIDE DEF v
<1>3. /\ List(v, p) \in Tables
      /\ List(v, p).mf = v.mf /\ List(v, p).ln = t.ln /\ List(v, p).sp = t.sp
      /\ List(v, p).de = t.de \cup {p} /\ List(v, p).id = t.id
  BY <1>2, ListFields
<1> QED
  BY <1>1, <1>2, <1>3

LEMMA LinkFields ==
    ASSUME NEW t \in Tables, NEW from \in Path, NEW to \in Path, t.mf[from] # None
    PROVE  LET u == Link(t, from, to)
           IN  /\ u \in Tables /\ u.ln = t.ln /\ u.sp = t.sp /\ u.de = t.de \cup {to} /\ u.id = t.id
               /\ u.mf[to] = t.mf[from] /\ \A q \in Path \ {to} : u.mf[q] = t.mf[q]
<1> DEFINE v == [t EXCEPT !.mf[to] = t.mf[from]]
<1>1. Link(t, from, to) = List(v, to)
  BY DEF Link
<1>2. t.mf[from] \in Manifest \cup {None}
  BY TableFields
<1>3. /\ v \in Tables /\ v.mf = [t.mf EXCEPT ![to] = t.mf[from]]
      /\ v.ln = t.ln /\ v.sp = t.sp /\ v.de = t.de /\ v.id = t.id
  BY <1>2 DEF Tables
<1> HIDE DEF v
<1>4. v.mf[to] = t.mf[from] /\ \A q \in Path \ {to} : v.mf[q] = t.mf[q]
  BY <1>3, TableFields
<1>5. /\ List(v, to) \in Tables
      /\ List(v, to).mf = v.mf /\ List(v, to).ln = t.ln /\ List(v, to).sp = t.sp
      /\ List(v, to).de = t.de \cup {to} /\ List(v, to).id = t.id
  BY <1>3, ListFields
<1> QED
  BY <1>1, <1>4, <1>5

LEMMA DeleteFields ==
    ASSUME NEW t \in Tables, NEW p \in Path
    PROVE  LET u == Delete(t, p)
           IN  /\ u \in Tables /\ u.de = t.de \ {p} /\ u.id = t.id
               /\ \A q \in Path \ {p} : /\ u.mf[q] = t.mf[q]
                                        /\ q \in u.ln <=> q \in t.ln
                                        /\ q \in u.sp <=> q \in t.sp
               /\ u.mf[p] = t.mf[p] \/ u.mf[p] = None
               /\ OneKind(t, p) => Blank(u, p)
               /\ p \notin t.sp \cup t.ln => u.mf[p] = None
<1>1. CASE p \in t.sp
  <2> DEFINE v == [t EXCEPT !.sp = @ \ {p}]
  <2>1. Delete(t, p) = Unlist(v, p)
    BY <1>1 DEF Delete, deletePathRow
  <2>2. v \in Tables /\ v.mf = t.mf /\ v.ln = t.ln /\ v.sp = t.sp \ {p} /\ v.de = t.de /\ v.id = t.id
    BY DEF Tables
  <2> HIDE DEF v
  <2>3. OneKind(t, p) => t.mf[p] = None /\ p \notin t.ln
    BY <1>1 DEF OneKind
  <2> QED
    BY <1>1, <2>1, <2>2, <2>3, UnlistFields DEF Blank
<1>2. CASE p \notin t.sp /\ p \in t.ln
  <2> DEFINE v == [t EXCEPT !.ln = @ \ {p}]
  <2>1. Delete(t, p) = Unlist(v, p)
    BY <1>2 DEF Delete, deletePathRow
  <2>2. v \in Tables /\ v.mf = t.mf /\ v.ln = t.ln \ {p} /\ v.sp = t.sp /\ v.de = t.de /\ v.id = t.id
    BY DEF Tables
  <2> HIDE DEF v
  <2>3. OneKind(t, p) => t.mf[p] = None
    BY <1>2 DEF OneKind
  <2> QED
    BY <1>2, <2>1, <2>2, <2>3, UnlistFields DEF Blank
<1>3. CASE p \notin t.sp /\ p \notin t.ln
  <2> DEFINE v == [t EXCEPT !.mf[p] = None]
  <2>1. Delete(t, p) = Unlist(v, p)
    BY <1>3 DEF Delete
  <2>2. /\ v \in Tables /\ v.mf = [t.mf EXCEPT ![p] = None]
        /\ v.ln = t.ln /\ v.sp = t.sp /\ v.de = t.de /\ v.id = t.id
    BY DEF Tables
  <2> HIDE DEF v
  <2>3. v.mf[p] = None /\ \A q \in Path \ {p} : v.mf[q] = t.mf[q]
    BY <2>2, TableFields
  <2>4. /\ Unlist(v, p) \in Tables
        /\ Unlist(v, p).mf = v.mf /\ Unlist(v, p).ln = t.ln /\ Unlist(v, p).sp = t.sp
        /\ Unlist(v, p).de = t.de \ {p} /\ Unlist(v, p).id = t.id
    BY <2>2, UnlistFields
  <2> QED
    BY <1>3, <2>1, <2>3, <2>4 DEF Blank
<1> QED
  BY <1>1, <1>2, <1>3

LEMMA SymlinkFields ==
    ASSUME NEW t \in Tables, NEW p \in Path
    PROVE  LET u == Symlink(t, p)
           IN  /\ u \in Tables /\ u.mf = t.mf /\ u.ln = t.ln \cup {p} /\ u.sp = t.sp
               /\ u.de = t.de \cup {p} /\ u.id = t.id
<1> DEFINE v == [t EXCEPT !.ln = @ \cup {p}]
<1>1. Symlink(t, p) = List(v, p)
  BY DEF Symlink
<1>2. v \in Tables /\ v.mf = t.mf /\ v.ln = t.ln \cup {p} /\ v.sp = t.sp /\ v.de = t.de /\ v.id = t.id
  BY DEF Tables
<1> HIDE DEF v
<1> QED
  BY <1>1, <1>2, ListFields

LEMMA MknodFields ==
    ASSUME NEW t \in Tables, NEW p \in Path
    PROVE  LET u == Mknod(t, p)
           IN  /\ u \in Tables /\ u.mf = t.mf /\ u.ln = t.ln /\ u.sp = t.sp \cup {p}
               /\ u.de = t.de \cup {p} /\ u.id = t.id
<1> DEFINE v == [t EXCEPT !.sp = @ \cup {p}]
<1>1. Mknod(t, p) = List(v, p)
  BY DEF Mknod
<1>2. v \in Tables /\ v.mf = t.mf /\ v.ln = t.ln /\ v.sp = t.sp \cup {p} /\ v.de = t.de /\ v.id = t.id
  BY DEF Tables
<1> HIDE DEF v
<1> QED
  BY <1>1, <1>2, ListFields

-----------------------------------------------------------------------------
(* Renames.                                                                *)

LEMMA DestFields ==
    ASSUME NEW t \in Tables, NEW to \in Path
    PROVE  LET d == deleteDest(t, to)
           IN  /\ d \in Tables /\ d.de = t.de \ {to} /\ d.id = t.id
               /\ \A q \in Path \ {to} : /\ d.mf[q] = t.mf[q]
                                         /\ q \in d.ln <=> q \in t.ln
                                         /\ q \in d.sp <=> q \in t.sp
               /\ d.mf[to] = t.mf[to] \/ d.mf[to] = None
               /\ d.ln \subseteq t.ln /\ d.sp \subseteq t.sp
               /\ OneKind(t, to) => Blank(d, to)
<1>1. CASE resolveKind(t, to) = "file"
  <2> DEFINE v == [t EXCEPT !.mf[to] = None]
  <2>1. deleteDest(t, to) = Unlist(v, to)
    BY <1>1 DEF deleteDest
  <2>2. /\ v \in Tables /\ v.mf = [t.mf EXCEPT ![to] = None]
        /\ v.ln = t.ln /\ v.sp = t.sp /\ v.de = t.de /\ v.id = t.id
    BY DEF Tables
  <2> HIDE DEF v
  <2>3. v.mf[to] = None /\ \A q \in Path \ {to} : v.mf[q] = t.mf[q]
    BY <2>2, TableFields
  <2>4. /\ Unlist(v, to) \in Tables
        /\ Unlist(v, to).mf = v.mf /\ Unlist(v, to).ln = t.ln /\ Unlist(v, to).sp = t.sp
        /\ Unlist(v, to).de = t.de \ {to} /\ Unlist(v, to).id = t.id
    BY <2>2, UnlistFields
  <2>5. OneKind(t, to) => to \notin t.ln /\ to \notin t.sp
    <3>1. t.mf[to] # None
      BY <1>1 DEF resolveKind
    <3> QED
      BY <3>1 DEF OneKind
  <2> QED
    BY <2>1, <2>3, <2>4, <2>5 DEF Blank
<1>2. CASE resolveKind(t, to) = "symlink"
  <2> DEFINE v == [t EXCEPT !.ln = @ \ {to}]
  <2>1. deleteDest(t, to) = Unlist(v, to)
    BY <1>2 DEF deleteDest
  <2>2. v \in Tables /\ v.mf = t.mf /\ v.ln = t.ln \ {to} /\ v.sp = t.sp /\ v.de = t.de /\ v.id = t.id
    BY DEF Tables
  <2> HIDE DEF v
  <2>3. t.mf[to] = None /\ (OneKind(t, to) => to \notin t.sp)
    BY <1>2 DEF resolveKind, OneKind
  <2>4. /\ Unlist(v, to) \in Tables
        /\ Unlist(v, to).mf = t.mf /\ Unlist(v, to).ln = t.ln \ {to} /\ Unlist(v, to).sp = t.sp
        /\ Unlist(v, to).de = t.de \ {to} /\ Unlist(v, to).id = t.id
    BY <2>2, UnlistFields
  <2> QED
    BY <2>1, <2>3, <2>4 DEF Blank
<1>3. CASE resolveKind(t, to) = "special"
  <2> DEFINE v == [t EXCEPT !.sp = @ \ {to}]
  <2>1. deleteDest(t, to) = Unlist(v, to)
    BY <1>3 DEF deleteDest
  <2>2. v \in Tables /\ v.mf = t.mf /\ v.ln = t.ln /\ v.sp = t.sp \ {to} /\ v.de = t.de /\ v.id = t.id
    BY DEF Tables
  <2> HIDE DEF v
  <2>3. t.mf[to] = None /\ to \notin t.ln
    BY <1>3 DEF resolveKind
  <2>4. /\ Unlist(v, to) \in Tables
        /\ Unlist(v, to).mf = t.mf /\ Unlist(v, to).ln = t.ln /\ Unlist(v, to).sp = t.sp \ {to}
        /\ Unlist(v, to).de = t.de \ {to} /\ Unlist(v, to).id = t.id
    BY <2>2, UnlistFields
  <2> QED
    BY <2>1, <2>3, <2>4 DEF Blank
<1>4. CASE resolveKind(t, to) \notin {"file", "symlink", "special"}
  <2>1. deleteDest(t, to) = Unlist(t, to)
    BY <1>4 DEF deleteDest
  <2>2. t.mf[to] = None /\ to \notin t.ln /\ to \notin t.sp
    BY <1>4 DEF resolveKind
  <2>3. /\ Unlist(t, to) \in Tables
        /\ Unlist(t, to).mf = t.mf /\ Unlist(t, to).ln = t.ln /\ Unlist(t, to).sp = t.sp
        /\ Unlist(t, to).de = t.de \ {to} /\ Unlist(t, to).id = t.id
    BY UnlistFields
  <2> QED
    BY <2>1, <2>2, <2>3 DEF Blank
<1> QED
  BY <1>1, <1>2, <1>3, <1>4

LEMMA MoveFile ==
    ASSUME NEW t \in Tables, NEW from \in Path, NEW to \in Path, from # to,
           NEW ver \in Nat \ {0}, t.mf[from] # None
    PROVE  LET v == moveRenameSource(t, from, to, ver)
           IN  /\ v \in Tables /\ v.ln = t.ln /\ v.sp = t.sp /\ v.de = t.de /\ v.id = t.id
               /\ v.mf[from] = None /\ v.mf[to] # None
               /\ v.mf[to].ino = t.mf[from].ino /\ v.mf[to].body = t.mf[from].body
               /\ \A q \in Path \ {from, to} : /\ v.mf[q] = None <=> t.mf[q] = None
                                               /\ t.mf[q] # None => v.mf[q].ino = t.mf[q].ino
<1>1. PICK row \in Manifest : row = t.mf[from]
  BY TableFields
<1>2. row.ino \in Nat /\ row.body \in Nat /\ row # None
  BY <1>1, NamespaceAssumption DEF Manifest
<1> DEFINE w == [t EXCEPT !.mf[from] = None, !.mf[to] = row]
<1>3. resolveKind(t, from) = "file"
  BY DEF resolveKind
<1>4. moveRenameSource(t, from, to, ver) = SetInode(w, row.ino, ver, row.body)
  BY <1>1, <1>3 DEF moveRenameSource
<1>5. /\ w \in Tables /\ w.ln = t.ln /\ w.sp = t.sp /\ w.de = t.de /\ w.id = t.id
      /\ w.mf = [t.mf EXCEPT ![from] = None, ![to] = row]
  <2> DEFINE F == [t.mf EXCEPT ![from] = None, ![to] = row]
  <2>1. F \in [Path -> Manifest \cup {None}]
    BY TableFields
  <2>2. w = [t EXCEPT !.mf = F]
    BY DEF Tables
  <2> HIDE DEF F, w
  <2>3. w \in Tables /\ w.mf = F /\ w.ln = t.ln /\ w.sp = t.sp /\ w.de = t.de /\ w.id = t.id
    BY <2>1, <2>2 DEF Tables
  <2> QED
    BY <2>3 DEF F
<1> HIDE DEF w
<1>6. w.mf[from] = None /\ w.mf[to] = row /\ \A q \in Path \ {from, to} : w.mf[q] = t.mf[q]
  BY <1>5, TableFields
<1> DEFINE v == SetInode(w, row.ino, ver, row.body)
<1>7. PICK ino, body \in Nat : ino = row.ino /\ body = row.body
  BY <1>2
<1>8. v = SetInode(w, ino, ver, body) /\ w \in Tables
  BY <1>5, <1>7
<1> HIDE DEF v
<1>9. /\ v \in Tables
      /\ v.ln = w.ln /\ v.sp = w.sp /\ v.de = w.de /\ v.id = w.id
      /\ \A q \in Path : /\ v.mf[q] = None <=> w.mf[q] = None
                         /\ w.mf[q] # None => v.mf[q].ino = w.mf[q].ino
                         /\ w.mf[q] # None /\ w.mf[q].ino = ino => v.mf[q].body = body
  BY <1>8, SetInodeFields
<1>10. /\ v \in Tables /\ v.ln = t.ln /\ v.sp = t.sp /\ v.de = t.de /\ v.id = t.id
       /\ v.mf[from] = None /\ v.mf[to] # None
       /\ v.mf[to].ino = t.mf[from].ino /\ v.mf[to].body = t.mf[from].body
       /\ \A q \in Path \ {from, to} : /\ v.mf[q] = None <=> t.mf[q] = None
                                       /\ t.mf[q] # None => v.mf[q].ino = t.mf[q].ino
  BY <1>1, <1>2, <1>5, <1>6, <1>7, <1>9
<1> QED
  BY <1>4, <1>10 DEF v

LEMMA VersionAfter ==
    ASSUME NEW t \in Tables, NEW to \in Path
    PROVE  renameVersion(t, to) \in Nat \ {0}
<1>1. Version(t, to) \in Nat
  BY VersionIs
<1> QED
  BY <1>1 DEF renameVersion

LEMMA EntriesFields ==
    ASSUME NEW t \in Tables, NEW from \in Path, NEW to \in Path
    PROVE  LET u == rewriteRenameDirEntries(t, from, to)
           IN  /\ u \in Tables /\ u.mf = t.mf /\ u.ln = t.ln /\ u.sp = t.sp
               /\ u.de = (t.de \ {from}) \cup {to} /\ u.id = t.id
<1> DEFINE v == Unlist(t, from)
<1>1. v \in Tables /\ v.mf = t.mf /\ v.ln = t.ln /\ v.sp = t.sp /\ v.de = t.de \ {from} /\ v.id = t.id
  BY UnlistFields
<1>2. rewriteRenameDirEntries(t, from, to) = List(v, to)
  BY DEF rewriteRenameDirEntries
<1> HIDE DEF v
<1> QED
  BY <1>1, <1>2, ListFields

LEMMA RenameFile ==
    ASSUME NEW t \in Tables, NEW from \in Path, NEW to \in Path, from # to, t.mf[from] # None
    PROVE  LET u == Rename(t, from, to)
           IN  /\ u \in Tables /\ u.id = t.id /\ u.de = ((t.de \ {to}) \ {from}) \cup {to}
               /\ u.mf[from] = None /\ u.mf[to] # None
               /\ u.mf[to].ino = t.mf[from].ino /\ u.mf[to].body = t.mf[from].body
               /\ \A q \in Path \ {from, to} : /\ u.mf[q] = None <=> t.mf[q] = None
                                               /\ t.mf[q] # None => u.mf[q].ino = t.mf[q].ino
               /\ \A q \in Path \ {to} : (q \in u.ln <=> q \in t.ln) /\ (q \in u.sp <=> q \in t.sp)
               /\ OneKind(t, to) => to \notin u.ln /\ to \notin u.sp
<1> DEFINE d == deleteDest(t, to)
           v == moveRenameSource(d, from, to, renameVersion(t, to))
           u == rewriteRenameDirEntries(v, from, to)
<1>1. /\ d \in Tables /\ d.de = t.de \ {to} /\ d.id = t.id
      /\ \A q \in Path \ {to} : /\ d.mf[q] = t.mf[q]
                                /\ q \in d.ln <=> q \in t.ln
                                /\ q \in d.sp <=> q \in t.sp
      /\ OneKind(t, to) => Blank(d, to)
  BY DestFields
<1>2. PICK ver \in Nat \ {0} : ver = renameVersion(t, to)
  BY VersionAfter
<1>3. Rename(t, from, to) = u
  BY DEF Rename
<1> HIDE DEF d
<1>4. v = moveRenameSource(d, from, to, ver)
  BY <1>2
<1> HIDE DEF v
<1>5. /\ v \in Tables /\ v.ln = d.ln /\ v.sp = d.sp /\ v.de = d.de /\ v.id = d.id
      /\ v.mf[from] = None /\ v.mf[to] # None
      /\ v.mf[to].ino = d.mf[from].ino /\ v.mf[to].body = d.mf[from].body
      /\ \A q \in Path \ {from, to} : /\ v.mf[q] = None <=> d.mf[q] = None
                                      /\ d.mf[q] # None => v.mf[q].ino = d.mf[q].ino
  <2>1. d.mf[from] # None
    BY <1>1
  <2> QED
    BY <1>1, <1>4, <2>1, MoveFile
<1>6. /\ u \in Tables /\ u.mf = v.mf /\ u.ln = v.ln /\ u.sp = v.sp
      /\ u.de = (v.de \ {from}) \cup {to} /\ u.id = v.id
  BY <1>5, EntriesFields
<1> HIDE DEF u
<1>7. d.mf[from] = t.mf[from] /\ \A q \in Path \ {from, to} : d.mf[q] = t.mf[q]
  BY <1>1
<1>8. /\ u.mf[from] = None /\ u.mf[to] # None
      /\ u.mf[to].ino = t.mf[from].ino /\ u.mf[to].body = t.mf[from].body
      /\ \A q \in Path \ {from, to} : /\ u.mf[q] = None <=> t.mf[q] = None
                                      /\ t.mf[q] # None => u.mf[q].ino = t.mf[q].ino
  BY <1>5, <1>6, <1>7
<1>9. /\ \A q \in Path \ {to} : (q \in u.ln <=> q \in t.ln) /\ (q \in u.sp <=> q \in t.sp)
      /\ OneKind(t, to) => to \notin u.ln /\ to \notin u.sp
      /\ u.id = t.id /\ u.de = ((t.de \ {to}) \ {from}) \cup {to}
  BY <1>1, <1>5, <1>6 DEF Blank
<1> QED
  BY <1>3, <1>6, <1>8, <1>9

LEMMA RenameSymlink ==
    ASSUME NEW t \in Tables, NEW from \in Path, NEW to \in Path, from # to, t.mf[from] = None, from \in t.ln
    PROVE  LET u == Rename(t, from, to)
               d == deleteDest(t, to)
           IN  /\ u \in Tables /\ u.id = t.id /\ u.de = ((t.de \ {to}) \ {from}) \cup {to}
               /\ u.mf = d.mf /\ u.sp = d.sp /\ u.ln = (d.ln \ {from}) \cup {to}
<1> DEFINE d == deleteDest(t, to)
           v == moveRenameSource(d, from, to, renameVersion(t, to))
           w == [d EXCEPT !.ln = (@ \ {from}) \cup {to}]
           u == rewriteRenameDirEntries(v, from, to)
<1>1. /\ d \in Tables /\ d.de = t.de \ {to} /\ d.id = t.id /\ d.mf[from] = None /\ from \in d.ln
  BY DestFields
<1>2. Rename(t, from, to) = u
  BY DEF Rename
<1> HIDE DEF d
<1>3. resolveKind(d, from) = "symlink"
  BY <1>1 DEF resolveKind
<1>4. v = w
  BY <1>3 DEF moveRenameSource
<1>5. w \in Tables /\ w.mf = d.mf /\ w.ln = (d.ln \ {from}) \cup {to} /\ w.sp = d.sp /\ w.de = d.de /\ w.id = d.id
  BY <1>1 DEF Tables
<1> HIDE DEF v, w
<1>6. /\ u \in Tables /\ u.mf = v.mf /\ u.ln = v.ln /\ u.sp = v.sp
      /\ u.de = (v.de \ {from}) \cup {to} /\ u.id = v.id
  BY <1>4, <1>5, EntriesFields
<1> HIDE DEF u
<1>7. /\ u \in Tables /\ u.id = t.id /\ u.de = ((t.de \ {to}) \ {from}) \cup {to}
      /\ u.mf = d.mf /\ u.sp = d.sp /\ u.ln = (d.ln \ {from}) \cup {to}
  BY <1>1, <1>4, <1>5, <1>6
<1> QED
  BY <1>2, <1>7 DEF d

LEMMA RenameSpecial ==
    ASSUME NEW t \in Tables, NEW from \in Path, NEW to \in Path, from # to,
           t.mf[from] = None, from \notin t.ln, from \in t.sp
    PROVE  LET u == Rename(t, from, to)
               d == deleteDest(t, to)
           IN  /\ u \in Tables /\ u.id = t.id /\ u.de = ((t.de \ {to}) \ {from}) \cup {to}
               /\ u.mf = d.mf /\ u.ln = d.ln /\ u.sp = (d.sp \ {from}) \cup {to}
<1> DEFINE d == deleteDest(t, to)
           v == moveRenameSource(d, from, to, renameVersion(t, to))
           w == [d EXCEPT !.sp = (@ \ {from}) \cup {to}]
           u == rewriteRenameDirEntries(v, from, to)
<1>1. /\ d \in Tables /\ d.de = t.de \ {to} /\ d.id = t.id
      /\ d.mf[from] = None /\ from \notin d.ln /\ from \in d.sp
  BY DestFields
<1>2. Rename(t, from, to) = u
  BY DEF Rename
<1> HIDE DEF d
<1>3. resolveKind(d, from) = "special"
  BY <1>1 DEF resolveKind
<1>4. v = w
  BY <1>3 DEF moveRenameSource
<1>5. w \in Tables /\ w.mf = d.mf /\ w.sp = (d.sp \ {from}) \cup {to} /\ w.ln = d.ln /\ w.de = d.de /\ w.id = d.id
  BY <1>1 DEF Tables
<1> HIDE DEF v, w
<1>6. /\ u \in Tables /\ u.mf = v.mf /\ u.ln = v.ln /\ u.sp = v.sp
      /\ u.de = (v.de \ {from}) \cup {to} /\ u.id = v.id
  BY <1>4, <1>5, EntriesFields
<1> HIDE DEF u
<1>7. /\ u \in Tables /\ u.id = t.id /\ u.de = ((t.de \ {to}) \ {from}) \cup {to}
      /\ u.mf = d.mf /\ u.ln = d.ln /\ u.sp = (d.sp \ {from}) \cup {to}
  BY <1>1, <1>4, <1>5, <1>6
<1> QED
  BY <1>2, <1>7 DEF d

(* Where the rows and the entries of the tables go when what matches from  *)
(* is rewritten.                                                           *)
RowsTo(from, to, X) == {Lands(from, to, p) : p \in X}
EntriesTo(from, to, X) == {EntryLands(from, to, p) : p \in X}

LEMMA ReparentFields ==
    ASSUME NEW t \in Tables, NEW from \in Path, NEW to \in Path,
           RowsTo(from, to, t.ln) \subseteq Path, RowsTo(from, to, t.sp) \subseteq Path,
           EntriesTo(from, to, t.de) \subseteq Path
    PROVE  LET v == reparentDescendants(t, from, to)
           IN  /\ v \in Tables /\ v.id = t.id
               /\ v.ln = RowsTo(from, to, t.ln) /\ v.sp = RowsTo(from, to, t.sp)
               /\ v.de = EntriesTo(from, to, t.de)
               /\ v.mf = Reparented(t, from, to)
<1> DEFINE F == Reparented(t, from, to)
           L == RowsTo(from, to, t.ln)
           S == RowsTo(from, to, t.sp)
           D == EntriesTo(from, to, t.de)
           v == [t EXCEPT !.mf = F, !.ln = L, !.sp = S, !.de = D]
<1>1. reparentDescendants(t, from, to) = v
  BY DEF reparentDescendants, RowsTo, EntriesTo, Tables
<1>2. F \in [Path -> Manifest \cup {None}]
  <2> DEFINE src(q) == {p \in Path : t.mf[p] # None /\ Lands(from, to, p) = q}
             val(q) == IF src(q) = {} THEN None ELSE t.mf[CHOOSE p \in src(q) : TRUE]
  <2>1. \A q \in Path : t.mf[q] \in Manifest \cup {None}
    BY TableFields
  <2>2. F = [q \in Path |-> val(q)]
    BY DEF Reparented
  <2>3. ASSUME NEW q \in Path PROVE val(q) \in Manifest \cup {None}
    <3>1. src(q) # {} => (CHOOSE p \in src(q) : TRUE) \in Path
      OBVIOUS
    <3> HIDE DEF src
    <3> QED
      BY <2>1, <3>1
  <2> HIDE DEF val, F
  <2> QED
    BY <2>2, <2>3
<1>3. L \subseteq Path /\ S \subseteq Path /\ D \subseteq Path
  OBVIOUS
<1> HIDE DEF F, L, S, D
<1>4. v \in Tables /\ v.id = t.id /\ v.ln = L /\ v.sp = S /\ v.de = D /\ v.mf = F
  BY <1>2, <1>3 DEF Tables
<1> HIDE DEF v
<1>5. /\ v \in Tables /\ v.id = t.id
      /\ v.ln = RowsTo(from, to, t.ln) /\ v.sp = RowsTo(from, to, t.sp)
      /\ v.de = EntriesTo(from, to, t.de) /\ v.mf = Reparented(t, from, to)
  BY <1>4 DEF F, L, S, D
<1> QED
  BY <1>1, <1>5

\* The manifest at a name is that of a row which has landed there.
LEMMA ReparentedIs ==
    ASSUME NEW t \in Tables, NEW from \in Path, NEW to \in Path, NEW q \in Path
    PROVE  LET F == Reparented(t, from, to)
           IN  \/ F[q] = None /\ \A p \in Path : t.mf[p] # None => Lands(from, to, p) # q
               \/ \E p \in Path : t.mf[p] # None /\ Lands(from, to, p) = q /\ F[q] = t.mf[p]
<1> DEFINE src == {p \in Path : t.mf[p] # None /\ Lands(from, to, p) = q}
<1>1. Reparented(t, from, to)[q] = IF src = {} THEN None ELSE t.mf[CHOOSE p \in src : TRUE]
  BY DEF Reparented
<1>2. src # {} => (CHOOSE p \in src : TRUE) \in src
  OBVIOUS
<1> QED
  BY <1>1, <1>2

LEMMA RenameDir ==
    ASSUME NEW t \in Tables, NEW from \in Path, NEW to \in Path, from # to, Fits(t, from, to),
           t.mf[from] = None, from \notin t.ln, from \notin t.sp
    PROVE  LET u == Rename(t, from, to)
               d == deleteDest(t, to)
           IN  /\ u \in Tables /\ u.id = t.id
               /\ u.ln = RowsTo(from, to, d.ln) /\ u.sp = RowsTo(from, to, d.sp)
               /\ u.de = (EntriesTo(from, to, d.de) \ {from}) \cup {to}
               /\ u.mf = Reparented(d, from, to)
<1> DEFINE d == deleteDest(t, to)
           v == moveRenameSource(d, from, to, renameVersion(t, to))
           w == reparentDescendants(d, from, to)
           u == rewriteRenameDirEntries(v, from, to)
<1>1. /\ d \in Tables /\ d.de \subseteq t.de /\ d.ln \subseteq t.ln /\ d.sp \subseteq t.sp /\ d.id = t.id
      /\ d.mf[from] = None /\ from \notin d.ln /\ from \notin d.sp
  BY DestFields
<1>2. Rename(t, from, to) = u
  BY DEF Rename
<1> HIDE DEF d
<1>3. resolveKind(d, from) \notin {"file", "symlink", "special"}
  BY <1>1 DEF resolveKind
<1>4. v = w
  BY <1>3 DEF moveRenameSource
<1>5. /\ RowsTo(from, to, d.ln) \subseteq Path /\ RowsTo(from, to, d.sp) \subseteq Path
      /\ EntriesTo(from, to, d.de) \subseteq Path
  <2>1. d.ln \subseteq Rows(t) /\ d.sp \subseteq Rows(t) /\ d.de \subseteq t.de
    BY <1>1 DEF Rows
  <2>2. \A p \in Rows(t) : Lands(from, to, p) \in Path
    BY DEF Fits
  <2>3. \A p \in t.de : EntryLands(from, to, p) \in Path
    BY DEF Fits
  <2> QED
    BY <2>1, <2>2, <2>3 DEF RowsTo, EntriesTo
<1>6. /\ w \in Tables /\ w.id = d.id
      /\ w.ln = RowsTo(from, to, d.ln) /\ w.sp = RowsTo(from, to, d.sp)
      /\ w.de = EntriesTo(from, to, d.de) /\ w.mf = Reparented(d, from, to)
  BY <1>1, <1>5, ReparentFields
<1> HIDE DEF v, w
<1>7. /\ u \in Tables /\ u.mf = v.mf /\ u.ln = v.ln /\ u.sp = v.sp
      /\ u.de = (v.de \ {from}) \cup {to} /\ u.id = v.id
  BY <1>4, <1>6, EntriesFields
<1> HIDE DEF u
<1>8. /\ u \in Tables /\ u.id = t.id
      /\ u.ln = RowsTo(from, to, d.ln) /\ u.sp = RowsTo(from, to, d.sp)
      /\ u.de = (EntriesTo(from, to, d.de) \ {from}) \cup {to}
      /\ u.mf = Reparented(d, from, to)
  BY <1>1, <1>4, <1>6, <1>7
<1> QED
  BY <1>2, <1>8 DEF d

-----------------------------------------------------------------------------
(* Exact renames: what is below the directory moves, and nothing else.     *)

(* The names of X once the subtree at from has moved to to.                *)
Moved(from, to, p) == IF Under(from, p) THEN Graft(from, to, p) ELSE p
Regraft(from, to, X) == {Moved(from, to, p) : p \in X}

LEMMA AppendLast ==
    ASSUME NEW p \in AnyPath, p # Root
    PROVE  Append(splitParent(p), Last(p)) = p
<1> DEFINE f == splitParent(p)
           e == Last(p)
           a == Append(f, e)
<1>1. /\ f \in AnyPath /\ Len(f) = Len(p) - 1 /\ \A i \in 1 .. Len(p) - 1 : f[i] = p[i]
      /\ Len(p) \in Nat /\ Len(p) > 0
  BY ParentIs
<1>2. e = p[Len(p)] /\ e \in Name
  BY <1>1, ElementOfSeq DEF Last, AnyPath
<1> HIDE DEF f, e
<1>3. /\ a \in AnyPath /\ Len(a) = Len(p)
      /\ \A i \in 1 .. Len(f) : a[i] = f[i]
      /\ a[Len(f) + 1] = e
  BY <1>1, <1>2, AppendProperties DEF AnyPath
<1> HIDE DEF a
<1>4. \A i \in 1 .. Len(a) : a[i] = p[i]
  BY <1>1, <1>2, <1>3
<1>5. a = p
  BY <1>3, <1>4, SamePath
<1> QED
  BY <1>5 DEF a, f, e

LEMMA ExactRows ==
    ASSUME NEW t \in Tables, NEW from \in Path, NEW to \in Path, resolveKind(t, from) = "dir", Exact(t, from, to),
           NEW p \in Path, p \in Rows(t) \/ p = to \/ \E q \in t.de : p = splitParent(q)
    PROVE  Lands(from, to, p) = Moved(from, to, p)
<1>1. Under(from, p) => <<from, p>> \in Likes
  BY NamespaceAssumption
<1>2. p \in Rows(t) \cup {splitParent(q) : q \in t.de} \cup {to}
  OBVIOUS
<1>3. <<from, p>> \in Likes => Under(from, p) /\ Cut(from, to, p) = Graft(from, to, p)
  BY <1>2 DEF Exact
<1> QED
  BY <1>1, <1>3 DEF Lands, Moved

LEMMA ExactEntries ==
    ASSUME NEW t \in Tables, NEW from \in Path, NEW to \in Path, resolveKind(t, from) = "dir", Exact(t, from, to),
           ~Under(from, to), NEW p \in t.de
    PROVE  EntryLands(from, to, p) = Moved(from, to, p)
<1> DEFINE f == splitParent(p)
           e == Last(p)
           g == Graft(from, to, p)
<1>1. p \in Path /\ p \in AnyPath /\ p # Root /\ f \in Path \cup {Root}
  BY TableFields, PathFacts
<1>2. from \in AnyPath /\ to \in AnyPath /\ from # Root
  BY PathFacts
<1>3. /\ f \in AnyPath /\ (Under(from, p) => from = f \/ Under(from, f))
      /\ (Under(from, f) => Under(from, p)) /\ Under(f, p)
  BY <1>1, <1>2, ParentUnder
<1>4. Append(f, e) = p
  BY <1>1, AppendLast
<1>5. ASSUME Under(from, p)
      PROVE  g = Append(IF f = from THEN to ELSE Graft(from, to, f), e)
  <2>1. g \in AnyPath /\ Under(to, g) /\ splitParent(g) = IF f = from THEN to ELSE Graft(from, to, f)
    BY <1>1, <1>2, <1>5, GraftFacts
  <2>2. g # Root
    BY <1>2, <2>1, UnderOrder
  <2>3. Last(g) = e
    <3>1. /\ Len(g) = Len(to) + Len(p) - Len(from)
          /\ \A i \in Len(to) + 1 .. Len(to) + Len(p) - Len(from) : g[i] = p[i - Len(to) + Len(from)]
      BY <1>1, <1>2, <1>5, GraftIs
    <3>2. Len(from) \in Nat /\ Len(to) \in Nat /\ Len(p) \in Nat /\ Len(from) < Len(p)
      BY <1>1, <1>2, <1>5, Lengths, UnderIs
    <3> HIDE DEF g
    <3> DEFINE i == Len(from)
               j == Len(to)
               k == Len(p)
    <3>3. i \in Nat /\ j \in Nat /\ k \in Nat /\ i < k
      BY <3>2
    <3>4. Len(g) = j + k - i /\ \A n \in j + 1 .. j + k - i : g[n] = p[n - j + i]
      BY <3>1
    <3> HIDE DEF i, j, k
    <3>5. j + k - i \in j + 1 .. j + k - i /\ (j + k - i) - j + i = k
      BY <3>3
    <3>6. g[Len(g)] = p[k]
      BY <3>4, <3>5
    <3> QED
      BY <3>6 DEF Last, k
  <2> QED
    BY <2>1, <2>2, <2>3, AppendLast
<1>6. CASE f = from
  <2>1. Lands(from, to, to) = to
    BY ExactRows DEF Moved
  <2>2. EntryLands(from, to, p) = Append(to, e)
    BY <1>6, <2>1 DEF EntryLands
  <2> QED
    BY <1>3, <1>5, <1>6, <2>2 DEF Moved
<1>7. CASE f # from /\ f = Root
  <2>1. <<from, f>> \notin Likes
    BY <1>7, NamespaceAssumption, PathFacts
  <2>2. EntryLands(from, to, p) = Append(f, e)
    BY <1>7, <2>1 DEF EntryLands, Lands
  <2>3. ~Under(from, f)
    BY <1>2, <1>3, <1>7, UnderOrder
  <2> QED
    BY <1>3, <1>4, <1>7, <2>2, <2>3 DEF Moved
<1>8. CASE f # from /\ f \in Path
  <2>1. Lands(from, to, f) = Moved(from, to, f)
    BY <1>8, ExactRows
  <2>2. EntryLands(from, to, p) = Append(Moved(from, to, f), e)
    BY <1>8, <2>1 DEF EntryLands
  <2> QED
    BY <1>3, <1>4, <1>5, <1>8, <2>2 DEF Moved
<1> QED
  BY <1>1, <1>6, <1>7, <1>8

\* Where the names of a set go when the subtree at from moves to to, when
\* nothing of the set was below to.
LEMMA InRegraft ==
    ASSUME NEW from \in AnyPath, NEW to \in AnyPath, NEW X \in SUBSET AnyPath,
           \A p \in X : ~Under(to, p), NEW q \in AnyPath
    PROVE  q \in Regraft(from, to, X) <=>
               IF Under(to, q) THEN Graft(to, from, q) \in X ELSE q \in X /\ ~Under(from, q)
<1>1. q \in Regraft(from, to, X) <=> \E p \in X : q = IF Under(from, p) THEN Graft(from, to, p) ELSE p
  BY DEF Regraft, Moved
<1>2. ASSUME NEW p \in X, q = IF Under(from, p) THEN Graft(from, to, p) ELSE p
      PROVE  IF Under(to, q) THEN Graft(to, from, q) \in X ELSE q \in X /\ ~Under(from, q)
  <2>1. CASE Under(from, p)
    <3>1. q = Graft(from, to, p)
      BY <1>2, <2>1
    <3>2. Under(to, q) /\ Graft(to, from, q) = p
      BY <2>1, <3>1, GraftFacts
    <3> QED
      BY <3>2
  <2>2. CASE ~Under(from, p)
    BY <1>2, <2>2
  <2> QED
    BY <2>1, <2>2
<1>3. ASSUME Under(to, q), Graft(to, from, q) \in X
      PROVE  \E p \in X : q = IF Under(from, p) THEN Graft(from, to, p) ELSE p
  <2>1. Under(from, Graft(to, from, q)) /\ Graft(from, to, Graft(to, from, q)) = q
    BY <1>3, GraftFacts
  <2> QED
    BY <1>3, <2>1
<1>4. ASSUME q \in X, ~Under(from, q)
      PROVE  \E p \in X : q = IF Under(from, p) THEN Graft(from, to, p) ELSE p
  BY <1>4
<1> QED
  BY <1>1, <1>2, <1>3, <1>4

\* Nothing is below a name that is not a directory.
LEMMA LeafAbove ==
    ASSUME NEW t \in Tables, Sound(t), NEW p \in Path, p \notin t.de \ Rows(t)
    PROVE  /\ \A q \in t.de : splitParent(q) # p /\ ~Under(p, q)
           /\ \A q \in Path : DirEntry(t, splitParent(q)) => ~Under(p, q)
<1>1. p \in AnyPath /\ p # Root
  BY PathFacts
<1>2. \A q \in t.de : splitParent(q) # p
  BY <1>1 DEF Sound
<1>3. \A q \in t.de : ~Under(p, q)
  BY <1>2, NothingBelow
<1>4. ASSUME NEW q \in Path, DirEntry(t, splitParent(q)), Under(p, q) PROVE FALSE
  <2>1. q \in AnyPath /\ q # Root
    BY PathFacts
  <2>2. splitParent(q) = p \/ Under(p, splitParent(q))
    BY <1>1, <1>4, <2>1, ParentUnder
  <2>3. splitParent(q) # Root
    BY <1>1, <2>1, <2>2, ParentUnder, UnderOrder
  <2> QED
    BY <1>3, <1>4, <2>2, <2>3 DEF DirEntry
<1> QED
  BY <1>2, <1>3, <1>4

(* What a rename asks for, whoever asks.                                   *)
Movable(t, from, to) ==
    /\ renameAccepts(t, from, to)
    /\ DirEntry(t, splitParent(to))
    /\ ~Under(from, to)
    /\ resolveKind(t, from) = "dir" => Fits(t, from, to) /\ Exact(t, from, to)

LEMMA MovableIs ==
    ASSUME NEW t \in Tables, Sound(t), NEW from \in Path, NEW to \in Path, Movable(t, from, to)
    PROVE  /\ from \in t.de /\ from # to /\ ~Under(from, to) /\ DirEntry(t, splitParent(to))
           /\ \A q \in t.de : ~Under(to, q)
           /\ to \in t.de => (from \in Rows(t) <=> to \in Rows(t))
<1> DEFINE src == resolveKind(t, from)
           dst == resolveKind(t, to)
<1>1. src = Local(t, from)[1] /\ dst = Local(t, to)[1]
  BY KindIs
<1>2. /\ src # "absent" /\ from # to
      /\ dst # "absent" => ((src = "dir") <=> (dst = "dir")) /\ (src = "dir" => dirIsEmpty(t, to))
  BY DEF Movable, renameAccepts, resolveRenameDest
<1>3. /\ src = "absent" <=> from \notin t.de
      /\ dst = "absent" <=> to \notin t.de
      /\ src = "dir" <=> from \in t.de \ Rows(t)
      /\ dst = "dir" <=> to \in t.de \ Rows(t)
  BY <1>1, TableFields DEF Local, Sound
<1> HIDE DEF src, dst
<1>4. ASSUME NEW q \in t.de PROVE ~Under(to, q)
  <2>1. CASE to \notin t.de \ Rows(t)
    BY <2>1, LeafAbove
  <2>2. CASE to \in t.de \ Rows(t)
    <3>1. Children(t, to) = {}
      BY <1>2, <1>3, <2>2 DEF dirIsEmpty
    <3>2. \A r \in t.de : splitParent(r) # to
      BY <3>1 DEF Children
    <3> QED
      BY <3>2, NothingBelow
  <2> QED
    BY <2>1, <2>2
<1> QED
  BY <1>2, <1>3, <1>4 DEF Movable

LEMMA RenameMoves ==
    ASSUME NEW t \in Tables, Sound(t), NEW from \in Path, NEW to \in Path, Movable(t, from, to),
           NEW q \in Path
    PROVE  Rename(t, from, to) \in Tables /\ MovedTo(Rename(t, from, to), t, from, to, q)
<1>1. /\ from \in t.de /\ from # to /\ ~Under(from, to) /\ DirEntry(t, splitParent(to))
      /\ \A p \in t.de : ~Under(to, p)
  BY MovableIs
<1> DEFINE u == Rename(t, from, to)
           d == deleteDest(t, to)
           g == Graft(to, from, q)
<1> SUFFICES u \in Tables /\ MovedTo(u, t, from, to, q)
  OBVIOUS
<1>2. /\ d \in Tables /\ d.de = t.de \ {to} /\ d.id = t.id
      /\ \A r \in Path \ {to} : /\ d.mf[r] = t.mf[r]
                                /\ r \in d.ln <=> r \in t.ln
                                /\ r \in d.sp <=> r \in t.sp
      /\ Blank(d, to)
      /\ d.ln \subseteq t.ln /\ d.sp \subseteq t.sp
  BY DestFields DEF Sound
<1>3. /\ from \in AnyPath /\ to \in AnyPath /\ q \in AnyPath
      /\ ~Under(to, to) /\ ~Under(from, from) /\ ~Under(to, from)
  BY <1>1, PathFacts, UnderOrder
<1>4. \A p \in Path : p \notin t.de => Blank(t, p)
  BY AbsentIs
<1>5. OneKind(t, from) /\ OneKind(t, to)
  BY DEF Sound
<1>6. Under(to, q) => q \notin t.de /\ q # to /\ q # from /\ Under(from, g) /\ g # from /\ g # to
  <2> SUFFICES ASSUME Under(to, q) PROVE Under(from, g) /\ g # from /\ g # to /\ q # to /\ q # from
    BY <1>1
  <2>1. Under(from, g) /\ g \in AnyPath
    BY <1>3, GraftFacts
  <2> HIDE DEF g
  <2> QED
    BY <1>1, <1>3, <2>1
<1>7. CASE from \in Rows(t)
  <2>1. \A p \in t.de : ~Under(from, p)
    BY <1>7, LeafAbove
  <2>2. /\ u \in Tables /\ u.de = ((t.de \ {to}) \ {from}) \cup {to}
        /\ Like(u, to, t, from)
        /\ Blank(u, from)
        /\ \A r \in Path \ {from, to} : Like(u, r, t, r)
    <3>1. CASE t.mf[from] # None
      <4>1. /\ u \in Tables /\ u.de = ((t.de \ {to}) \ {from}) \cup {to}
            /\ u.mf[from] = None /\ u.mf[to] # None /\ u.mf[to].ino = t.mf[from].ino
            /\ \A r \in Path \ {from, to} : /\ u.mf[r] = None <=> t.mf[r] = None
                                            /\ t.mf[r] # None => u.mf[r].ino = t.mf[r].ino
            /\ \A r \in Path \ {to} : (r \in u.ln <=> r \in t.ln) /\ (r \in u.sp <=> r \in t.sp)
            /\ to \notin u.ln /\ to \notin u.sp
        BY <1>1, <1>5, <3>1, RenameFile
      <4>2. from \notin t.ln /\ from \notin t.sp
        BY <1>5, <3>1 DEF OneKind
      <4> HIDE DEF u
      <4> QED
        BY <1>1, <3>1, <4>1, <4>2 DEF Like, Blank
    <3>2. CASE t.mf[from] = None /\ from \in t.ln
      <4>1. /\ u \in Tables /\ u.de = ((t.de \ {to}) \ {from}) \cup {to}
            /\ u.mf = d.mf /\ u.sp = d.sp /\ u.ln = (d.ln \ {from}) \cup {to}
        BY <1>1, <3>2, RenameSymlink
      <4>2. from \notin t.sp
        BY <1>5, <3>2 DEF OneKind
      <4> HIDE DEF u, d
      <4> QED
        BY <1>1, <1>2, <3>2, <4>1, <4>2 DEF Like, Blank
    <3>3. CASE t.mf[from] = None /\ from \notin t.ln
      <4>1. from \in t.sp
        BY <1>7, <3>3, TableFields
      <4>2. /\ u \in Tables /\ u.de = ((t.de \ {to}) \ {from}) \cup {to}
            /\ u.mf = d.mf /\ u.ln = d.ln /\ u.sp = (d.sp \ {from}) \cup {to}
        BY <1>1, <3>3, <4>1, RenameSpecial
      <4> HIDE DEF u, d
      <4> QED
        BY <1>1, <1>2, <3>3, <4>1, <4>2 DEF Like, Blank
    <3> QED
      BY <3>1, <3>2, <3>3
  <2> HIDE DEF u, d
  <2>3. CASE Under(to, q)
    <3>1. Blank(t, q) /\ Blank(u, q)
      BY <1>4, <1>6, <2>2, <2>3 DEF Like, Blank
    <3>2. g \in Path => Blank(t, g)
      BY <1>4, <1>6, <2>1, <2>3
    <3>3. g \in Path => Like(u, q, t, g)
      BY <3>1, <3>2 DEF Like, Blank
    <3> QED
      BY <2>2, <2>3, <3>1, <3>3 DEF MovedTo
  <2>4. CASE ~Under(to, q) /\ q # to /\ Under(from, q)
    <3>1. q # from /\ Blank(t, q)
      BY <1>3, <1>4, <2>1, <2>4
    <3>2. Blank(u, q)
      BY <2>2, <2>4, <3>1 DEF Like, Blank
    <3> QED
      BY <2>2, <2>4, <3>2 DEF MovedTo
  <2>5. CASE ~Under(to, q) /\ (q = to \/ ~Under(from, q))
    BY <1>3, <2>2, <2>5 DEF MovedTo
  <2> QED
    BY <2>2, <2>3, <2>4, <2>5
<1>8. CASE from \notin Rows(t)
  <2>1. t.mf[from] = None /\ from \notin t.ln /\ from \notin t.sp
    BY <1>8, TableFields
  <2>dir. resolveKind(t, from) = "dir" /\ Fits(t, from, to) /\ Exact(t, from, to)
    BY <1>1, <2>1 DEF Movable, resolveKind
  <2>2. /\ u \in Tables
        /\ u.ln = RowsTo(from, to, d.ln) /\ u.sp = RowsTo(from, to, d.sp)
        /\ u.de = (EntriesTo(from, to, d.de) \ {from}) \cup {to}
        /\ u.mf = Reparented(d, from, to)
    BY <1>1, <2>1, <2>dir, RenameDir
  <2> DEFINE M == {p \in Path : d.mf[p] # None}
  <2>3. /\ d.ln \in SUBSET AnyPath /\ \A p \in d.ln : ~Under(to, p)
        /\ d.sp \in SUBSET AnyPath /\ \A p \in d.sp : ~Under(to, p)
        /\ d.de \in SUBSET AnyPath /\ \A p \in d.de : ~Under(to, p)
        /\ M \in SUBSET AnyPath /\ \A p \in M : ~Under(to, p)
        /\ d.ln \subseteq Rows(t) /\ d.sp \subseteq Rows(t) /\ M \subseteq Rows(t) /\ d.de \subseteq t.de
    <3>1. d.ln \subseteq Rows(t) /\ d.sp \subseteq Rows(t) /\ d.de \subseteq t.de
      BY <1>2 DEF Rows
    <3>2. M \subseteq Rows(t)
      BY <1>2 DEF Rows, Blank
    <3>3. t.de \in SUBSET AnyPath /\ Rows(t) \subseteq t.de
      BY TableFields, PathFacts DEF Sound
    <3> QED
      BY <1>1, <3>1, <3>2, <3>3
  <2> HIDE DEF u, d, g
  <2>row. \A p \in Rows(t) : Lands(from, to, p) = Moved(from, to, p)
    BY <2>dir, ExactRows, TableFields
  <2>entry. \A p \in t.de : EntryLands(from, to, p) = Moved(from, to, p)
    BY <1>1, <2>dir, ExactEntries
  <2>graft. /\ RowsTo(from, to, d.ln) = Regraft(from, to, d.ln)
            /\ RowsTo(from, to, d.sp) = Regraft(from, to, d.sp)
            /\ EntriesTo(from, to, d.de) = Regraft(from, to, d.de)
            /\ RowsTo(from, to, M) = Regraft(from, to, M)
    <3> HIDE DEF M
    <3>1. \A X \in SUBSET Rows(t) : RowsTo(from, to, X) = Regraft(from, to, X)
      BY <2>row DEF RowsTo, Regraft
    <3>2. \A X \in SUBSET t.de : EntriesTo(from, to, X) = Regraft(from, to, X)
      BY <2>entry DEF EntriesTo, Regraft
    <3> QED
      BY <2>3, <3>1, <3>2
  <2>4. /\ q \in u.ln <=> IF Under(to, q) THEN g \in d.ln ELSE q \in d.ln /\ ~Under(from, q)
        /\ q \in u.sp <=> IF Under(to, q) THEN g \in d.sp ELSE q \in d.sp /\ ~Under(from, q)
        /\ q \in Regraft(from, to, d.de) <=> IF Under(to, q) THEN g \in d.de ELSE q \in d.de /\ ~Under(from, q)
        /\ q \in Regraft(from, to, M) <=> IF Under(to, q) THEN g \in M ELSE q \in M /\ ~Under(from, q)
    <3> HIDE DEF M
    <3> QED
      BY <1>3, <2>2, <2>3, <2>graft, InRegraft DEF g
  <2>5. q \in u.de <=> q = to \/ (q # from /\ IF Under(to, q) THEN g \in d.de ELSE q \in d.de /\ ~Under(from, q))
    BY <2>2, <2>4, <2>graft
  <2>6. u.mf[q] = IF Under(to, q) THEN IF g \in Path /\ d.mf[g] # None THEN d.mf[g] ELSE None
                  ELSE IF Under(from, q) THEN None ELSE d.mf[q]
    <3>0. \/ u.mf[q] = None /\ \A p \in Path : d.mf[p] # None => Lands(from, to, p) # q
          \/ \E p \in Path : d.mf[p] # None /\ Lands(from, to, p) = q /\ u.mf[q] = d.mf[p]
      BY <1>2, <2>2, ReparentedIs
    <3>1. q \in Regraft(from, to, M) <=> \E p \in Path : d.mf[p] # None /\ Lands(from, to, p) = q
      BY <2>graft DEF RowsTo
    <3>2. CASE q \notin Regraft(from, to, M)
      <4>1. u.mf[q] = None
        BY <3>0, <3>1, <3>2
      <4> QED
        BY <2>4, <3>2, <4>1
    <3>3. CASE q \in Regraft(from, to, M)
      <4>1. PICK p \in M : Lands(from, to, p) = q /\ u.mf[q] = d.mf[p]
        BY <3>0, <3>1, <3>3
      <4>2. q = Moved(from, to, p) /\ p \in AnyPath /\ ~Under(to, p) /\ p \in Path /\ d.mf[p] # None
        BY <2>3, <2>row, <4>1
      <4>3. CASE Under(from, p)
        <5>1. Under(to, q) /\ g = p
          BY <1>3, <4>2, <4>3, GraftFacts DEF Moved, g
        <5> QED
          BY <4>1, <4>2, <5>1
      <4>4. CASE ~Under(from, p)
        BY <4>1, <4>2, <4>4 DEF Moved
      <4> QED
        BY <4>3, <4>4
    <3> QED
      BY <3>2, <3>3
  <2>7. CASE Under(to, q)
    <3>1. Blank(d, q)
      BY <1>2, <1>4, <1>6, <2>7 DEF Blank
    <3>2. CASE g \in Path
      <4>1. /\ g \in d.ln <=> g \in t.ln
            /\ g \in d.sp <=> g \in t.sp
            /\ g \in d.de <=> g \in t.de
            /\ d.mf[g] = t.mf[g]
        BY <1>2, <1>6, <2>7, <3>2
      <4>2. Like(u, q, t, g)
        BY <1>6, <2>4, <2>5, <2>6, <2>7, <3>1, <3>2, <4>1 DEF Like, Blank
      <4> QED
        BY <2>2, <2>7, <3>2, <4>2 DEF MovedTo, g
    <3>3. CASE g \notin Path
      <4>1. g \notin d.ln /\ g \notin d.sp /\ g \notin d.de
        BY <1>2, <3>3, TableFields
      <4>2. Blank(u, q)
        BY <1>6, <2>4, <2>5, <2>6, <2>7, <3>1, <3>3, <4>1 DEF Blank
      <4> QED
        BY <2>2, <2>7, <3>3, <4>2 DEF MovedTo, g
    <3> QED
      BY <3>2, <3>3
  <2>8. CASE q = to
    <3>1. Like(u, to, t, from)
      BY <1>1, <1>2, <1>3, <2>1, <2>4, <2>5, <2>6, <2>8 DEF Like, Blank
    <3> QED
      BY <1>3, <2>2, <2>8, <3>1 DEF MovedTo
  <2>9. CASE ~Under(to, q) /\ q # to /\ (q = from \/ Under(from, q))
    <3>1. Blank(u, q)
      BY <1>1, <1>2, <1>3, <2>1, <2>4, <2>5, <2>6, <2>9 DEF Blank
    <3> QED
      BY <2>2, <2>9, <3>1 DEF MovedTo
  <2>10. CASE ~Under(to, q) /\ q # to /\ q # from /\ ~Under(from, q)
    <3>1. Like(u, q, t, q)
      BY <1>2, <2>4, <2>5, <2>6, <2>10 DEF Like
    <3> QED
      BY <2>2, <2>10, <3>1 DEF MovedTo
  <2> QED
    BY <2>2, <2>7, <2>8, <2>9, <2>10
<1> QED
  BY <1>7, <1>8

LEMMA RenameSteps ==
    ASSUME NEW t \in Tables, Sound(t), NEW from \in Path, NEW to \in Path, Movable(t, from, to)
    PROVE  Sound(Rename(t, from, to)) /\ Tree!Step(TreeOf(t), TreeOf(Rename(t, from, to)))
<1> DEFINE u == Rename(t, from, to)
<1>1. u \in Tables /\ \A q \in Path : MovedTo(u, t, from, to, q)
  BY RenameMoves
<1> HIDE DEF u
<1>2. Sound(u) /\ Tree!Step(TreeOf(t), TreeOf(u))
  BY <1>1, MovableIs, MovesSubtree
<1> QED
  BY <1>2 DEF u

(* The files of u have inodes that files of t have.                        *)
Inherits(u, t) ==
    \A q \in Path : u.mf[q] # None => \E p \in Path : t.mf[p] # None /\ u.mf[q].ino = t.mf[p].ino

LEMMA RenameTypes ==
    ASSUME NEW t \in Tables, NEW from \in Path, NEW to \in Path, from # to,
           from \in Rows(t) \/ Fits(t, from, to)
    PROVE  /\ Rename(t, from, to) \in Tables /\ Rename(t, from, to).id = t.id
           /\ Inherits(Rename(t, from, to), t)
<1> DEFINE u == Rename(t, from, to)
           d == deleteDest(t, to)
<1> SUFFICES u \in Tables /\ u.id = t.id /\ Inherits(u, t)
  OBVIOUS
<1>1. \A q \in Path : d.mf[q] = t.mf[q] \/ d.mf[q] = None
  BY DestFields
<1>2. CASE t.mf[from] # None
  <2>1. /\ u \in Tables /\ u.id = t.id
        /\ u.mf[from] = None /\ u.mf[to].ino = t.mf[from].ino
        /\ \A q \in Path \ {from, to} : /\ u.mf[q] = None <=> t.mf[q] = None
                                        /\ t.mf[q] # None => u.mf[q].ino = t.mf[q].ino
    BY <1>2, RenameFile
  <2> HIDE DEF u
  <2>2. ASSUME NEW q \in Path, u.mf[q] # None
        PROVE  \E p \in Path : t.mf[p] # None /\ u.mf[q].ino = t.mf[p].ino
    BY <1>2, <2>1, <2>2
  <2> QED
    BY <2>1, <2>2 DEF Inherits
<1>3. CASE t.mf[from] = None /\ from \in t.ln
  <2>1. u \in Tables /\ u.id = t.id /\ u.mf = d.mf
    BY <1>3, RenameSymlink
  <2> HIDE DEF u, d
  <2> QED
    BY <1>1, <2>1 DEF Inherits
<1>4. CASE t.mf[from] = None /\ from \notin t.ln /\ from \in t.sp
  <2>1. u \in Tables /\ u.id = t.id /\ u.mf = d.mf
    BY <1>4, RenameSpecial
  <2> HIDE DEF u, d
  <2> QED
    BY <1>1, <2>1 DEF Inherits
<1>5. CASE t.mf[from] = None /\ from \notin t.ln /\ from \notin t.sp
  <2>1. u \in Tables /\ u.id = t.id /\ u.mf = Reparented(d, from, to)
    <3>1. Fits(t, from, to)
      BY <1>5, TableFields
    <3> QED
      BY <1>5, <3>1, RenameDir
  <2>d. d \in Tables
    BY DestFields
  <2> HIDE DEF u, d
  <2>2. ASSUME NEW q \in Path, u.mf[q] # None
        PROVE  \E p \in Path : t.mf[p] # None /\ u.mf[q].ino = t.mf[p].ino
    <3>1. PICK p \in Path : u.mf[q] = d.mf[p]
      BY <2>1, <2>2, <2>d, ReparentedIs
    <3>2. d.mf[p] = t.mf[p]
      BY <1>1, <2>2, <3>1
    <3> QED
      BY <2>2, <3>1, <3>2
  <2> QED
    BY <2>1, <2>2 DEF Inherits
<1> QED
  BY <1>2, <1>3, <1>4, <1>5

-----------------------------------------------------------------------------
(* What each request is to the tables, in any state and in a sound one.    *)

TableStep(t, u) == u \in Tables /\ u.id \in {t.id, t.id + 1} /\ (Counted(t) => Counted(u))
TreeStep(t, u) == Sound(u) /\ (TreeOf(u) = TreeOf(t) \/ Tree!Step(TreeOf(t), TreeOf(u)))
Ready(t) == Sound(t) /\ Counted(t) /\ t.id < MaxOp

LEMMA ReadyNumbers ==
    ASSUME NEW t \in Tables, Ready(t), NEW u, TableStep(t, u)
    PROVE  Numbers(u)
<1>1. t.id \in Nat /\ u.id \in Nat /\ MaxOp \in Nat
  BY TableFields, JournalAssumption DEF TableStep
<1>2. u.id <= MaxOp /\ Counted(u)
  BY <1>1 DEF Ready, TableStep
<1>3. ASSUME NEW p \in Path, u.mf[p] # None PROVE u.mf[p].ino \in 1 .. MaxOp
  <2>1. u.mf[p].ino \in 1 .. u.id
    BY <1>2, <1>3 DEF Counted
  <2> QED
    BY <1>1, <1>2, <2>1
<1> QED
  BY <1>3 DEF Numbers

LEMMA FreeIs ==
    ASSUME NEW t \in Tables, Sound(t), NEW p \in Path, resolveKind(t, p) = "absent"
    PROVE  p \notin t.de /\ Blank(t, p)
<1>1. Local(t, p)[1] = "absent"
  BY KindIs
<1>2. p \notin t.de
  BY <1>1, TableFields DEF Local, Sound
<1> QED
  BY <1>2, AbsentIs

LEMMA ParentDir ==
    ASSUME NEW t \in Tables, Sound(t), NEW p \in Path, IsDir(t, splitParent(p))
    PROVE  DirEntry(t, splitParent(p))
<1>1. splitParent(p) \in Path \cup {Root}
  BY PathFacts
<1> QED
  BY <1>1, DirIs DEF DirEntry

LEMMA PutStep ==
    ASSUME NEW t \in Tables, NEW p \in Path, NEW body \in Nat, NEW exp \in Nat, PutAccepts(t, p, exp)
    PROVE  LET u == Put(t, p, exp, body)
           IN  /\ TableStep(t, u) /\ Content(u, p) = body
               /\ Ready(t) /\ (exp = 0 => resolveKind(t, p) = "absent" /\ IsDir(t, splitParent(p))) => TreeStep(t, u)
<1> DEFINE u == Put(t, p, exp, body)
<1> SUFFICES /\ TableStep(t, u) /\ Content(u, p) = body
             /\ Ready(t) /\ (exp = 0 => resolveKind(t, p) = "absent" /\ IsDir(t, splitParent(p))) => TreeStep(t, u)
  OBVIOUS
<1>1. t.id \in Nat
  BY TableFields
<1>2. exp = 0 <=> t.mf[p] = None
  BY VersionIs DEF PutAccepts
<1>3. CASE exp = 0
  <2>1. /\ u \in Tables /\ u.ln = t.ln /\ u.sp = t.sp /\ u.de = t.de \cup {p} /\ u.id = t.id + 1
        /\ u.mf[p] # None /\ u.mf[p].ino = t.id + 1 /\ u.mf[p].body = body
        /\ \A q \in Path \ {p} : u.mf[q] = t.mf[q]
    BY <1>2, <1>3, PutNew
  <2> HIDE DEF u
  <2>2. ASSUME Counted(t), NEW q \in Path, u.mf[q] # None PROVE u.mf[q].ino \in 1 .. u.id
    <3>1. CASE q = p
      BY <1>1, <2>1, <3>1
    <3>2. CASE q # p
      <4>1. t.mf[q].ino \in 1 .. t.id /\ u.mf[q] = t.mf[q]
        BY <2>1, <2>2, <3>2 DEF Counted
      <4> QED
        BY <1>1, <2>1, <4>1
    <3> QED
      BY <3>1, <3>2
  <2>3. TableStep(t, u)
    BY <2>1, <2>2 DEF TableStep, Counted
  <2>4. ASSUME Ready(t), resolveKind(t, p) = "absent", IsDir(t, splitParent(p)) PROVE TreeStep(t, u)
    <3>1. p \notin t.de /\ Blank(t, p) /\ DirEntry(t, splitParent(p)) /\ Sound(t)
      BY <2>4, FreeIs, ParentDir DEF Ready
    <3>2. \A q \in Path \ {p} : Like(u, q, t, q)
      BY <2>1 DEF Like
    <3>3. OneKind(u, p) /\ p \in u.de
      BY <2>1, <3>1 DEF OneKind, Blank
    <3>4. Numbers(u)
      BY <2>3, <2>4, ReadyNumbers
    <3> QED
      BY <2>1, <3>1, <3>2, <3>3, <3>4, MakesNode DEF TreeStep
  <2>5. Content(u, p) = body
    BY <2>1 DEF Content
  <2> QED
    BY <1>3, <2>3, <2>4, <2>5
<1>4. CASE exp # 0
  <2>1. /\ u \in Tables /\ u.ln = t.ln /\ u.sp = t.sp /\ u.de = t.de \cup {p} /\ u.id = t.id
        /\ u.mf[p].body = body
        /\ \A q \in Path : /\ u.mf[q] = None <=> t.mf[q] = None
                           /\ t.mf[q] # None => u.mf[q].ino = t.mf[q].ino
    BY <1>2, <1>4, PutOver
  <2> HIDE DEF u
  <2>2. TableStep(t, u)
    BY <2>1 DEF TableStep, Counted
  <2>3. ASSUME Ready(t) PROVE TreeStep(t, u)
    <3>1. p \in t.de
      BY <1>2, <1>4, <2>3, TableFields DEF Ready, Sound
    <3>2. \A q \in Path : Like(u, q, t, q)
      BY <2>1, <3>1 DEF Like
    <3> QED
      BY <2>1, <2>3, <3>2, KeepsNodes DEF Ready, TreeStep
  <2>4. Content(u, p) = body
    BY <1>2, <1>4, <2>1 DEF Content
  <2> QED
    BY <2>2, <2>3, <2>4
<1> QED
  BY <1>3, <1>4

LEMMA LinkStep ==
    ASSUME NEW t \in Tables, NEW from \in Path, NEW to \in Path, LinkAccepts(t, from, to)
    PROVE  LET u == Link(t, from, to)
           IN  /\ TableStep(t, u) /\ Content(u, to) = Content(t, from)
               /\ Ready(t) /\ IsDir(t, splitParent(to)) => TreeStep(t, u)
<1> DEFINE u == Link(t, from, to)
<1> SUFFICES /\ TableStep(t, u) /\ Content(u, to) = Content(t, from)
             /\ Ready(t) /\ IsDir(t, splitParent(to)) => TreeStep(t, u)
  OBVIOUS
<1>1. t.mf[from] # None /\ resolveKind(t, to) = "absent"
  BY DEF LinkAccepts
<1>2. /\ u \in Tables /\ u.ln = t.ln /\ u.sp = t.sp /\ u.de = t.de \cup {to} /\ u.id = t.id
      /\ u.mf[to] = t.mf[from] /\ \A q \in Path \ {to} : u.mf[q] = t.mf[q]
  BY <1>1, LinkFields
<1> HIDE DEF u
<1>3. TableStep(t, u)
  <2>1. ASSUME Counted(t), NEW q \in Path, u.mf[q] # None PROVE u.mf[q].ino \in 1 .. u.id
    BY <1>1, <1>2, <2>1 DEF Counted
  <2> QED
    BY <1>2, <2>1 DEF TableStep, Counted
<1>4. Content(u, to) = Content(t, from)
  BY <1>2 DEF Content
<1>5. ASSUME Ready(t), IsDir(t, splitParent(to)) PROVE TreeStep(t, u)
  <2>1. to \notin t.de /\ Blank(t, to) /\ DirEntry(t, splitParent(to)) /\ Sound(t)
    BY <1>1, <1>5, FreeIs, ParentDir DEF Ready
  <2>2. \A q \in Path \ {to} : Like(u, q, t, q)
    BY <1>2 DEF Like
  <2>3. OneKind(u, to) /\ to \in u.de
    BY <1>2, <2>1 DEF OneKind, Blank
  <2>4. Numbers(u)
    BY <1>3, <1>5, ReadyNumbers
  <2> QED
    BY <1>2, <2>1, <2>2, <2>3, <2>4, MakesNode DEF TreeStep
<1> QED
  BY <1>3, <1>4, <1>5

LEMMA DeleteStep ==
    ASSUME NEW t \in Tables, NEW p \in Path, NEW exp \in Nat, DeleteAccepts(t, p, exp)
    PROVE  LET u == Delete(t, p)
           IN  /\ TableStep(t, u)
               /\ OneKind(t, p) => Content(u, p) = 0
               /\ Ready(t) => TreeStep(t, u)
<1> DEFINE u == Delete(t, p)
<1> SUFFICES TableStep(t, u) /\ (OneKind(t, p) => Content(u, p) = 0) /\ (Ready(t) => TreeStep(t, u))
  OBVIOUS
<1>1. /\ u \in Tables /\ u.de = t.de \ {p} /\ u.id = t.id
      /\ \A q \in Path \ {p} : /\ u.mf[q] = t.mf[q]
                               /\ q \in u.ln <=> q \in t.ln
                               /\ q \in u.sp <=> q \in t.sp
      /\ u.mf[p] = t.mf[p] \/ u.mf[p] = None
      /\ OneKind(t, p) => Blank(u, p)
  BY DeleteFields
<1> HIDE DEF u
<1>2. TableStep(t, u)
  BY <1>1 DEF TableStep, Counted
<1>3. OneKind(t, p) => Content(u, p) = 0
  BY <1>1 DEF Blank, Content
<1>4. ASSUME Ready(t) PROVE TreeStep(t, u)
  <2>1. p \in Rows(t)
    <3>1. exp > 0 /\ Version(t, p) = exp => t.mf[p] # None
      BY VersionIs
    <3> QED
      BY <3>1, TableFields DEF DeleteAccepts
  <2>2. p \in t.de /\ Sound(t) /\ OneKind(t, p)
    BY <1>4, <2>1 DEF Ready, Sound
  <2>3. \A q \in t.de : splitParent(q) # p
    BY <2>1, <2>2, LeafAbove
  <2>4. \A q \in Path \ {p} : Like(u, q, t, q)
    BY <1>1 DEF Like
  <2> QED
    BY <1>1, <2>2, <2>3, <2>4, UnmakesNode DEF TreeStep
<1> QED
  BY <1>2, <1>3, <1>4

LEMMA DirStep ==
    ASSUME NEW t \in Tables, NEW p \in Path
    PROVE  /\ TableStep(t, List(t, p)) /\ TableStep(t, Symlink(t, p)) /\ TableStep(t, Mknod(t, p))
           /\ TableStep(t, Unlist(t, p))
           /\ Ready(t) /\ resolveKind(t, p) = "absent" /\ IsDir(t, splitParent(p)) =>
                  TreeStep(t, List(t, p)) /\ TreeStep(t, Symlink(t, p)) /\ TreeStep(t, Mknod(t, p))
           /\ Ready(t) /\ resolveKind(t, p) = "dir" /\ DirRemoveAccepts(t, p) => TreeStep(t, Unlist(t, p))
<1>1. ASSUME NEW u \in Tables, u.mf = t.mf, u.id = t.id PROVE TableStep(t, u)
  BY <1>1 DEF TableStep, Counted
<1>2. ASSUME NEW u \in Tables, TableStep(t, u), \A q \in Path \ {p} : Like(u, q, t, q),
             p \in u.de, Blank(t, p) => OneKind(u, p),
             Ready(t), resolveKind(t, p) = "absent", IsDir(t, splitParent(p))
      PROVE  TreeStep(t, u)
  <2>1. p \notin t.de /\ Blank(t, p) /\ DirEntry(t, splitParent(p)) /\ Sound(t)
    BY <1>2, FreeIs, ParentDir DEF Ready
  <2>2. Numbers(u)
    BY <1>2, ReadyNumbers
  <2> QED
    BY <1>2, <2>1, <2>2, MakesNode DEF TreeStep
<1>3. ASSUME Ready(t), resolveKind(t, p) = "dir", DirRemoveAccepts(t, p) PROVE TreeStep(t, Unlist(t, p))
  <2> DEFINE u == Unlist(t, p)
  <2>1. u \in Tables /\ u.mf = t.mf /\ u.ln = t.ln /\ u.sp = t.sp /\ u.de = t.de \ {p} /\ u.id = t.id
    BY UnlistFields
  <2> HIDE DEF u
  <2>2. p \in t.de /\ \A q \in t.de : splitParent(q) # p
    BY <1>3 DEF DirRemoveAccepts, Children
  <2>3. t.mf[p] = None /\ p \notin t.ln /\ p \notin t.sp
    BY <1>3 DEF resolveKind
  <2>4. Blank(u, p) /\ \A q \in Path \ {p} : Like(u, q, t, q)
    BY <2>1, <2>3 DEF Blank, Like
  <2>5. TreeStep(t, u)
    BY <1>3, <2>1, <2>2, <2>4, UnmakesNode DEF Ready, TreeStep
  <2> QED
    BY <2>5 DEF u
<1>4. /\ TableStep(t, List(t, p)) /\ TableStep(t, Symlink(t, p)) /\ TableStep(t, Mknod(t, p))
      /\ TableStep(t, Unlist(t, p))
  BY <1>1, ListFields, UnlistFields, SymlinkFields, MknodFields
<1>5. ASSUME Ready(t), resolveKind(t, p) = "absent", IsDir(t, splitParent(p)) PROVE TreeStep(t, List(t, p))
  <2>1. PICK u \in Tables : /\ u = List(t, p) /\ u.mf = t.mf /\ u.ln = t.ln /\ u.sp = t.sp
                          /\ u.de = t.de \cup {p} /\ u.id = t.id
    BY ListFields
  <2>2. (\A q \in Path \ {p} : Like(u, q, t, q)) /\ p \in u.de /\ (Blank(t, p) => OneKind(u, p))
    BY <2>1 DEF Like, Blank, OneKind
  <2>3. TableStep(t, u)
    BY <1>1, <2>1
  <2>4. TreeStep(t, u)
    BY <1>2, <1>5, <2>2, <2>3
  <2> QED
    BY <2>1, <2>4
<1>6. ASSUME Ready(t), resolveKind(t, p) = "absent", IsDir(t, splitParent(p)) PROVE TreeStep(t, Symlink(t, p))
  <2>1. PICK u \in Tables : /\ u = Symlink(t, p) /\ u.mf = t.mf /\ u.ln = t.ln \cup {p} /\ u.sp = t.sp
                          /\ u.de = t.de \cup {p} /\ u.id = t.id
    BY SymlinkFields
  <2>2. (\A q \in Path \ {p} : Like(u, q, t, q)) /\ p \in u.de /\ (Blank(t, p) => OneKind(u, p))
    BY <2>1 DEF Like, Blank, OneKind
  <2>3. TableStep(t, u)
    BY <1>1, <2>1
  <2>4. TreeStep(t, u)
    BY <1>2, <1>6, <2>2, <2>3
  <2> QED
    BY <2>1, <2>4
<1>7. ASSUME Ready(t), resolveKind(t, p) = "absent", IsDir(t, splitParent(p)) PROVE TreeStep(t, Mknod(t, p))
  <2>1. PICK u \in Tables : /\ u = Mknod(t, p) /\ u.mf = t.mf /\ u.ln = t.ln /\ u.sp = t.sp \cup {p}
                          /\ u.de = t.de \cup {p} /\ u.id = t.id
    BY MknodFields
  <2>2. (\A q \in Path \ {p} : Like(u, q, t, q)) /\ p \in u.de /\ (Blank(t, p) => OneKind(u, p))
    BY <2>1 DEF Like, Blank, OneKind
  <2>3. TableStep(t, u)
    BY <1>1, <2>1
  <2>4. TreeStep(t, u)
    BY <1>2, <1>7, <2>2, <2>3
  <2> QED
    BY <2>1, <2>4
<1> QED
  BY <1>3, <1>4, <1>5, <1>6, <1>7

\* The rename of a file rewrites no other row.
LEMMA FileExact ==
    ASSUME NEW t \in Tables, NEW from \in Path, NEW to \in Path, t.mf[from] # None
    PROVE  reparentAccepts(t, from, to) /\ Exact(t, from, to)
<1>1. resolveKind(t, from) = "file"
  BY DEF resolveKind
<1> QED
  BY <1>1 DEF reparentAccepts, Exact

LEMMA RenameStep ==
    ASSUME NEW t \in Tables, NEW from \in Path, NEW to \in Path, renameAccepts(t, from, to),
           reparentAccepts(t, from, to)
    PROVE  LET u == Rename(t, from, to)
           IN  /\ TableStep(t, u)
               /\ t.mf[from] # None => Content(u, to) = Content(t, from) /\ Content(u, from) = 0
               /\ Ready(t) /\ IsDir(t, splitParent(to)) /\ (t.mf[from] # None \/ ~Under(from, to)) /\ Exact(t, from, to)
                  => TreeStep(t, u)
<1> DEFINE u == Rename(t, from, to)
<1> SUFFICES /\ TableStep(t, u)
             /\ t.mf[from] # None => Content(u, to) = Content(t, from) /\ Content(u, from) = 0
             /\ Ready(t) /\ IsDir(t, splitParent(to)) /\ (t.mf[from] # None \/ ~Under(from, to)) /\ Exact(t, from, to)
                  => TreeStep(t, u)
  OBVIOUS
<1>1. from # to
  BY DEF renameAccepts
<1>2. u \in Tables /\ u.id = t.id /\ Inherits(u, t)
  <2>1. from \in Rows(t) \/ resolveKind(t, from) = "dir"
    BY TableFields DEF renameAccepts, resolveKind
  <2>2. from \in Rows(t) \/ Fits(t, from, to)
    BY <2>1 DEF reparentAccepts
  <2> QED
    BY <1>1, <2>2, RenameTypes
<1>3. ASSUME t.mf[from] # None PROVE Content(u, to) = Content(t, from) /\ Content(u, from) = 0
  <2>1. u.mf[from] = None /\ u.mf[to] # None /\ u.mf[to].body = t.mf[from].body
    BY <1>1, <1>3, RenameFile
  <2> HIDE DEF u
  <2> QED
    BY <1>3, <2>1 DEF Content
<1>4. ASSUME Ready(t), IsDir(t, splitParent(to)), t.mf[from] # None \/ ~Under(from, to), Exact(t, from, to)
      PROVE  TreeStep(t, u)
  <2>1. DirEntry(t, splitParent(to)) /\ Sound(t)
    BY <1>4, ParentDir DEF Ready
  <2>2. t.mf[from] # None => ~Under(from, to)
    BY <2>1, LeafAbove, TableFields
  <2>3. Movable(t, from, to)
    BY <1>4, <2>1, <2>2 DEF Movable, reparentAccepts
  <2> QED
    BY <2>1, <2>3, RenameSteps DEF TreeStep
<1> HIDE DEF u
<1>5. TableStep(t, u)
  <2>1. ASSUME Counted(t), NEW q \in Path, u.mf[q] # None PROVE u.mf[q].ino \in 1 .. u.id
    BY <1>2, <2>1 DEF Inherits, Counted
  <2> QED
    BY <1>2, <2>1 DEF TableStep, Counted
<1> QED
  BY <1>3, <1>4, <1>5

-----------------------------------------------------------------------------
(* The journal.                                                            *)

\* The next number of a session is above the ones its rows have and at most
\* the number of the operation, although numbers are given back by DeleteRow.
LEMMA NextSeqIs ==
    ASSUME TypeOK, RowsCounted, NEW s
    PROVE  /\ NextSeq(s) \in 1 .. ops + 1
           /\ \A r \in journal : r.ses = s => r.seq < NextSeq(s)
<1>1. ops \in Nat
  BY JournalAssumption DEF TypeOK
<1>2. \A r \in journal : r.seq \in Nat \ {0} /\ r.id \in Nat /\ r.id <= ops /\ r.seq <= r.id
  BY DEF TypeOK, RowsCounted, Row
<1>3. \A r \in journal : r.seq \in 0 .. ops /\ r.seq \in Nat \ {0}
  BY <1>1, <1>2
<1>4. \A r \in journal : r.ses = s => r.seq \in SeqsOf(s)
  BY DEF SeqsOf
<1>5. SeqsOf(s) \in SUBSET (0 .. ops) /\ \A n \in SeqsOf(s) : n \in Nat \ {0}
  BY <1>3 DEF SeqsOf
<1>6. CASE SeqsOf(s) = {}
  BY <1>1, <1>4, <1>6 DEF NextSeq
<1>7. CASE SeqsOf(s) # {}
  <2>1. \E n \in SeqsOf(s) : \A m \in SeqsOf(s) : n >= m
    BY <1>1, <1>5, <1>7, Greatest
  <2>2. Max(SeqsOf(s)) \in SeqsOf(s) /\ \A m \in SeqsOf(s) : Max(SeqsOf(s)) >= m
    BY <2>1 DEF Max
  <2>3. PICK n \in 0 .. ops : n = Max(SeqsOf(s))
    BY <1>5, <2>2
  <2>4. NextSeq(s) = 1 + n
    BY <1>7, <2>3 DEF NextSeq
  <2>5. \A r \in journal : r.ses = s => r.seq <= n
    BY <1>1, <1>3, <1>4, <2>2, <2>3
  <2> QED
    BY <1>1, <1>3, <2>4, <2>5
<1> QED
  BY <1>6, <1>7

(* The row a write asks for.                                               *)
Entry == [op : {"create", "update", "delete", "rename"}, path : Path, after : Nat, from : Path \cup {Root}, body : Nat]

LEMMA StreamFields ==
    ASSUME TypeOK
    PROVE  /\ st.pc \in {"none", "off", "caught", "live", "closed"} /\ st.hi \in Nat
           /\ st.q \in Seq(Frame) /\ st.sent \in Seq(Nat \ {0})
           /\ \A i \in DOMAIN st.q : st.q[i] \in Frame
           /\ \A i \in DOMAIN st.sent : st.sent[i] \in Nat \ {0}
           /\ ops \in Nat /\ MaxOp \in Nat /\ ops <= MaxOp
<1>1. /\ st.pc \in {"none", "off", "caught", "live", "closed"} /\ st.hi \in Nat
      /\ st.q \in Seq(Frame) /\ st.sent \in Seq(Nat \ {0})
  BY DEF TypeOK, Follower
<1>2. \A i \in DOMAIN st.q : st.q[i] \in Frame
  <2>1. DOMAIN st.q = 1 .. Len(st.q)
    BY <1>1, LenProperties
  <2> QED
    BY <1>1, <2>1, ElementOfSeq
<1>3. \A i \in DOMAIN st.sent : st.sent[i] \in Nat \ {0}
  <2>1. DOMAIN st.sent = 1 .. Len(st.sent)
    BY <1>1, LenProperties
  <2> QED
    BY <1>1, <2>1, ElementOfSeq
<1> QED
  BY <1>1, <1>2, <1>3, JournalAssumption DEF TypeOK

LEMMA BelowLimit ==
    ASSUME TypeOK, ops < Limit
    PROVE  ops < MaxOp /\ ops \in Nat /\ MaxOp \in Nat /\ ops + 1 \in 0 .. MaxOp
BY JournalAssumption DEF TypeOK, Limit

LEMMA CommitKeeps ==
    ASSUME TypeOK, RecordInv, NEW t, NEW s \in Nat, NEW row \in Entry, Commit(t, s, row), st' = st,
           db \in Tables, t \in Tables,
           row.op = "rename" => row.from \in Path,
           row.op \in {"update", "delete"} => row.body = Content(db, row.path)
    PROVE  /\ ops' = ops + 1 /\ ops' \in 0 .. MaxOp /\ db' = t
           /\ journal' \subseteq Row /\ bc' \subseteq Frame
           /\ RecordInv'
<1> DEFINE n == ops + 1
           new == [op |-> row.op, path |-> row.path, after |-> row.after, from |-> row.from, body |-> row.body,
                   ses |-> s, seq |-> NextSeq(s), id |-> n,
                   was |-> Content(db, row.path), left |-> Content(t, row.path)]
<1>0. PICK e : e = [id |-> n, seq |-> NextSeq(s)]
  OBVIOUS
<1>1. ops < MaxOp /\ ops \in Nat /\ ops' = n /\ n \in Nat \ {0} /\ n \in 0 .. MaxOp
  BY BelowLimit DEF Commit
<1>2. NextSeq(s) \in 1 .. n /\ \A r \in journal : r.ses = s => r.seq < NextSeq(s)
  BY NextSeqIs DEF RecordInv
<1>3. journal' = journal \cup {new}
  BY DEF Commit, appendJournal
<1>4. row.path \in Path /\ Content(db, row.path) \in Nat /\ Content(t, row.path) \in Nat
  BY ContentIs DEF Entry
<1>5. new \in Row
  BY <1>1, <1>2, <1>4 DEF Row, Entry
<1>6. e \in Frame
  BY <1>0, <1>1, <1>2 DEF Frame
<1>7. bc' = bc \/ bc' = bc \cup {e}
  BY <1>0 DEF Commit
<1>8. new.id = n /\ new.ses = s /\ new.seq = NextSeq(s) /\ e.id = n /\ e.seq = NextSeq(s)
  BY <1>0
<1>9. RowSound(new)
  BY DEF RowSound
<1>10. /\ journal \subseteq Row /\ bc \subseteq Frame
       /\ \A r \in journal : r.id \in Nat /\ r.seq \in Nat /\ r.id <= ops /\ r.seq <= r.id
       /\ \A f \in bc : f.id \in Nat /\ f.seq \in Nat
  BY DEF TypeOK, Row, Frame, RecordInv, RowsCounted
<1> HIDE DEF new, n
<1>11. RowsCounted'
  <2>1. ASSUME NEW r \in journal' PROVE r.id <= ops' /\ r.seq <= r.id
    <3>1. CASE r \in journal
      BY <1>1, <1>10, <3>1 DEF n
    <3>2. CASE r = new
      BY <1>1, <1>2, <1>8, <3>2
    <3> QED
      BY <1>3, <3>1, <3>2
  <2>2. ASSUME NEW r \in journal', NEW x \in journal', r.id = x.id PROVE r = x
    <3>1. \A y \in journal : y.id # n
      BY <1>1, <1>10 DEF n
    <3> QED
      BY <1>3, <1>8, <2>2, <3>1 DEF RecordInv, RowsCounted
  <2> QED
    BY <2>1, <2>2 DEF RowsCounted
<1>12. KeysUnique'
  <2>1. ASSUME NEW r \in journal', NEW x \in journal', r.ses = x.ses, r.seq = x.seq PROVE r = x
    <3>1. ASSUME NEW y \in journal PROVE ~(y.ses = s /\ y.seq = NextSeq(s))
      BY <1>2, <1>10
    <3> QED
      BY <1>3, <1>8, <2>1, <3>1 DEF RecordInv, KeysUnique
  <2> QED
    BY <2>1 DEF KeysUnique
<1>13. RowsSound'
  BY <1>3, <1>9 DEF RecordInv, RowsSound, RowSound
<1>14. /\ \A i \in DOMAIN st.sent : st.sent[i] <= ops /\ st.sent[i] \in Nat
       /\ \A i \in DOMAIN st.q : st.q[i].id <= ops /\ st.q[i].id \in Nat
       /\ \A f \in bc : f.id <= ops
  BY StreamFields DEF RecordInv, FramesSound, Due, Frame
<1>15. \A f : (f.id \in Nat /\ Due(f)) => Due(f)'
  BY <1>1 DEF Due, n
<1>16. Due(e)'
  <2>1. e.id \notin Range(st.sent)
    <3>1. \A i \in DOMAIN st.sent : st.sent[i] # n
      BY <1>1, <1>14 DEF n
    <3> QED
      BY <1>8, <3>1 DEF Range
  <2> QED
    BY <1>1, <1>8, <2>1 DEF Due
<1>17. FramesSound'
  <2>1. ASSUME NEW f \in bc'
        PROVE  /\ Due(f)'
               /\ \A g \in bc' : f.id = g.id => f = g
               /\ \A r \in journal' : f.id = r.id => f.seq = r.seq
               /\ \A i \in DOMAIN st.q : st.q[i].id # f.id
    <3>0. \A g \in bc : g.id # n
      BY <1>1, <1>10, <1>14 DEF n
    <3>1. CASE f \in bc
      <4>1. Due(f)'
        BY <1>10, <1>15, <3>1 DEF RecordInv, FramesSound
      <4>2. \A g \in bc' : f.id = g.id => f = g
        BY <1>7, <1>8, <3>0, <3>1 DEF RecordInv, FramesSound
      <4>3. \A r \in journal' : f.id = r.id => f.seq = r.seq
        BY <1>3, <1>8, <3>0, <3>1 DEF RecordInv, FramesSound
      <4>4. \A i \in DOMAIN st.q : st.q[i].id # f.id
        BY <3>1 DEF RecordInv, FramesSound
      <4> QED
        BY <4>1, <4>2, <4>3, <4>4
    <3>2. CASE f = e
      <4>1. \A g \in bc' : f.id = g.id => f = g
        BY <1>7, <1>8, <3>0, <3>2
      <4>2. \A r \in journal : r.id # n
        BY <1>1, <1>10 DEF n
      <4>3. \A r \in journal' : f.id = r.id => f.seq = r.seq
        BY <1>3, <1>8, <3>2, <4>2
      <4>4. \A i \in DOMAIN st.q : st.q[i].id # f.id
        BY <1>1, <1>8, <1>14, <3>2 DEF n
      <4> QED
        BY <1>16, <3>2, <4>1, <4>3, <4>4
    <3> QED
      BY <1>7, <3>1, <3>2
  <2>2. ASSUME NEW i \in DOMAIN st.q
        PROVE  Due(st.q[i])' /\ \A j \in DOMAIN st.q : st.q[i].id = st.q[j].id => i = j
    <3>1. PICK f : f = st.q[i]
      OBVIOUS
    <3>2. Due(f) /\ f.id \in Nat
      BY <1>14, <3>1 DEF RecordInv, FramesSound
    <3>3. Due(f)'
      BY <1>15, <3>2
    <3>4. Due(st.q[i])'
      BY <3>1, <3>2, <1>1 DEF Due, n
    <3> QED
      BY <3>4 DEF RecordInv, FramesSound
  <2>3. \A i \in DOMAIN st.sent : st.sent[i] <= ops'
    BY <1>1, <1>14 DEF n
  <2> QED
    BY <2>1, <2>2, <2>3 DEF FramesSound
<1>18. StreamSendsOnce'
  BY DEF RecordInv, StreamSendsOnce
<1> QED
  BY <1>1, <1>3, <1>5, <1>6, <1>7, <1>10, <1>11, <1>12, <1>13, <1>17, <1>18 DEF RecordInv, Commit

\* A step that adds no row and no frame, and leaves the stream as it is or
\* starts it afresh.
LEMMA QuietKeeps ==
    ASSUME TypeOK, RecordInv, ops' = ops \/ ops' = ops + 1, journal' \subseteq journal, bc' \subseteq bc,
           \/ st'.q = st.q /\ st'.hi = st.hi /\ st'.sent = st.sent
           \/ st'.q = <<>> /\ st'.sent = <<>>
    PROVE  RecordInv'
<1>1. ops \in Nat /\ ops' \in Nat /\ ops <= ops'
  BY StreamFields
<1>2. /\ \A r \in journal : r.id \in Nat /\ r.id <= ops /\ r.seq <= r.id
      /\ \A f \in bc : f.id \in Nat /\ f.id <= ops
      /\ \A i \in DOMAIN st.q : st.q[i].id \in Nat /\ st.q[i].id <= ops
      /\ \A i \in DOMAIN st.sent : st.sent[i] \in Nat /\ st.sent[i] <= ops
  BY StreamFields DEF TypeOK, Row, Frame, RecordInv, RowsCounted, FramesSound, Due
<1>3. RowsCounted'
  BY <1>1, <1>2 DEF RecordInv, RowsCounted
<1>4. KeysUnique'
  BY DEF RecordInv, KeysUnique
<1>5. RowsSound'
  BY DEF RecordInv, RowsSound, RowSound
<1>6. CASE st'.q = st.q /\ st'.hi = st.hi /\ st'.sent = st.sent
  <2>1. \A f \in bc : Due(f)'
    BY <1>1, <1>2, <1>6 DEF Due, RecordInv, FramesSound
  <2>2. \A i \in DOMAIN st.q : Due(st.q[i])'
    BY <1>1, <1>2, <1>6 DEF Due, RecordInv, FramesSound
  <2>3. \A i \in DOMAIN st.sent : st.sent[i] <= ops'
    BY <1>1, <1>2
  <2>4. FramesSound'
    BY <1>6, <2>1, <2>2, <2>3 DEF RecordInv, FramesSound
  <2>5. StreamSendsOnce'
    BY <1>6 DEF RecordInv, StreamSendsOnce
  <2> QED
    BY <1>3, <1>4, <1>5, <2>4, <2>5 DEF RecordInv
<1>7. CASE st'.q = <<>> /\ st'.sent = <<>>
  <2>1. DOMAIN st'.q = {} /\ DOMAIN st'.sent = {} /\ Range(st'.sent) = {}
    BY <1>7 DEF Range
  <2>2. \A f \in bc : Due(f)'
    BY <1>1, <1>2, <2>1 DEF Due
  <2>3. FramesSound'
    BY <2>1, <2>2 DEF RecordInv, FramesSound
  <2>4. StreamSendsOnce'
    BY <2>1 DEF StreamSendsOnce, IsInjective
  <2> QED
    BY <1>3, <1>4, <1>5, <2>3, <2>4 DEF RecordInv
<1> QED
  BY <1>6, <1>7

LEMMA EnqueueKeeps ==
    ASSUME TypeOK, RecordInv, NEW e \in bc, Broadcast(e), st.pc = "live", Len(st.q) < Buffer
    PROVE  st' \in Follower /\ Len(st'.q) <= Buffer /\ RecordInv'
<1>1. /\ st' = [st EXCEPT !.q = Append(st.q, e)] /\ bc' = bc \ {e} /\ journal' = journal /\ ops' = ops
  BY DEF Broadcast, Enqueue
<1>2. e \in Frame /\ st.q \in Seq(Frame) /\ Len(st.q) \in Nat /\ DOMAIN st.q = 1 .. Len(st.q)
  BY StreamFields, LenProperties DEF TypeOK
<1>3. PICK q \in Seq(Frame) : q = Append(st.q, e)
  BY <1>2, AppendProperties
<1>4. /\ Len(q) = Len(st.q) + 1 /\ DOMAIN q = 1 .. Len(st.q) + 1
      /\ \A i \in 1 .. Len(st.q) : q[i] = st.q[i]
      /\ q[Len(st.q) + 1] = e
  BY <1>2, <1>3, AppendProperties, LenProperties
<1>5. st' \in Follower /\ st'.q = q /\ st'.hi = st.hi /\ st'.sent = st.sent
  BY <1>1, <1>3 DEF TypeOK, Follower
<1>6. Len(q) <= Buffer
  BY <1>2, <1>4, JournalAssumption
<1>7. RowsCounted' /\ KeysUnique' /\ RowsSound' /\ StreamSendsOnce'
  BY <1>1, <1>5 DEF RecordInv, RowsCounted, KeysUnique, RowsSound, RowSound, StreamSendsOnce
<1>8. \A f : Due(f) => Due(f)'
  BY <1>1, <1>5 DEF Due
<1>9. ASSUME NEW i \in DOMAIN q
      PROVE  (i \in DOMAIN st.q /\ q[i] = st.q[i]) \/ (i = Len(st.q) + 1 /\ q[i] = e)
  BY <1>2, <1>4
<1>10. FramesSound'
  <2>1. ASSUME NEW f \in bc'
        PROVE  /\ Due(f)'
               /\ \A g \in bc' : f.id = g.id => f = g
               /\ \A r \in journal' : f.id = r.id => f.seq = r.seq
               /\ \A i \in DOMAIN q : q[i].id # f.id
    <3>1. f \in bc /\ f # e
      BY <1>1
    <3>2. Due(f) /\ f.id # e.id /\ \A i \in DOMAIN st.q : st.q[i].id # f.id
      BY <3>1 DEF RecordInv, FramesSound
    <3>3. \A i \in DOMAIN q : q[i].id # f.id
      BY <1>9, <3>2
    <3> QED
      BY <1>1, <1>8, <3>1, <3>2, <3>3 DEF RecordInv, FramesSound
  <2>2. ASSUME NEW i \in DOMAIN q
        PROVE  Due(q[i])' /\ \A j \in DOMAIN q : q[i].id = q[j].id => i = j
    <3>1. Due(q[i])
      BY <1>9 DEF RecordInv, FramesSound
    <3>2. \A j \in DOMAIN st.q : st.q[j].id # e.id
      BY DEF RecordInv, FramesSound
    <3>3. \A j \in DOMAIN q : q[i].id = q[j].id => i = j
      BY <1>9, <3>2 DEF RecordInv, FramesSound
    <3> QED
      BY <1>8, <3>1, <3>3
  <2>3. \A i \in DOMAIN st'.sent : st'.sent[i] <= ops'
    BY <1>1, <1>5 DEF RecordInv, FramesSound
  <2>4. \A i \in DOMAIN st'.q : Due(st.q[i])'
    BY <1>5, <2>2 DEF Due
  <2> QED
    BY <1>5, <2>1, <2>2, <2>3, <2>4 DEF FramesSound
<1> QED
  BY <1>5, <1>6, <1>7, <1>10 DEF RecordInv

LEMMA SendKeeps ==
    ASSUME TypeOK, RecordInv, sendLive
    PROVE  st' \in Follower /\ Len(st'.q) <= Buffer /\ RecordInv'
<1>0. bc' = bc /\ journal' = journal /\ ops' = ops
  BY DEF sendLive
<1>1. PICK e : e = Head(st.q)
  OBVIOUS
<1>2. /\ st' = [st EXCEPT !.q = Tail(st.q),
                         !.hi = IF e.seq <= st.hi THEN st.hi ELSE e.seq,
                         !.sent = IF e.seq <= st.hi THEN st.sent ELSE Append(st.sent, e.id)]
      /\ st.q # <<>> /\ bc' = bc /\ journal' = journal /\ ops' = ops
  BY <1>1 DEF sendLive
<1>3. /\ st.q \in Seq(Frame) /\ Len(st.q) \in Nat /\ Len(st.q) > 0 /\ DOMAIN st.q = 1 .. Len(st.q)
      /\ st.sent \in Seq(Nat \ {0}) /\ st.hi \in Nat /\ Len(st.sent) \in Nat /\ DOMAIN st.sent = 1 .. Len(st.sent)
      /\ ops \in Nat
  BY <1>2, StreamFields, LenProperties, EmptySeq
<1>4. e = st.q[1] /\ 1 \in DOMAIN st.q /\ e \in Frame
  BY <1>1, <1>2, <1>3, HeadTailProperties
<1>5. e.id \in Nat \ {0} /\ e.seq \in Nat \ {0} /\ Due(e)
  BY <1>4 DEF Frame, RecordInv, FramesSound
<1>6. PICK q \in Seq(Frame) : q = Tail(st.q)
  BY <1>2, <1>3, HeadTailProperties
<1>7. /\ Len(q) = Len(st.q) - 1 /\ DOMAIN q = 1 .. Len(st.q) - 1
      /\ \A i \in 1 .. Len(st.q) - 1 : q[i] = st.q[i + 1]
  BY <1>2, <1>3, <1>6, HeadTailProperties, LenProperties
<1>8. \A i \in DOMAIN q : i + 1 \in DOMAIN st.q /\ q[i] = st.q[i + 1] /\ i \in Nat /\ i + 1 # 1
  BY <1>3, <1>7
<1>9. /\ \A i \in DOMAIN q : Due(q[i]) /\ q[i].id # e.id /\ q[i] \in Frame
      /\ \A i, j \in DOMAIN q : q[i].id = q[j].id => i = j
      /\ \A f \in bc : f.id # e.id /\ \A i \in DOMAIN q : q[i].id # f.id
  <2>1. ASSUME NEW i \in DOMAIN q PROVE Due(q[i]) /\ q[i].id # e.id /\ q[i] \in Frame
    BY <1>4, <1>8, StreamFields DEF RecordInv, FramesSound
  <2>2. ASSUME NEW i \in DOMAIN q, NEW j \in DOMAIN q, q[i].id = q[j].id PROVE i = j
    <3>1. i + 1 = j + 1
      BY <1>8, <2>2 DEF RecordInv, FramesSound
    <3> QED
      BY <1>8, <3>1
  <2>3. \A f \in bc : f.id # e.id /\ \A i \in DOMAIN q : q[i].id # f.id
    BY <1>4, <1>8 DEF RecordInv, FramesSound
  <2> QED
    BY <2>1, <2>2, <2>3
<1>10. Len(q) <= Buffer
  BY <1>3, <1>7, JournalAssumption DEF TypeOK
<1>11. RowsCounted' /\ KeysUnique' /\ RowsSound'
  BY <1>2 DEF RecordInv, RowsCounted, KeysUnique, RowsSound, RowSound
<1>12. CASE e.seq <= st.hi
  <2>1. st' \in Follower /\ st'.q = q /\ st'.hi = st.hi /\ st'.sent = st.sent
    BY <1>2, <1>3, <1>6, <1>12 DEF TypeOK, Follower
  <2>2. \A f : Due(f) => Due(f)'
    BY <1>0, <2>1 DEF Due
  <2>3. \A i \in DOMAIN st'.q : Due(st.q[i])'
    BY <1>0, <1>9, <2>1 DEF Due
  <2>4. \A i \in DOMAIN st'.sent : st'.sent[i] <= ops'
    BY <1>2, <2>1 DEF RecordInv, FramesSound
  <2>5. \A f \in bc : Due(f)'
    BY <2>2 DEF RecordInv, FramesSound
  <2>6. FramesSound'
    BY <1>0, <1>9, <2>1, <2>3, <2>4, <2>5 DEF RecordInv, FramesSound
  <2>7. StreamSendsOnce'
    BY <2>1 DEF RecordInv, StreamSendsOnce
  <2> QED
    BY <1>10, <1>11, <2>1, <2>6, <2>7 DEF RecordInv
<1>13. CASE ~(e.seq <= st.hi)
  <2>1. PICK sent \in Seq(Nat \ {0}) : sent = Append(st.sent, e.id)
    BY <1>3, <1>5, AppendProperties
  <2>2. /\ Len(sent) = Len(st.sent) + 1 /\ DOMAIN sent = 1 .. Len(st.sent) + 1
        /\ \A i \in 1 .. Len(st.sent) : sent[i] = st.sent[i]
        /\ sent[Len(st.sent) + 1] = e.id
    BY <1>3, <1>5, <2>1, AppendProperties, LenProperties
  <2>3. st' \in Follower /\ st'.q = q /\ st'.hi = e.seq /\ st'.sent = sent
    BY <1>2, <1>5, <1>6, <1>13, <2>1 DEF TypeOK, Follower
  <2>4. \A i \in DOMAIN sent : (i \in DOMAIN st.sent /\ sent[i] = st.sent[i]) \/ (i = Len(st.sent) + 1 /\ sent[i] = e.id)
    <3>1. PICK k \in Nat : k = Len(st.sent)
      BY <1>3
    <3>2. DOMAIN sent = 1 .. k + 1 /\ DOMAIN st.sent = 1 .. k
      BY <1>3, <2>2, <3>1
    <3>3. \A i \in 1 .. k + 1 : i \in 1 .. k \/ i = k + 1
      BY <3>1
    <3> QED
      BY <2>2, <3>1, <3>2, <3>3
  <2>5. ASSUME NEW f, Due(f), f.id # e.id, f.seq \in Nat PROVE Due(f)'
    <3>1. f.id \in Range(sent) => f.id \in Range(st.sent)
      BY <2>4, <2>5 DEF Range
    <3> QED
      BY <1>0, <1>3, <1>5, <1>13, <2>3, <2>5, <3>1 DEF Due
  <2>6. \A i \in DOMAIN st'.q : Due(st.q[i])'
    <3> SUFFICES ASSUME NEW i \in DOMAIN q PROVE Due(q[i])'
      BY <2>3 DEF Due
    <3>1. Due(q[i]) /\ q[i].id # e.id /\ q[i].seq \in Nat
      BY <1>9 DEF Frame
    <3>2. PICK f : f = q[i]
      OBVIOUS
    <3>3. Due(f)'
      BY <2>5, <3>1, <3>2
    <3> QED
      BY <3>2, <3>3
  <2>7. \A i \in DOMAIN st'.sent : st'.sent[i] <= ops'
    BY <1>2, <1>5, <2>3, <2>4 DEF RecordInv, FramesSound, Due
  <2>8. \A f \in bc : Due(f)'
    <3>1. \A f \in bc : Due(f) /\ f.id # e.id /\ f.seq \in Nat
      BY <1>9 DEF RecordInv, FramesSound, TypeOK, Frame
    <3> QED
      BY <2>5, <3>1
  <2>9. FramesSound'
    BY <1>0, <1>9, <2>3, <2>6, <2>7, <2>8 DEF RecordInv, FramesSound
  <2>10. \A i \in DOMAIN st.sent : st.sent[i] # e.id
    BY <1>3, <1>5, <1>13 DEF Due, Range
  <2>11. StreamSendsOnce'
    BY <2>3, <2>4, <2>10 DEF RecordInv, StreamSendsOnce, IsInjective
  <2> QED
    BY <1>10, <1>11, <2>3, <2>9, <2>11 DEF RecordInv
<1> QED
  BY <1>12, <1>13

LEMMA JournalFinite ==
    ASSUME TypeOK, RowsCounted, NEW T \in SUBSET journal
    PROVE  IsFiniteSet(T) /\ Cardinality(T) \in Nat
<1>1. \A r \in T : r.id \in 0 .. ops
  BY StreamFields DEF TypeOK, Row, RowsCounted
<1>2. [r \in T |-> r.id] \in Injection(T, 0 .. ops)
  BY <1>1 DEF Injection, IsInjective, RowsCounted
<1>3. IsFiniteSet(0 .. ops)
  BY StreamFields, FS_Interval
<1>4. IsFiniteSet(T)
  BY <1>2, <1>3, FS_Injection
<1> QED
  BY <1>4, FS_CardinalityType

LEMMA CatchUpKeeps ==
    ASSUME TypeOK, RecordInv, tenantJournalStream
    PROVE  st' \in Follower /\ Len(st'.q) <= Buffer /\ RecordInv'
<1>0. bc' = bc /\ journal' = journal /\ ops' = ops
  BY DEF tenantJournalStream
<1>1. PICK above : above = {r \in journal : r.seq > 0}
  OBVIOUS
<1>2. PICK n : n = IF Cardinality(above) < CatchUp THEN Cardinality(above) ELSE CatchUp
  OBVIOUS
<1>3. n \in Nat
  <2>1. Cardinality(above) \in Nat
    BY <1>1, JournalFinite DEF RecordInv
  <2> QED
    BY <1>2, <2>1, JournalAssumption
<1>4. PICK rows : /\ rows \in [1 .. n -> above] /\ IsInjective(rows)
                  /\ \A i, j \in 1 .. n : i < j => rows[i].seq <= rows[j].seq
                  /\ st' = [pc |-> "caught", q |-> <<>>,
                            hi |-> IF rows = <<>> THEN 0 ELSE rows[Len(rows)].seq,
                            sent |-> [i \in DOMAIN rows |-> rows[i].id]]
  BY <1>1, <1>2 DEF tenantJournalStream, QueryAfterSeq
<1>5. DOMAIN rows = 1 .. n /\ rows \in Seq(above) /\ Len(rows) = n
  BY <1>3, <1>4
<1>6. \A i \in 1 .. n : rows[i] \in journal /\ rows[i].seq \in Nat /\ rows[i].id \in Nat \ {0} /\ rows[i].id <= ops
  BY <1>1, <1>4 DEF TypeOK, Row, RecordInv, RowsCounted
<1>7. PICK hi : hi = IF rows = <<>> THEN 0 ELSE rows[Len(rows)].seq
  OBVIOUS
<1>8. rows = <<>> <=> n = 0
  BY <1>3, <1>5, EmptySeq
<1>9. hi \in Nat /\ \A i \in 1 .. n : rows[i].seq <= hi
  <2>1. CASE n = 0
    BY <1>7, <1>8, <2>1
  <2>2. CASE n # 0
    <3>1. n \in 1 .. n /\ hi = rows[n].seq
      BY <1>3, <1>5, <1>7, <1>8, <2>2
    <3>2. ASSUME NEW i \in 1 .. n PROVE rows[i].seq <= rows[n].seq
      <4>1. i = n \/ i < n
        BY <1>3
      <4> QED
        BY <1>4, <1>6, <3>1, <4>1
    <3> QED
      BY <1>6, <3>1, <3>2
  <2> QED
    BY <2>1, <2>2
<1>10. PICK sent : sent = [i \in 1 .. n |-> rows[i].id]
  OBVIOUS
<1>11. sent \in Seq(Nat \ {0}) /\ DOMAIN sent = 1 .. n /\ \A i \in 1 .. n : sent[i] = rows[i].id
  BY <1>3, <1>6, <1>10
<1>12. st' = [pc |-> "caught", q |-> <<>>, hi |-> hi, sent |-> sent]
  BY <1>4, <1>5, <1>7, <1>10
<1>13. st' \in Follower /\ st'.q = <<>> /\ st'.hi = hi /\ st'.sent = sent
  <2>1. <<>> \in Seq(Frame)
    BY EmptySeq
  <2> QED
    BY <1>9, <1>11, <1>12, <2>1 DEF Follower
<1>14. Len(st'.q) <= Buffer
  BY <1>13, EmptySeq, JournalAssumption
<1>15. RowsCounted' /\ KeysUnique' /\ RowsSound'
  BY <1>0 DEF RecordInv, RowsCounted, KeysUnique, RowsSound, RowSound
<1>16. ASSUME NEW f \in bc PROVE Due(f)'
  <2>1. f.id <= ops /\ f.seq \in Nat
    BY DEF TypeOK, Frame, RecordInv, FramesSound, Due
  <2>2. ASSUME f.id \in Range(sent) PROVE f.seq <= hi
    <3>1. PICK i \in 1 .. n : f.id = rows[i].id
      BY <1>11, <2>2 DEF Range
    <3>2. f.seq = rows[i].seq
      BY <1>6, <3>1 DEF RecordInv, FramesSound
    <3> QED
      BY <1>9, <3>2
  <2> QED
    BY <1>0, <1>13, <2>1, <2>2 DEF Due
<1>17. DOMAIN st'.q = {}
  BY <1>13
<1>18. FramesSound'
  <2>1. \A i \in DOMAIN sent : sent[i] <= ops
    BY <1>6, <1>11
  <2> QED
    BY <1>0, <1>13, <1>16, <1>17, <2>1 DEF RecordInv, FramesSound
<1>19. StreamSendsOnce'
  <2>1. ASSUME NEW i \in 1 .. n, NEW j \in 1 .. n, sent[i] = sent[j] PROVE i = j
    <3>1. rows[i] = rows[j]
      BY <1>6, <1>11, <2>1 DEF RecordInv, RowsCounted
    <3> QED
      BY <1>4, <1>5, <3>1 DEF IsInjective
  <2> QED
    BY <1>11, <1>13, <2>1 DEF StreamSendsOnce, IsInjective
<1> QED
  BY <1>13, <1>14, <1>15, <1>18, <1>19 DEF RecordInv

-----------------------------------------------------------------------------
(* The steps.                                                              *)

Inv == TypeOK /\ JournalInv /\ TreeSound

(* What ImplementsTree asks of a step.                                     *)
TreeMoves == TreeOf(db) = TreeOf(db') \/ mixed' \/ Tree!Step(TreeOf(db), TreeOf(db'))

LEMMA TablesKept ==
    ASSUME Inv, db' = db, mixed' = mixed, ops' = ops \/ ops' = ops + 1
    PROVE  db' \in Tables /\ InodesCounted' /\ TreeSound' /\ TreeMoves
<1>1. db \in Tables /\ db.id \in Nat /\ ops \in Nat /\ db.id <= ops
  BY StreamFields, TableFields DEF Inv, TypeOK, JournalInv, InodesCounted
<1>2. InodesCounted'
  <2>1. db.id <= ops'
    BY <1>1
  <2> QED
    BY <2>1 DEF Inv, JournalInv, InodesCounted, Counted
<1>3. TreeSound'
  BY DEF Inv, TreeSound
<1> QED
  BY <1>1, <1>2, <1>3 DEF TreeMoves

LEMMA TablesWritten ==
    ASSUME Inv, NEW t, TableStep(db, t), db' = t, ops' = ops + 1, ops < MaxOp, mixed => mixed',
           mixed' \/ (Ready(db) => TreeStep(db, t))
    PROVE  db' \in Tables /\ InodesCounted' /\ TreeSound' /\ TreeMoves
<1>1. /\ db \in Tables /\ db.id \in Nat /\ ops \in Nat /\ db.id <= ops /\ Counted(db)
      /\ MaxOp \in Nat
  BY StreamFields, TableFields DEF Inv, TypeOK, JournalInv, InodesCounted
<1>2. t \in Tables /\ t.id \in {db.id, db.id + 1} /\ Counted(t)
  BY <1>1 DEF TableStep
<1>3. InodesCounted'
  <2>1. t.id <= ops'
    BY <1>1, <1>2
  <2> QED
    BY <1>2, <2>1 DEF InodesCounted
<1>4. CASE mixed'
  BY <1>2, <1>3, <1>4 DEF TreeSound, TreeMoves
<1>5. CASE ~mixed'
  <2>1. Sound(db)
    BY <1>1, <1>5, SoundIs DEF Inv, TreeSound
  <2>2. Ready(db)
    BY <1>1, <2>1 DEF Ready
  <2>3. Sound(t) /\ (TreeOf(t) = TreeOf(db) \/ Tree!Step(TreeOf(db), TreeOf(t)))
    BY <1>5, <2>2 DEF TreeStep
  <2>4. WellFormed(t) /\ Parents(t)
    BY <1>2, <2>3, SoundIs
  <2> QED
    BY <1>2, <1>3, <2>3, <2>4 DEF TreeSound, TreeMoves
<1> QED
  BY <1>4, <1>5

LEMMA MixedWriteEnds ==
    ASSUME Inv, NEW t, TableStep(db, t), mixed' \in BOOLEAN, mixed => mixed',
           mixed' \/ (Ready(db) => TreeStep(db, t)),
           NEW row \in Entry, Commit(t, ses, row), Fenced,
           row.op = "rename" => row.from \in Path,
           row.op \in {"update", "delete"} => row.body = Content(db, row.path)
    PROVE  Inv' /\ TreeMoves
<1>1. TypeOK /\ RecordInv /\ db \in Tables /\ t \in Tables /\ ses \in Nat
  BY JournalAssumption DEF Inv, TypeOK, JournalInv, TableStep
<1>2. st' = st /\ rv' = rv /\ ses' = ses /\ act' = TRUE
  BY DEF Fenced
<1>3. /\ ops' = ops + 1 /\ ops' \in 0 .. MaxOp /\ db' = t
      /\ journal' \subseteq Row /\ bc' \subseteq Frame
      /\ RecordInv'
  BY <1>1, <1>2, CommitKeeps
<1>4. ops < MaxOp
  BY <1>1, BelowLimit DEF Commit
<1>5. db' \in Tables /\ InodesCounted' /\ TreeSound' /\ TreeMoves
  BY <1>2, <1>3, <1>4, TablesWritten
<1>6. TypeOK'
  BY <1>1, <1>2, <1>3, <1>5 DEF TypeOK
<1>7. RevertSound'
  BY <1>2 DEF Inv, JournalInv, RevertSound, Founded, RowSound
<1> QED
  BY <1>3, <1>5, <1>6, <1>7 DEF Inv, JournalInv

LEMMA WriteEnds ==
    ASSUME Inv, NEW t, TableStep(db, t), Ready(db) => TreeStep(db, t),
           NEW row \in Entry, Commit(t, ses, row), Mount,
           row.op = "rename" => row.from \in Path,
           row.op \in {"update", "delete"} => row.body = Content(db, row.path)
    PROVE  Inv' /\ TreeMoves
<1>1. Fenced /\ mixed' = mixed /\ mixed' \in BOOLEAN
  BY DEF Mount, Inv, TypeOK
<1> QED
  BY <1>1, MixedWriteEnds

LEMMA MixedQuietEnds ==
    ASSUME Inv, NEW t, TableStep(db, t), mixed' \in BOOLEAN, mixed => mixed',
           mixed' \/ (Ready(db) => TreeStep(db, t)),
           Unjournaled(t), Fenced \/ UNCHANGED <<ses, act, rv, st>>
    PROVE  Inv' /\ TreeMoves
<1>1. TypeOK /\ RecordInv /\ db \in Tables
  BY DEF Inv, TypeOK, JournalInv
<1>2. st' = st /\ rv' = rv /\ ses' = ses /\ act' \in BOOLEAN
  BY <1>1 DEF Fenced, TypeOK
<1>3. ops' = ops + 1 /\ db' = t /\ journal' = journal /\ bc' = bc
  BY DEF Unjournaled
<1>4. ops < MaxOp /\ ops' \in 0 .. MaxOp
  BY <1>1, <1>3, BelowLimit DEF Unjournaled
<1>5. RecordInv'
  <2>1. st'.q = st.q /\ st'.hi = st.hi /\ st'.sent = st.sent
    BY <1>2
  <2>2. journal' \subseteq journal /\ bc' \subseteq bc
    BY <1>3
  <2>3. TypeOK /\ RecordInv /\ (ops' = ops \/ ops' = ops + 1)
    BY <1>1, <1>3
  <2> QED
    BY <2>1, <2>2, <2>3, QuietKeeps
<1>6. db' \in Tables /\ InodesCounted' /\ TreeSound' /\ TreeMoves
  BY <1>2, <1>3, <1>4, TablesWritten
<1>7. TypeOK'
  BY <1>1, <1>2, <1>3, <1>4, <1>6 DEF TypeOK
<1>8. RevertSound'
  BY <1>2 DEF Inv, JournalInv, RevertSound, Founded, RowSound
<1> QED
  BY <1>5, <1>6, <1>7, <1>8 DEF Inv, JournalInv

LEMMA QuietEnds ==
    ASSUME Inv, NEW t, TableStep(db, t), Ready(db) => TreeStep(db, t),
           Unjournaled(t), Mount \/ MountUnfenced
    PROVE  Inv' /\ TreeMoves
<1>1. (Fenced \/ UNCHANGED <<ses, act, rv, st>>) /\ mixed' = mixed /\ mixed' \in BOOLEAN
  BY DEF Mount, MountUnfenced, Inv, TypeOK
<1> QED
  BY <1>1, MixedQuietEnds

LEMMA EntryIs ==
    ASSUME NEW op \in {"create", "update", "delete", "rename"}, NEW path \in Path,
           NEW prior \in Manifest \cup {None}, NEW after \in Nat, NEW from \in Path \cup {Root}
    PROVE  LET row == journalBeforeWrite(op, path, prior, after, from)
           IN  /\ row \in Entry /\ row.op = op /\ row.path = path /\ row.from = from
               /\ row.body = IF prior = None THEN 0 ELSE prior.body
<1>1. (IF prior = None THEN 0 ELSE prior.body) \in Nat
  BY DEF Manifest
<1> QED
  BY <1>1 DEF journalBeforeWrite, Entry

LEMMA EntryNew ==
    ASSUME NEW path \in Path, NEW after \in Nat
    PROVE  /\ journalBeforeWrite("create", path, None, after, Root) \in Entry
           /\ journalBeforeWrite("create", path, None, after, Root).op = "create"
BY DEF journalBeforeWrite, Entry

LEMMA QuietPaths ==
    ASSUME TRUE
    PROVE  Quiet \subseteq Path /\ Busy \subseteq Path
BY JournalAssumption DEF Quiet, Busy

LEMMA PutKeeps ==
    ASSUME Inv, NEW p \in Path, handleManifestPut(p) \/ SetMode(p)
    PROVE  Inv' /\ TreeMoves
<1>1. db \in Tables /\ ops \in Nat /\ db.mf[p] \in Manifest \cup {None}
  BY StreamFields, TableFields DEF Inv, TypeOK
<1>2. PICK exp \in Nat : exp = Version(db, p)
  BY <1>1, VersionIs
<1>3. PICK op \in {"create", "update"} :
        /\ Commit(Put(db, p, exp, ops + 1), ses, journalBeforeWrite(op, p, db.mf[p], exp + 1, Root))
        /\ PutAccepts(db, p, exp)
        /\ exp = 0 => VfsFree(p)
        /\ Mount
  <2>1. CASE handleManifestPut(p)
    BY <1>2, <2>1 DEF handleManifestPut
  <2>2. CASE SetMode(p)
    <3>1. exp # 0
      BY <1>1, <1>2, <2>2, VersionIs DEF SetMode
    <3> QED
      BY <1>2, <2>2, <3>1 DEF SetMode
  <2> QED
    BY <2>1, <2>2
<1>4. PICK body \in Nat : body = ops + 1
  BY <1>1
<1>5. PICK t : t = Put(db, p, exp, ops + 1)
  OBVIOUS
<1>6. TableStep(db, t) /\ (Ready(db) => TreeStep(db, t))
  BY <1>1, <1>3, <1>4, <1>5, PutStep DEF VfsFree
<1>7. PICK after \in Nat : after = exp + 1
  OBVIOUS
<1>8. PICK row \in Entry : /\ row = journalBeforeWrite(op, p, db.mf[p], exp + 1, Root)
                           /\ row.op = op /\ row.path = p /\ row.body = Content(db, p)
  <2>1. op \in {"create", "update", "delete", "rename"} /\ Root \in Path \cup {Root}
    OBVIOUS
  <2>2. PICK prior \in Manifest \cup {None} : prior = db.mf[p]
    BY <1>1
  <2>3. PICK row : row = journalBeforeWrite(op, p, prior, after, Root)
    OBVIOUS
  <2>4. /\ row \in Entry /\ row.op = op /\ row.path = p
        /\ row.body = IF prior = None THEN 0 ELSE prior.body
    BY <2>1, <2>3, EntryIs
  <2> QED
    BY <1>7, <2>2, <2>3, <2>4 DEF Content
<1> QED
  BY <1>3, <1>5, <1>6, <1>8, WriteEnds

LEMMA LinkKeeps ==
    ASSUME Inv, NEW from \in Path, NEW to \in Path, handleLink(from, to)
    PROVE  Inv' /\ TreeMoves
<1>1. db \in Tables
  BY DEF Inv, TypeOK
<1>2. VfsFree(to) /\ LinkAccepts(db, from, to) /\ Commit(Link(db, from, to), ses, LinkRow(from, to)) /\ Mount
  BY DEF handleLink
<1>3. PICK t : t = Link(db, from, to)
  OBVIOUS
<1>4. TableStep(db, t) /\ (Ready(db) => TreeStep(db, t))
  BY <1>1, <1>2, <1>3, LinkStep DEF VfsFree
<1>5. PICK after \in Nat : after = Version(db, from)
  BY <1>1, VersionIs
<1>6. PICK row \in Entry : row = LinkRow(from, to) /\ row.op = "create"
  BY <1>5, EntryIs DEF LinkRow
<1> QED
  BY <1>2, <1>3, <1>4, <1>6, WriteEnds

LEMMA AliasIs ==
    ASSUME NEW t, NEW p, NEW alias \in survivingAliases(t, p)
    PROVE  alias \in Path \cup {Root}
BY DEF survivingAliases, Names

LEMMA DeleteKeeps ==
    ASSUME Inv, NEW p \in Path, handleManifestDelete(p)
    PROVE  Inv' /\ TreeMoves
<1>1. db \in Tables /\ db.mf[p] \in Manifest \cup {None}
  BY TableFields DEF Inv, TypeOK
<1>2. PICK exp \in Nat : exp = Version(db, p)
  BY <1>1, VersionIs
<1>3. PICK t : t = Delete(db, p)
  OBVIOUS
<1>4. TableStep(db, t) /\ (Ready(db) => TreeStep(db, t))
  BY <1>1, <1>2, <1>3, DeleteStep DEF handleManifestDelete
<1>5. CASE p \in db.sp \cup db.ln
  BY <1>3, <1>4, <1>5, QuietEnds DEF handleManifestDelete
<1>6. CASE p \notin db.sp \cup db.ln
  <2>1. PICK alias \in survivingAliases(db, p) :
          Commit(t, ses, journalBeforeWrite("delete", p, db.mf[p], 0, alias))
    BY <1>3, <1>6 DEF handleManifestDelete
  <2>2. alias \in Path \cup {Root}
    BY AliasIs
  <2>3. PICK row \in Entry : /\ row = journalBeforeWrite("delete", p, db.mf[p], 0, alias)
                             /\ row.op = "delete" /\ row.path = p /\ row.body = Content(db, p)
    BY <1>1, <2>2, EntryIs DEF Content
  <2> QED
    BY <1>4, <2>1, <2>3, WriteEnds DEF handleManifestDelete
<1> QED
  BY <1>5, <1>6

LEMMA RenameKeeps ==
    ASSUME Inv, NEW from \in Path, NEW to \in Path, handleManifestRename(from, to)
    PROVE  Inv' /\ TreeMoves
<1>1. db \in Tables /\ db.mf[from] \in Manifest \cup {None}
  BY TableFields DEF Inv, TypeOK
<1>2. /\ ~Under(from, to) /\ IsDir(db, splitParent(to)) /\ renameAccepts(db, from, to)
      /\ reparentAccepts(db, from, to) /\ Fenced
  BY DEF handleManifestRename
<1>3. PICK t : t = Rename(db, from, to)
  OBVIOUS
<1>4. TableStep(db, t) /\ (Ready(db) /\ Exact(db, from, to) => TreeStep(db, t))
  BY <1>1, <1>2, <1>3, RenameStep
<1>m. /\ mixed' \in BOOLEAN /\ (mixed => mixed')
      /\ mixed' \/ (Ready(db) => TreeStep(db, t))
  <2>1. mixed' = (mixed \/ ~Exact(db, from, to)) /\ mixed \in BOOLEAN
    BY DEF handleManifestRename, Inv, TypeOK
  <2>2. CASE Exact(db, from, to)
    BY <1>4, <2>1, <2>2
  <2>3. CASE ~Exact(db, from, to)
    BY <2>1, <2>3
  <2> QED
    BY <2>2, <2>3
<1>5. CASE db.mf[from] = None
  BY <1>2, <1>3, <1>4, <1>5, <1>m, MixedQuietEnds DEF handleManifestRename
<1>6. CASE db.mf[from] # None
  <2>1. Commit(t, ses, journalRename(from, to))
    BY <1>3, <1>6 DEF handleManifestRename
  <2>2. PICK after \in Nat : after = renameVersion(db, to)
    BY <1>1, VersionAfter
  <2>3. PICK row \in Entry : row = journalRename(from, to) /\ row.op = "rename" /\ row.from \in Path
    BY <1>1, <2>2, EntryIs DEF journalRename
  <2> QED
    BY <1>2, <1>4, <1>m, <2>1, <2>3, MixedWriteEnds
<1> QED
  BY <1>5, <1>6

LEMMA DirKeeps ==
    ASSUME Inv, NEW p \in Path,
           handleDirCreate(p) \/ handleSymlink(p) \/ handleMknod(p) \/ handleDirRemove(p)
    PROVE  Inv' /\ TreeMoves
<1>1. db \in Tables
  BY DEF Inv, TypeOK
<1>2. PICK t : Unjournaled(t) /\ MountUnfenced /\ TableStep(db, t) /\ (Ready(db) => TreeStep(db, t))
  <2>1. CASE handleDirCreate(p)
    BY <1>1, <2>1, DirStep DEF handleDirCreate, VfsFree, DirCreate
  <2>2. CASE handleSymlink(p)
    BY <1>1, <2>2, DirStep DEF handleSymlink, VfsFree
  <2>3. CASE handleMknod(p)
    BY <1>1, <2>3, DirStep DEF handleMknod, VfsFree
  <2>4. CASE handleDirRemove(p)
    BY <1>1, <2>4, DirStep DEF handleDirRemove
  <2> QED
    BY <2>1, <2>2, <2>3, <2>4
<1> QED
  BY <1>2, QuietEnds

LEMMA WritesKeep ==
    ASSUME Inv, Writes
    PROVE  Inv' /\ TreeMoves
<1>1. \A p \in Quiet \cup Busy : p \in Path
  BY QuietPaths
<1>2. ASSUME NEW p \in Quiet \cup Busy, handleManifestPut(p) PROVE Inv' /\ TreeMoves
  BY <1>1, <1>2, PutKeeps
<1>3. ASSUME NEW p \in Quiet, SetMode(p) PROVE Inv' /\ TreeMoves
  BY <1>1, <1>3, PutKeeps
<1>4. ASSUME NEW p \in Quiet \cup Busy, handleManifestDelete(p) PROVE Inv' /\ TreeMoves
  BY <1>1, <1>4, DeleteKeeps
<1>5. ASSUME NEW from \in Quiet, NEW to \in Quiet, handleLink(from, to) PROVE Inv' /\ TreeMoves
  BY <1>1, <1>5, LinkKeeps
<1>6. ASSUME NEW from \in Quiet, NEW to \in Quiet, handleManifestRename(from, to) PROVE Inv' /\ TreeMoves
  BY <1>1, <1>6, RenameKeeps
<1>7. ASSUME NEW p \in Quiet, handleDirCreate(p) \/ handleSymlink(p) \/ handleMknod(p) \/ handleDirRemove(p)
      PROVE  Inv' /\ TreeMoves
  BY <1>1, <1>7, DirKeeps
<1> QED
  BY <1>2, <1>3, <1>4, <1>5, <1>6, <1>7 DEF Writes

-----------------------------------------------------------------------------
(* Reverts.                                                                *)

LEMMA RevertFields ==
    ASSUME NEW v \in Revert, v.pc # "idle"
    PROVE  /\ v \in [pc : {"found", "source", "checked", "applied"}, row : Row, force : BOOLEAN,
                     writer : Nat, live : Nat, fromLive : Nat]
           /\ v.row \in Row /\ v.writer \in Nat /\ v.live \in Nat /\ v.fromLive \in Nat
           /\ v.row.op \in {"create", "update", "delete", "rename"} /\ v.row.path \in Path
           /\ v.row.from \in Path \cup {Root} /\ v.row.body \in Nat
<1>1. v # Idle
  BY DEF Idle
<1>2. v \in [pc : {"found", "source", "checked", "applied"}, row : Row, force : BOOLEAN,
             writer : Nat, live : Nat, fromLive : Nat]
  BY <1>1 DEF Revert
<1>3. v.row \in Row /\ v.writer \in Nat /\ v.live \in Nat /\ v.fromLive \in Nat
  BY <1>2
<1> QED
  BY <1>2, <1>3 DEF Row

\* One revert moves on and the others stay where they are.
LEMMA OneRevert ==
    ASSUME Inv, NEW i \in Reverter, NEW v \in Revert, rv' = [rv EXCEPT ![i] = v],
           Founded(v)
    PROVE  rv' \in [Reverter -> Revert] /\ RevertSound' /\ rv'[i] = v
<1>1. rv \in [Reverter -> Revert] /\ RevertSound
  BY DEF Inv, JournalInv, TypeOK
<1>2. rv' \in [Reverter -> Revert] /\ rv'[i] = v /\ \A j \in Reverter \ {i} : rv'[j] = rv[j]
  BY <1>1
<1>3. ASSUME NEW j \in Reverter PROVE Founded(rv'[j])
  BY <1>1, <1>2, <1>3 DEF RevertSound
<1>4. RevertSound'
  BY <1>3 DEF RevertSound, Founded, RowSound
<1> QED
  BY <1>2, <1>4

\* A step of a revert that writes nothing.
LEMMA RevertMoves ==
    ASSUME Inv, NEW i \in Reverter, NEW v \in Revert, rv' = [rv EXCEPT ![i] = v],
           Founded(v), UNCHANGED <<db, journal, ses, act, ops, bc, st, mixed>>
    PROVE  Inv' /\ TreeMoves
<1>1. TypeOK /\ RecordInv
  BY DEF Inv, JournalInv
<1>2. db' = db /\ journal' = journal /\ ses' = ses /\ act' = act /\ ops' = ops /\ bc' = bc /\ st' = st /\ mixed' = mixed
  OBVIOUS
<1>3. rv' \in [Reverter -> Revert] /\ RevertSound'
  BY OneRevert
<1>4. TypeOK'
  BY <1>1, <1>2, <1>3 DEF TypeOK
<1>5. RecordInv'
  BY <1>1, <1>2 DEF RecordInv, RowsCounted, KeysUnique, RowsSound, RowSound, FramesSound, Due, StreamSendsOnce
<1> QED
  BY <1>2, <1>3, <1>4, <1>5, TablesKept DEF Inv, JournalInv

LEMMA IdleIs ==
    ASSUME TRUE
    PROVE  Idle \in Revert /\ Idle.pc = "idle" /\ Founded(Idle)
BY DEF Idle, Revert, Founded

LEMMA RevertKeeps ==
    ASSUME Inv, NEW i \in Reverter, NEW row \in journal, NEW force \in BOOLEAN, RevertPaths(i, row, force)
    PROVE  Inv' /\ TreeMoves
<1>1. row \in Row /\ RowSound(row)
  BY DEF Inv, JournalInv, TypeOK, RecordInv, RowsSound
<1>2. PICK s \in Nat : s = writerSessionForRevert
  BY JournalAssumption DEF writerSessionForRevert, NoSession, Inv, TypeOK
<1>3. PICK v : v = [pc |-> "found", row |-> row, force |-> force, writer |-> s, live |-> 0, fromLive |-> 0]
  OBVIOUS
<1>4. v \in Revert /\ Founded(v)
  BY <1>1, <1>3 DEF Revert, Founded
<1>5. rv' = [rv EXCEPT ![i] = v] /\ UNCHANGED <<db, journal, ses, act, ops, bc, st, mixed>>
  BY <1>2, <1>3 DEF RevertPaths
<1> QED
  BY <1>1, <1>4, <1>5, RevertMoves

LEMMA LiveKeeps ==
    ASSUME Inv, NEW i \in Reverter, liveManifestVersion(i)
    PROVE  Inv' /\ TreeMoves
<1>1. PICK v \in Revert : v = rv[i]
  BY DEF Inv, TypeOK
<1>2. v.pc = "found" /\ RowSound(v.row)
  BY <1>1 DEF liveManifestVersion, Inv, JournalInv, RevertSound, Founded
<1>3. /\ v \in [pc : {"found", "source", "checked", "applied"}, row : Row, force : BOOLEAN,
                writer : Nat, live : Nat, fromLive : Nat]
      /\ v.row.path \in Path
  BY <1>2, RevertFields
<1>4. PICK live \in Nat : live = Version(db, v.row.path)
  BY <1>3, VersionIs DEF Inv, TypeOK
<1>5. PICK pc \in {"source", "checked"} : pc = IF v.row.from = Root THEN "checked" ELSE "source"
  OBVIOUS
<1>6. PICK w : w = [v EXCEPT !.live = live, !.pc = pc]
  OBVIOUS
<1>7. w \in Revert /\ Founded(w)
  BY <1>2, <1>3, <1>5, <1>6 DEF Revert, Founded
<1>8. /\ rv' = [rv EXCEPT ![i] = w] \/ rv' = [rv EXCEPT ![i] = Idle]
      /\ UNCHANGED <<db, journal, ses, act, ops, bc, st, mixed>>
  BY <1>1, <1>4, <1>5, <1>6 DEF liveManifestVersion
<1> QED
  BY <1>2, <1>7, <1>8, IdleIs, RevertMoves

LEMMA SeedKeeps ==
    ASSUME Inv, NEW i \in Reverter, seedSource(i)
    PROVE  Inv' /\ TreeMoves
<1>1. PICK v \in Revert : v = rv[i]
  BY DEF Inv, TypeOK
<1>2. v.pc = "source" /\ RowSound(v.row) /\ v.row.from # Root
  BY <1>1 DEF seedSource, Inv, JournalInv, RevertSound, Founded
<1>3. /\ v \in [pc : {"found", "source", "checked", "applied"}, row : Row, force : BOOLEAN,
                writer : Nat, live : Nat, fromLive : Nat]
      /\ v.row.from \in Path
  BY <1>1, <1>2, RevertFields
<1>4. PICK live \in Nat : live = Version(db, v.row.from)
  BY <1>3, VersionIs DEF Inv, TypeOK
<1>6. PICK w : w = [v EXCEPT !.fromLive = live, !.pc = "checked"]
  OBVIOUS
<1>7. w \in Revert /\ Founded(w)
  BY <1>2, <1>3, <1>6 DEF Revert, Founded
<1>8. rv' = [rv EXCEPT ![i] = w] /\ UNCHANGED <<db, journal, ses, act, ops, bc, st, mixed>>
  BY <1>1, <1>4, <1>6 DEF seedSource
<1> QED
  BY <1>2, <1>7, <1>8, RevertMoves

LEMMA RowIs ==
    ASSUME NEW row \in journal
    PROVE  rowForSessionSeq(row.ses, row.seq) \in journal
BY DEF rowForSessionSeq

(* What RevertRestores asks of a step.                                     *)
Restored(i) ==
    rv[i].pc = "checked" /\ rv'[i].pc = "applied" /\ ~mixed' /\ ~Gone(rv[i]) =>
        LET row == rv[i].row
        IN  CASE row.op = "create" -> Content(db', row.path) = 0
              [] row.op = "update" -> Content(db', row.path) = row.was
              [] row.op = "delete" -> Content(db', row.path) = IF row.from = Root THEN row.was
                                                               ELSE Content(db, row.from)
              [] row.op = "rename" -> /\ Content(db', row.from) = Content(db, row.path)
                                      /\ Content(db', row.path) = 0

(* The same of tables t in the place of the new ones.                      *)
Undoes(v, t) ==
    /\ v.row.op = "create" /\ OneKind(db, v.row.path) => Content(t, v.row.path) = 0
    /\ v.row.op = "update" => Content(t, v.row.path) = v.row.was
    /\ v.row.op = "delete" => Content(t, v.row.path) = IF v.row.from = Root THEN v.row.was
                                                         ELSE Content(db, v.row.from)
    /\ v.row.op = "rename" => Content(t, v.row.from) = Content(db, v.row.path) /\ Content(t, v.row.path) = 0

LEMMA InverseIs ==
    ASSUME Inv, NEW v \in Revert, v.pc = "checked", RowSound(v.row), ~Gone(v), InverseAccepts(v)
    PROVE  /\ TableStep(db, Undone(v))
           /\ Misplaces(v) \/ (Ready(db) => TreeStep(db, Undone(v)))
           /\ Undoes(v, Undone(v))
           /\ \A alias \in Path \cup {Root} :
                  /\ InverseRow(v, alias) \in Entry
                  /\ InverseRow(v, alias).op = "rename" => InverseRow(v, alias).from \in Path
                  /\ InverseRow(v, alias).op \in {"update", "delete"} =>
                         InverseRow(v, alias).body = Content(db, InverseRow(v, alias).path)
<1>1. PICK row : row = v.row
  OBVIOUS
<1>2. /\ row \in Row /\ v.live \in Nat /\ v.fromLive \in Nat
      /\ row.op \in {"create", "update", "delete", "rename"} /\ row.path \in Path
      /\ row.from \in Path \cup {Root} /\ row.body \in Nat
  BY <1>1, RevertFields
<1>3. RowSound(row)
  BY <1>1
<1>4. db \in Tables /\ db.mf[row.path] \in Manifest \cup {None}
  BY <1>2, TableFields DEF Inv, TypeOK
<1>5. PICK prior \in Manifest \cup {None} : prior = db.mf[row.path]
  BY <1>4
<1>6. PICK live \in Nat : live = v.live
  BY <1>2
<1> DEFINE kinds == {"create", "update", "delete", "rename"}
<1>E. /\ "create" \in kinds /\ "update" \in kinds /\ "delete" \in kinds /\ "rename" \in kinds
      /\ row.path \in Path /\ row.path \in Path \cup {Root} /\ Root \in Path \cup {Root}
      /\ None \in Manifest \cup {None} /\ 0 \in Nat /\ 1 \in Nat
  BY <1>2
<1>7. CASE row.op = "create"
  <2>1. DeleteAccepts(db, row.path, live) /\ Undone(v) = Delete(db, row.path)
    BY <1>1, <1>6, <1>7 DEF InverseAccepts, Undone
  <2>2. PICK t : t = Delete(db, row.path)
    OBVIOUS
  <2>3. TableStep(db, t) /\ (OneKind(db, row.path) => Content(t, row.path) = 0) /\ (Ready(db) => TreeStep(db, t))
    BY <1>2, <1>4, <2>1, <2>2, DeleteStep
  <2>4. ASSUME NEW alias \in Path \cup {Root}
        PROVE  /\ InverseRow(v, alias) \in Entry
               /\ InverseRow(v, alias).op = "delete"
               /\ InverseRow(v, alias).body = Content(db, InverseRow(v, alias).path)
    <3>1. InverseRow(v, alias) = journalBeforeWrite("delete", row.path, prior, 0, alias)
      BY <1>1, <1>5, <1>7 DEF InverseRow
    <3>2. PICK new : new = journalBeforeWrite("delete", row.path, prior, 0, alias)
      OBVIOUS
    <3>3. /\ new \in Entry /\ new.op = "delete" /\ new.path = row.path
          /\ new.body = IF prior = None THEN 0 ELSE prior.body
      <4>0. PICK path \in Path : path = row.path
        BY <1>E
      <4>1. new \in Entry /\ new.op = "delete" /\ new.path = row.path
        <5>1. PICK body \in Nat : body = IF prior = None THEN 0 ELSE prior.body
          BY DEF Manifest
        <5>2. new = [op |-> "delete", path |-> path, after |-> 0, from |-> alias, body |-> body]
          BY <3>2, <4>0, <5>1 DEF journalBeforeWrite
        <5> QED
          BY <4>0, <5>2 DEF Entry
      <4>2. new.body = IF prior = None THEN 0 ELSE prior.body
        BY <3>2 DEF journalBeforeWrite
      <4> QED
        BY <4>1, <4>2
    <3> QED
      BY <1>5, <3>1, <3>2, <3>3 DEF Content
  <2>5. Undoes(v, t)
    BY <1>1, <1>7, <2>3 DEF Undoes
  <2>6. Undone(v) = t
    BY <2>1, <2>2
  <2> QED
    BY <2>3, <2>4, <2>5, <2>6
<1>8. CASE row.op = "update"
  <2>1. live # 0 /\ PutAccepts(db, row.path, live) /\ Undone(v) = Put(db, row.path, live, row.body)
    BY <1>1, <1>6, <1>8 DEF InverseAccepts, Undone
  <2>2. PICK t : t = Put(db, row.path, live, row.body)
    OBVIOUS
  <2>3. TableStep(db, t) /\ Content(t, row.path) = row.body /\ (Ready(db) => TreeStep(db, t))
    <3>1. PICK body \in Nat : body = row.body
      BY <1>2
    <3> QED
      BY <1>2, <1>4, <2>1, <2>2, <3>1, PutStep
  <2>4. ASSUME NEW alias \in Path \cup {Root}
        PROVE  /\ InverseRow(v, alias) \in Entry
               /\ InverseRow(v, alias).op = "update"
               /\ InverseRow(v, alias).body = Content(db, InverseRow(v, alias).path)
    <3>0. PICK after \in Nat : after = live + 1
      OBVIOUS
    <3>1. InverseRow(v, alias) = journalBeforeWrite("update", row.path, prior, after, Root)
      BY <1>1, <1>5, <1>6, <1>8, <3>0 DEF InverseRow
    <3>2. PICK new : new = journalBeforeWrite("update", row.path, prior, after, Root)
      OBVIOUS
    <3>3. /\ new \in Entry /\ new.op = "update" /\ new.path = row.path
          /\ new.body = IF prior = None THEN 0 ELSE prior.body
      <4>0. PICK path \in Path : path = row.path
        BY <1>E
      <4>1. new \in Entry /\ new.op = "update" /\ new.path = row.path
        <5>1. PICK body \in Nat : body = IF prior = None THEN 0 ELSE prior.body
          BY DEF Manifest
        <5>2. new = [op |-> "update", path |-> path, after |-> after, from |-> Root, body |-> body]
          BY <3>2, <4>0, <5>1 DEF journalBeforeWrite
        <5> QED
          BY <4>0, <5>2 DEF Entry
      <4>2. new.body = IF prior = None THEN 0 ELSE prior.body
        BY <3>2 DEF journalBeforeWrite
      <4> QED
        BY <4>1, <4>2
    <3> QED
      BY <1>5, <3>1, <3>2, <3>3 DEF Content
  <2>5. Undoes(v, t)
    BY <1>1, <1>3, <1>8, <2>3 DEF Undoes, RowSound
  <2>6. Undone(v) = t
    BY <2>1, <2>2
  <2> QED
    BY <2>3, <2>4, <2>5, <2>6
<1>9. CASE row.op = "delete"
  <2>0. ~Misplaces(v) => resolveKind(db, row.path) = "absent" /\ IsDir(db, splitParent(row.path))
    BY <1>1, <1>9 DEF Misplaces
  <2>1. CASE row.from = Root
    <3>1. PutAccepts(db, row.path, 0) /\ Undone(v) = Put(db, row.path, 0, row.body)
      BY <1>1, <1>9, <2>1 DEF InverseAccepts, Undone
    <3>2. PICK t : t = Put(db, row.path, 0, row.body)
      OBVIOUS
    <3>3. /\ TableStep(db, t) /\ Content(t, row.path) = row.body
          /\ Ready(db) /\ resolveKind(db, row.path) = "absent" /\ IsDir(db, splitParent(row.path)) => TreeStep(db, t)
      <4>1. PICK body \in Nat : body = row.body
        BY <1>2
      <4> QED
        BY <1>2, <1>4, <3>1, <3>2, <4>1, PutStep
    <3>4. ASSUME NEW alias \in Path \cup {Root}
          PROVE  InverseRow(v, alias) \in Entry /\ InverseRow(v, alias).op = "create"
      <4>1. InverseRow(v, alias) = journalBeforeWrite("create", row.path, None, 1, Root)
        BY <1>1, <1>9, <2>1 DEF InverseRow
      <4> QED
        BY <1>E, <4>1, EntryNew
    <3>5. Undoes(v, t)
      BY <1>1, <1>3, <1>9, <2>1, <3>3 DEF Undoes, RowSound
    <3>6. Undone(v) = t
      BY <3>1, <3>2
    <3> QED
      BY <2>0, <3>3, <3>4, <3>5, <3>6
  <2>2. CASE row.from # Root
    <3>1. LinkAccepts(db, row.from, row.path) /\ Undone(v) = Link(db, row.from, row.path) /\ row.from \in Path
      BY <1>1, <1>2, <1>9, <2>2 DEF InverseAccepts, Undone
    <3>2. PICK t : t = Link(db, row.from, row.path)
      OBVIOUS
    <3>3. /\ TableStep(db, t) /\ Content(t, row.path) = Content(db, row.from)
          /\ Ready(db) /\ IsDir(db, splitParent(row.path)) => TreeStep(db, t)
      BY <1>2, <1>4, <3>1, <3>2, LinkStep
    <3>4. ASSUME NEW alias \in Path \cup {Root}
          PROVE  InverseRow(v, alias) \in Entry /\ InverseRow(v, alias).op = "create"
      <4>1. PICK after \in Nat : after = Version(db, row.from)
        BY <1>4, <3>1, VersionIs
      <4>2. InverseRow(v, alias) = journalBeforeWrite("create", row.path, None, after, Root)
        BY <1>1, <1>9, <2>2, <4>1 DEF InverseRow, LinkRow
      <4> QED
        BY <1>E, <4>2, EntryNew
    <3>5. Undoes(v, t)
      BY <1>1, <1>9, <2>2, <3>3 DEF Undoes
    <3>6. Undone(v) = t
      BY <3>1, <3>2
    <3> QED
      BY <2>0, <3>3, <3>4, <3>5, <3>6
  <2> QED
    BY <2>1, <2>2
<1>10. CASE row.op = "rename"
  <2>1. /\ live # 0 /\ Version(db, row.path) = live /\ renameAccepts(db, row.path, row.from)
        /\ Undone(v) = Rename(db, row.path, row.from)
    BY <1>1, <1>6, <1>10 DEF InverseAccepts, Undone
  <2>2. row.from \in Path
    BY <1>3, <1>10 DEF RowSound
  <2>3. db.mf[row.path] # None
    BY <1>2, <1>4, <2>1, VersionIs
  <2>4. PICK t : t = Rename(db, row.path, row.from)
    OBVIOUS
  <2>5. /\ TableStep(db, t)
        /\ Content(t, row.from) = Content(db, row.path) /\ Content(t, row.path) = 0
        /\ Ready(db) /\ IsDir(db, splitParent(row.from)) => TreeStep(db, t)
    BY <1>2, <1>4, <2>1, <2>2, <2>3, <2>4, FileExact, RenameStep
  <2>6. ~Misplaces(v) => IsDir(db, splitParent(row.from))
    BY <1>1, <1>10 DEF Misplaces
  <2>7. ASSUME NEW alias \in Path \cup {Root}
        PROVE  InverseRow(v, alias) \in Entry /\ InverseRow(v, alias).op = "rename" /\ InverseRow(v, alias).from \in Path
    <3>1. PICK after \in Nat : after = renameVersion(db, row.from)
      BY <1>4, <2>2, VersionAfter
    <3>2. InverseRow(v, alias) = journalBeforeWrite("rename", row.from, prior, after, row.path)
      BY <1>1, <1>5, <1>10, <3>1 DEF InverseRow, journalRename
    <3>3. PICK new : new = journalBeforeWrite("rename", row.from, prior, after, row.path)
      OBVIOUS
    <3>4. new \in Entry /\ new.op = "rename" /\ new.from = row.path
      BY <1>E, <2>2, <3>3, EntryIs
    <3> QED
      BY <1>2, <3>2, <3>3, <3>4
  <2>8. Undoes(v, t)
    BY <1>1, <1>10, <2>5 DEF Undoes
  <2>9. Undone(v) = t
    BY <2>1, <2>4
  <2> QED
    BY <2>5, <2>6, <2>7, <2>8, <2>9
<1> QED
  BY <1>2, <1>7, <1>8, <1>9, <1>10

LEMMA InverseKeeps ==
    ASSUME Inv, NEW i \in Reverter, applyInverse(i)
    PROVE  Inv' /\ TreeMoves /\ Restored(i)
<1>0. PICK v \in Revert : v = rv[i]
  BY DEF Inv, TypeOK
<1>1. /\ TypeOK /\ RecordInv /\ db \in Tables /\ v.pc = "checked" /\ RowSound(v.row)
      /\ ses' = ses /\ act' = act /\ st' = st
  BY <1>0 DEF Inv, JournalInv, TypeOK, applyInverse, RevertSound, Founded
<1>2. /\ v \in [pc : {"found", "source", "checked", "applied"}, row : Row, force : BOOLEAN,
                writer : Nat, live : Nat, fromLive : Nat]
      /\ v.row.op \in {"create", "update", "delete", "rename"} /\ v.row.path \in Path /\ v.writer \in Nat
  BY <1>1, RevertFields
<1>3. PICK w : w = IF Gone(v) \/ InverseAccepts(v) THEN [v EXCEPT !.pc = "applied"] ELSE Idle
  OBVIOUS
<1>4. w \in Revert /\ Founded(w)
  <2>1. [v EXCEPT !.pc = "applied"] \in Revert /\ Founded([v EXCEPT !.pc = "applied"])
    BY <1>1, <1>2 DEF Revert, Founded
  <2> QED
    BY <1>3, <2>1, IdleIs
<1>5. rv' = [rv EXCEPT ![i] = w]
  BY <1>0, <1>3 DEF applyInverse
<1>r. rv' \in [Reverter -> Revert] /\ RevertSound' /\ rv'[i] = w
  BY <1>1, <1>4, <1>5, OneRevert
<1>6. CASE Gone(v) \/ ~InverseAccepts(v)
  <2>1. db' = db /\ journal' = journal /\ ops' = ops /\ bc' = bc /\ mixed' = mixed
    BY <1>0, <1>6 DEF applyInverse
  <2>2. TypeOK'
    BY <1>1, <1>r, <2>1 DEF TypeOK
  <2>3. RecordInv'
    BY <1>1, <2>1 DEF RecordInv, RowsCounted, KeysUnique, RowsSound, RowSound, FramesSound, Due, StreamSendsOnce
  <2>4. Restored(i)
    <3>1. ~Gone(v) => rv'[i].pc = "idle"
      BY <1>3, <1>6, <1>r, IdleIs
    <3> QED
      BY <1>0, <3>1 DEF Restored
  <2> QED
    BY <1>r, <2>1, <2>2, <2>3, <2>4, TablesKept DEF Inv, JournalInv
<1>7. CASE ~Gone(v) /\ InverseAccepts(v)
  <2>1. /\ TableStep(db, Undone(v))
        /\ Misplaces(v) \/ (Ready(db) => TreeStep(db, Undone(v)))
        /\ Undoes(v, Undone(v))
        /\ \A alias \in Path \cup {Root} :
               /\ InverseRow(v, alias) \in Entry
               /\ InverseRow(v, alias).op = "rename" => InverseRow(v, alias).from \in Path
               /\ InverseRow(v, alias).op \in {"update", "delete"} =>
                      InverseRow(v, alias).body = Content(db, InverseRow(v, alias).path)
    BY <1>1, <1>7, InverseIs
  <2>2. PICK t : t = Undone(v)
    OBVIOUS
  <2>3. mixed' = (mixed \/ Misplaces(v)) /\ mixed \in BOOLEAN
    BY <1>0, <1>1, <1>7 DEF applyInverse, TypeOK
  <2>4. /\ db' = t /\ ops' = ops + 1 /\ ops' \in 0 .. MaxOp /\ ops < MaxOp
        /\ journal' \subseteq Row /\ bc' \subseteq Frame /\ RecordInv'
    <3>1. CASE v.row.op = "create" /\ v.row.path \in db.sp \cup db.ln
      <4>1. Unjournaled(t)
        BY <1>0, <1>7, <2>2, <3>1 DEF applyInverse
      <4>2. ops < Limit /\ db' = t /\ ops' = ops + 1 /\ journal' = journal /\ bc' = bc
        BY <4>1 DEF Unjournaled
      <4>3. ops < MaxOp /\ ops' \in 0 .. MaxOp
        BY <1>1, <4>2, BelowLimit
      <4>4. RecordInv'
        <5>1. st'.q = st.q /\ st'.hi = st.hi /\ st'.sent = st.sent
          BY <1>1
        <5>2. journal' \subseteq journal /\ bc' \subseteq bc
          BY <4>2
        <5> QED
          BY <1>1, <4>2, <5>1, <5>2, QuietKeeps
      <4> QED
        BY <1>1, <4>2, <4>3, <4>4 DEF TypeOK
    <3>2. CASE ~(v.row.op = "create" /\ v.row.path \in db.sp \cup db.ln)
      <4>1. PICK alias \in survivingAliases(db, v.row.path) : Commit(t, v.writer, InverseRow(v, alias))
        BY <1>0, <1>7, <2>2, <3>2 DEF applyInverse
      <4>2. alias \in Path \cup {Root}
        BY AliasIs
      <4>3. PICK s \in Nat : s = v.writer
        BY <1>2
      <4>4. PICK row \in Entry : /\ row = InverseRow(v, alias)
                                 /\ row.op = "rename" => row.from \in Path
                                 /\ row.op \in {"update", "delete"} => row.body = Content(db, row.path)
        BY <2>1, <4>2
      <4>5. Commit(t, s, row) /\ t \in Tables
        BY <2>1, <2>2, <4>1, <4>3, <4>4 DEF TableStep
      <4>6. ops < MaxOp
        BY <1>1, <4>5, BelowLimit DEF Commit
      <4> QED
        BY <1>1, <4>4, <4>5, <4>6, CommitKeeps
    <3> QED
      BY <3>1, <3>2
  <2>5. db' \in Tables /\ InodesCounted' /\ TreeSound' /\ TreeMoves
    <3>1. mixed => mixed'
      BY <2>3
    <3>2. mixed' \/ (Ready(db) => TreeStep(db, t))
      BY <2>1, <2>2, <2>3
    <3>3. TableStep(db, t)
      BY <2>1, <2>2
    <3> QED
      BY <2>4, <3>1, <3>2, <3>3, TablesWritten
  <2>6. TypeOK'
    <3>1. mixed' \in BOOLEAN
      BY <2>3
    <3> QED
      BY <1>1, <1>r, <2>4, <2>5, <3>1 DEF TypeOK
  <2>7. Restored(i)
    <3>1. SUFFICES ASSUME ~mixed' PROVE Restored(i)
      BY DEF Restored
    <3>2. OneKind(db, v.row.path)
      BY <1>1, <1>2, <2>3, <3>1 DEF Inv, TreeSound, WellFormed
    <3>3. Undoes(v, t) /\ db' = t
      BY <2>1, <2>2, <2>4
    <3> QED
      BY <1>0, <1>2, <3>2, <3>3 DEF Restored, Undoes
  <2> QED
    BY <1>r, <2>4, <2>5, <2>6, <2>7 DEF Inv, JournalInv
<1> QED
  BY <1>6, <1>7

LEMMA DeleteRowKeeps ==
    ASSUME Inv, NEW i \in Reverter, DeleteRow(i)
    PROVE  Inv' /\ TreeMoves
<1>1. TypeOK /\ RecordInv
  BY DEF Inv, JournalInv
<1>2. /\ journal' \subseteq journal /\ rv' = [rv EXCEPT ![i] = Idle]
      /\ db' = db /\ ses' = ses /\ act' = act /\ ops' = ops /\ bc' = bc /\ st' = st /\ mixed' = mixed
  BY DEF DeleteRow
<1>3. RecordInv'
  <2>1. st'.q = st.q /\ st'.hi = st.hi /\ st'.sent = st.sent /\ bc' \subseteq bc
    BY <1>2
  <2> QED
    BY <1>1, <1>2, <2>1, QuietKeeps
<1>5. rv' \in [Reverter -> Revert] /\ RevertSound'
  BY <1>2, IdleIs, OneRevert
<1>4. TypeOK'
  BY <1>1, <1>2, <1>5 DEF TypeOK
<1> QED
  BY <1>2, <1>3, <1>4, <1>5, TablesKept DEF Inv, JournalInv

LEMMA StreamKeeps ==
    ASSUME Inv, Stream
    PROVE  Inv' /\ TreeMoves
<1>1. TypeOK /\ RecordInv /\ RevertSound
  BY DEF Inv, JournalInv
<1>2. /\ db' = db /\ journal' = journal /\ ses' = ses /\ act' = act /\ ops' = ops /\ rv' = rv /\ mixed' = mixed
      /\ bc' \subseteq bc
  BY DEF Stream, tenantJournalStream, Subscribe, Broadcast, sendLive
<1>3. st' \in Follower /\ Len(st'.q) <= Buffer /\ RecordInv'
  <2>1. CASE tenantJournalStream
    BY <1>1, <2>1, CatchUpKeeps
  <2>2. ASSUME \/ st' = [st EXCEPT !.pc = "live"]
               \/ st' = [st EXCEPT !.pc = "closed"]
               \/ st' = st
        PROVE  st' \in Follower /\ Len(st'.q) <= Buffer /\ RecordInv'
    <3>1. st' \in Follower /\ st'.q = st.q /\ st'.hi = st.hi /\ st'.sent = st.sent
      BY <1>1, <2>2 DEF TypeOK, Follower
    <3>2. RecordInv'
      BY <1>1, <1>2, <3>1, QuietKeeps
    <3> QED
      BY <1>1, <3>1, <3>2 DEF TypeOK
  <2>3. CASE Subscribe
    BY <2>2, <2>3 DEF Subscribe
  <2>4. ASSUME NEW e \in bc, Broadcast(e) PROVE st' \in Follower /\ Len(st'.q) <= Buffer /\ RecordInv'
    <3>1. CASE st.pc = "live" /\ Len(st.q) < Buffer
      BY <1>1, <2>4, <3>1, EnqueueKeeps
    <3>2. CASE ~(st.pc = "live" /\ Len(st.q) < Buffer)
      BY <2>2, <2>4, <3>2 DEF Broadcast, Enqueue
    <3> QED
      BY <3>1, <3>2
  <2>5. CASE sendLive
    BY <1>1, <2>5, SendKeeps
  <2> QED
    BY <2>1, <2>3, <2>4, <2>5 DEF Stream
<1>4. TypeOK'
  BY <1>1, <1>2, <1>3 DEF TypeOK
<1>5. RevertSound'
  BY <1>1, <1>2 DEF RevertSound, Founded, RowSound
<1> QED
  BY <1>2, <1>3, <1>4, <1>5, TablesKept DEF Inv, JournalInv

LEMMA FaultKeeps ==
    ASSUME Inv, TakeOver \/ ServerRestart
    PROVE  Inv' /\ TreeMoves
<1>1. TypeOK /\ RecordInv /\ RevertSound
  BY DEF Inv, JournalInv
<1>2. /\ db' = db /\ journal' = journal /\ mixed' = mixed /\ ops' = ops + 1 /\ ops < Limit
      /\ act' = FALSE /\ bc' \subseteq bc
  BY DEF TakeOver, ServerRestart
<1>3. ops' \in 0 .. MaxOp
  BY <1>1, <1>2, BelowLimit
<1>4. ses' \in 1 .. MaxSession
  BY <1>1, JournalAssumption DEF TakeOver, ServerRestart, TypeOK
<1>5. st' = st \/ st' = Off
  BY DEF TakeOver, ServerRestart
<1>6. Off \in Follower /\ Len(Off.q) <= Buffer /\ Off.q = <<>> /\ Off.sent = <<>>
  <2>1. <<>> \in Seq(Frame) /\ <<>> \in Seq(Nat \ {0}) /\ Len(<<>>) = 0
    BY EmptySeq
  <2> QED
    BY <2>1, JournalAssumption DEF Off, Follower
<1>7. st' \in Follower /\ Len(st'.q) <= Buffer
  BY <1>1, <1>5, <1>6 DEF TypeOK
<1>8. RecordInv'
  <2>1. CASE st' = st
    <3>1. st'.q = st.q /\ st'.hi = st.hi /\ st'.sent = st.sent
      BY <2>1
    <3>2. journal' \subseteq journal
      BY <1>2
    <3> QED
      BY <1>1, <1>2, <3>1, <3>2, QuietKeeps
  <2>2. CASE st' = Off
    <3>1. st'.q = <<>> /\ st'.sent = <<>> /\ journal' \subseteq journal
      BY <1>2, <1>6, <2>2
    <3> QED
      BY <1>1, <1>2, <3>1, QuietKeeps
  <2> QED
    BY <1>5, <2>1, <2>2
<1>9. rv' \in [Reverter -> Revert] /\ RevertSound'
  <2>1. rv' = rv \/ rv' = [i \in Reverter |-> Idle]
    BY DEF TakeOver, ServerRestart
  <2>2. CASE rv' = rv
    BY <1>1, <2>2 DEF TypeOK, RevertSound, Founded, RowSound
  <2>3. CASE rv' = [i \in Reverter |-> Idle]
    BY <2>3, IdleIs DEF RevertSound
  <2> QED
    BY <2>1, <2>2, <2>3
<1>10. TypeOK'
  BY <1>1, <1>2, <1>3, <1>4, <1>7, <1>9 DEF TypeOK
<1> QED
  BY <1>2, <1>8, <1>9, <1>10, TablesKept DEF Inv, JournalInv

LEMMA InitInv ==
    ASSUME Init
    PROVE  Inv
<1>1. <<>> \in Seq(Frame) /\ <<>> \in Seq(Nat \ {0}) /\ Len(<<>>) = 0 /\ DOMAIN <<>> = {}
  BY EmptySeq
<1>2. db \in Tables /\ db.ln = {} /\ db.sp = {} /\ db.de = {} /\ db.id = 0 /\ \A p \in Path : db.mf[p] = None
  BY DEF Init, Empty, Tables
<1>3. st \in Follower /\ Len(st.q) <= Buffer /\ st.q = <<>> /\ st.sent = <<>>
  <2>1. st = [pc |-> "none", hi |-> 0, q |-> <<>>, sent |-> <<>>] \/ st = [pc |-> "off", hi |-> 0, q |-> <<>>, sent |-> <<>>]
    BY DEF Init, Unwatched, Off
  <2>2. st.q = <<>> /\ st.sent = <<>>
    BY <2>1
  <2>3. st \in Follower
    <3>1. <<>> \in Seq(Frame) /\ <<>> \in Seq(Nat \ {0})
      BY <1>1
    <3>2. Unwatched \in Follower
      BY <3>1 DEF Unwatched, Follower
    <3>3. Off \in Follower
      BY <3>1 DEF Off, Follower
    <3> QED
      BY <3>2, <3>3 DEF Init
  <2>4. 0 <= Buffer
    BY JournalAssumption
  <2> QED
    BY <1>1, <2>2, <2>3, <2>4
<1>4. TypeOK
  <2>1. ses \in 1 .. MaxSession /\ ops \in 0 .. MaxOp
    BY JournalAssumption DEF Init
  <2>2. journal \subseteq Row /\ bc \subseteq Frame /\ rv \in [Reverter -> Revert] /\ act \in BOOLEAN /\ mixed \in BOOLEAN
    BY IdleIs DEF Init
  <2> QED
    BY <1>2, <1>3, <2>1, <2>2 DEF TypeOK
<1>5. RecordInv
  BY <1>1, <1>3 DEF Init, RecordInv, RowsCounted, KeysUnique, RowsSound, FramesSound, StreamSendsOnce, IsInjective
<1>6. RevertSound
  BY IdleIs DEF Init, RevertSound
<1>7. InodesCounted
  BY <1>2 DEF Init, InodesCounted, Counted
<1>8. Sound(db)
  BY <1>2 DEF Sound, OneKind, Rows
<1>9. TreeSound
  BY <1>2, <1>8, SoundIs DEF TreeSound
<1> QED
  BY <1>4, <1>5, <1>6, <1>7, <1>9 DEF Inv, JournalInv

LEMMA RevertsKeep ==
    ASSUME Inv, NEW i \in Reverter, Reverts(i)
    PROVE  Inv' /\ TreeMoves
<1>1. ASSUME NEW p \in Path, NEW force \in BOOLEAN, handleJournalRevertPath(i, p, force) PROVE Inv' /\ TreeMoves
  <2>1. PICK row \in latestRowForPath(p) : RevertPaths(i, row, force)
    BY <1>1 DEF handleJournalRevertPath
  <2>2. row \in journal
    BY DEF latestRowForPath
  <2> QED
    BY <2>1, <2>2, RevertKeeps
<1>2. ASSUME NEW row \in journal, NEW force \in BOOLEAN, tenantJournalRevert(i, row, force) PROVE Inv' /\ TreeMoves
  <2>1. rowForSessionSeq(row.ses, row.seq) \in journal
    BY RowIs
  <2> QED
    BY <1>2, <2>1, RevertKeeps DEF tenantJournalRevert
<1>3. CASE liveManifestVersion(i)
  BY <1>3, LiveKeeps
<1>4. CASE seedSource(i)
  BY <1>4, SeedKeeps
<1>5. CASE applyInverse(i)
  BY <1>5, InverseKeeps
<1>6. CASE DeleteRow(i)
  BY <1>6, DeleteRowKeeps
<1> QED
  BY <1>1, <1>2, <1>3, <1>4, <1>5, <1>6 DEF Reverts

LEMMA StepKeeps ==
    ASSUME Inv, [Next]_vars
    PROVE  Inv' /\ TreeMoves
<1>1. CASE Writes
  BY <1>1, WritesKeep
<1>2. CASE \E i \in Reverter : Reverts(i)
  BY <1>2, RevertsKeep
<1>3. CASE Stream
  BY <1>3, StreamKeeps
<1>4. CASE TakeOver \/ ServerRestart
  BY <1>4, FaultKeeps
<1>5. CASE UNCHANGED vars
  <2>1. /\ db' = db /\ journal' = journal /\ ses' = ses /\ act' = act /\ ops' = ops /\ rv' = rv /\ bc' = bc
        /\ st' = st /\ mixed' = mixed
    BY <1>5 DEF vars
  <2>2. TypeOK' /\ RecordInv' /\ RevertSound'
    BY <2>1 DEF Inv, JournalInv, TypeOK, RecordInv, RowsCounted, KeysUnique, RowsSound, RowSound, FramesSound, Due,
                StreamSendsOnce, RevertSound, Founded
  <2> QED
    BY <2>1, <2>2, TablesKept DEF Inv, JournalInv
<1> QED
  BY <1>1, <1>2, <1>3, <1>4, <1>5 DEF Next

\* Only applyInverse ends a revert that has been checked as one that applied.
LEMMA OnlyInverse ==
    ASSUME Inv, [Next]_vars, NEW i \in Reverter, rv[i].pc = "checked", rv'[i].pc = "applied"
    PROVE  applyInverse(i)
<1>0. rv \in [Reverter -> Revert]
  BY DEF Inv, TypeOK
<1>1. CASE Writes
  <2>1. rv' = rv
    BY <1>1 DEF Writes, handleManifestPut, SetMode, handleManifestDelete, handleLink, handleManifestRename,
                handleDirCreate, handleDirRemove, handleSymlink, handleMknod, Fenced, Mount, MountUnfenced
  <2> QED
    BY <2>1
<1>2. ASSUME NEW j \in Reverter, Reverts(j) PROVE applyInverse(i)
  <2>1. ASSUME NEW row, NEW force, RevertPaths(j, row, force) PROVE FALSE
    <3>1. rv[j] = Idle /\ \A k \in Reverter \ {j} : rv'[k] = rv[k]
      BY <1>0, <2>1 DEF RevertPaths
    <3> QED
      BY <3>1, IdleIs
  <2>2. ASSUME liveManifestVersion(j) PROVE FALSE
    BY <1>0, <2>2 DEF liveManifestVersion
  <2>3. ASSUME seedSource(j) PROVE FALSE
    BY <1>0, <2>3 DEF seedSource
  <2>4. ASSUME applyInverse(j) PROVE applyInverse(i)
    <3>1. j # i => rv'[i] = rv[i]
      BY <1>0, <2>4 DEF applyInverse
    <3> QED
      BY <2>4, <3>1
  <2>5. ASSUME DeleteRow(j) PROVE FALSE
    BY <1>0, <2>5 DEF DeleteRow
  <2> QED
    BY <1>2, <2>1, <2>2, <2>3, <2>4, <2>5 DEF Reverts, handleJournalRevertPath, tenantJournalRevert
<1>3. CASE Stream
  <2>1. rv' = rv
    BY <1>3 DEF Stream, tenantJournalStream, Subscribe, Broadcast, sendLive
  <2> QED
    BY <2>1
<1>4. CASE TakeOver \/ ServerRestart
  <2>1. rv' = rv \/ rv' = [k \in Reverter |-> Idle]
    BY <1>4 DEF TakeOver, ServerRestart
  <2> QED
    BY <2>1, IdleIs
<1>5. CASE UNCHANGED vars
  BY <1>5 DEF vars
<1> QED
  BY <1>1, <1>2, <1>3, <1>4, <1>5 DEF Next

LEMMA StepRestores ==
    ASSUME Inv, [Next]_vars
    PROVE  \A i \in Reverter : Restored(i)
<1> SUFFICES ASSUME NEW i \in Reverter PROVE Restored(i)
  OBVIOUS
<1>1. CASE rv[i].pc = "checked" /\ rv'[i].pc = "applied"
  BY <1>1, OnlyInverse, InverseKeeps
<1>2. CASE ~(rv[i].pc = "checked" /\ rv'[i].pc = "applied")
  BY <1>2 DEF Restored
<1> QED
  BY <1>1, <1>2

-----------------------------------------------------------------------------
(* The theorems.                                                           *)

\* The inductive invariant: inodes and rows are numbered by the operations,
\* rows hold what was there before their write, frames are on their way once
\* and those the stream has shown are at most at its watermark, and the tables
\* of a namespace that nothing has mixed up describe one tree.
THEOREM JournalInvariant == Spec => []Inv
<1>1. Init => Inv
  BY InitInv
<1>2. Inv /\ [Next]_vars => Inv'
  BY StepKeeps
<1> QED
  BY <1>1, <1>2, PTL DEF Spec

\* Every variable has its type and a subscriber's buffer is never overrun
\* (Enqueue drops the subscriber instead, journal_pubsub.go), for any paths,
\* any number of operations and sessions, and any Buffer and CatchUp.
THEOREM JournalTypes == Spec => []TypeOK
<1>1. Inv => TypeOK
  BY DEF Inv
<1> QED
  BY <1>1, JournalInvariant, PTL

\* (session_id, seq) identifies a row in every reachable state, although
\* revert deletes rows and the next number is derived from the rows that are
\* left (appendJournal, journal.go).
THEOREM KeysAlwaysUnique == Spec => []KeysUnique
<1>1. Inv => KeysUnique
  BY DEF Inv, JournalInv, RecordInv
<1> QED
  BY <1>1, JournalInvariant, PTL

\* One event stream never shows a row twice, however commits, broadcasts, the
\* catch-up and the subscription interleave (tenantJournalStream).
THEOREM StreamAlwaysSendsOnce == Spec => []StreamSendsOnce
<1>1. Inv => StreamSendsOnce
  BY DEF Inv, JournalInv, RecordInv
<1> QED
  BY <1>1, JournalInvariant, PTL

\* The four tables describe one tree in every reachable state that no revert,
\* and no rename whose pattern or cut is not exact, has mixed up, whatever the
\* depth of the paths and of the subtrees that are renamed, and whatever the
\* names match (manifests.go).
THEOREM TreeAlwaysWellFormed == Spec => []TreeWellFormed
<1>1. Inv => TreeWellFormed
  BY DEF Inv, TreeSound, TreeWellFormed
<1> QED
  BY <1>1, JournalInvariant, PTL

\* The tables implement the abstract tree: every step that changes them makes
\* one node, removes one, or moves one subtree as a whole (renameOpt and
\* reparentDescendantsTx, manifests.go), until a revert misplaces a file or a
\* directory is renamed whose pattern or cut is not exact.
THEOREM TablesImplementTree == Spec => ImplementsTree
<1> DEFINE A == LET t == TreeOf(db)
                    u == TreeOf(db)'
                IN  t = u \/ mixed' \/ Tree!Step(t, u)
<1>1. Inv /\ [Next]_vars => [A]_db
  <2> SUFFICES ASSUME Inv, [Next]_vars PROVE [A]_db
    OBVIOUS
  <2>1. TreeMoves
    BY StepKeeps
  <2>2. TreeOf(db)' = TreeOf(db')
    BY DEF TreeOf
  <2> QED
    BY <2>1, <2>2 DEF TreeMoves
<1> QED
  BY <1>1, JournalInvariant, PTL DEF Spec, ImplementsTree

\* A revert that goes through leaves what was there before the row's write
\* (applyInverse, revert.go).
THEOREM RevertsRestore == Spec => RevertRestores
<1>1. Inv /\ [Next]_vars => \A i \in Reverter : Restored(i)
  BY StepRestores
<1> QED
  BY <1>1, JournalInvariant, PTL DEF Spec, RevertRestores, Restored

=============================================================================
