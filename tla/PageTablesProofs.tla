--------------------------- MODULE PageTablesProofs ---------------------------
(***************************************************************************)
(* Theorems about the page tables: on any machine with enough free memory, *)
(* for tables of any size and any pages of the frame buffer, the heap and  *)
(* the devices.                                                            *)
(***************************************************************************)
EXTENDS PageTables, FiniteSetTheorems, SequenceTheorems, WellFoundedInduction, TLAPS

LEMMA EntriesType == Entries \in Nat /\ Entries > 0
PROOF BY SizeAssumption DEF SizeAssumption

\* Every page the kernel maps is a page.
LEMMA Pages ==
    /\ Frames \subseteq VirtualPages /\ HeapPages \subseteq VirtualPages
    /\ DevicePages \subseteq VirtualPages /\ VirtualPages \subseteq Nat
    /\ DevicePages \cap HeapPages = {} /\ Frames \cap HeapPages = {}
    /\ KnownPages \subseteq VirtualPages /\ Frames \subseteq KnownPages
    /\ HeapPages \subseteq KnownPages /\ DevicePages \subseteq KnownPages
PROOF BY AddressAssumption DEF AddressAssumption, KnownPages, SelfMapped, VirtualPages

\* The indices of a page are in a table, and only one page has them.
LEMMA ShiftBounds ==
    ASSUME NEW v \in Nat, NEW k \in Nat, v < Entries * k
    PROVE  Shift(v) \in Nat /\ Shift(v) < k
PROOF
<1>1. Entries \in Nat /\ Entries > 0
  BY EntriesType
<1>2. /\ Shift(v) \in Nat /\ Entries * Shift(v) <= v
  BY <1>1 DEF Shift
<1>3. ASSUME k <= Shift(v) PROVE FALSE
  <2>1. Entries * k <= Entries * Shift(v)
    BY <1>1, <1>2, <1>3
  <2>2. Entries * k \in Nat /\ Entries * Shift(v) \in Nat
    BY <1>1, <1>2
  <2> QED BY <1>2, <2>1, <2>2
<1> QED BY <1>2, <1>3

LEMMA ShiftUnique ==
    ASSUME NEW u \in Nat, NEW v \in Nat, Shift(u) = Shift(v), u % Entries = v % Entries
    PROVE  u = v
PROOF
<1>1. ASSUME NEW E \in Nat, E > 0, NEW x \in Nat, NEW y \in Nat,
             x % E = y % E, x \div E = y \div E
      PROVE  x = y
  BY <1>1
<1> QED BY <1>1, EntriesType DEF Shift

LEMMA IndexInTable ==
    ASSUME NEW v \in VirtualPages, NEW level \in 0 .. 3
    PROVE  Index(v, level) \in Slots
PROOF
<1>1. Entries \in Nat /\ Entries > 0 /\ v \in Nat
  BY EntriesType DEF VirtualPages
<1>2. \A x \in Nat : Shift(x) \in Nat /\ x % Entries \in Slots
  BY <1>1 DEF Shift, Slots
<1>3. Shifted(v, level) \in Nat
  <2> HIDE DEF Shift
  <2> QED BY <1>1, <1>2 DEF Shifted
<1> QED BY <1>2, <1>3 DEF Index

LEMMA IndicesUnique ==
    ASSUME NEW u \in VirtualPages, NEW v \in VirtualPages,
           \A level \in 0 .. 3 : Index(u, level) = Index(v, level)
    PROVE  u = v
PROOF
<1> DEFINE E == Entries
<1>1. E \in Nat /\ E > 0 /\ u \in Nat /\ v \in Nat
  BY EntriesType DEF VirtualPages
<1>2. /\ u % E = v % E /\ Shift(u) % E = Shift(v) % E
      /\ Shift(Shift(u)) % E = Shift(Shift(v)) % E
      /\ Shift(Shift(Shift(u))) % E = Shift(Shift(Shift(v))) % E
  <2>1. /\ Index(u, 0) = Index(v, 0) /\ Index(u, 1) = Index(v, 1)
        /\ Index(u, 2) = Index(v, 2) /\ Index(u, 3) = Index(v, 3)
    OBVIOUS
  <2> HIDE DEF Shift
  <2> QED BY <2>1 DEF Index, Shifted
<1>3. E * E \in Nat /\ E * (E * E) \in Nat /\ E * (E * (E * E)) \in Nat
  BY <1>1
<1>4. E * E * E * E = E * (E * (E * E))
  BY <1>1
<1>5. ASSUME NEW x \in VirtualPages
      PROVE  /\ Shift(x) \in Nat /\ Shift(Shift(x)) \in Nat
             /\ Shift(Shift(Shift(x))) \in Nat
             /\ Shift(Shift(Shift(x))) < E
  <2>1. x \in Nat /\ x < E * (E * (E * E))
    BY <1>3, <1>4 DEF VirtualPages
  <2>2. Shift(x) \in Nat /\ Shift(x) < E * (E * E)
    BY <1>3, <2>1, ShiftBounds
  <2>3. Shift(Shift(x)) \in Nat /\ Shift(Shift(x)) < E * E
    BY <1>3, <2>2, ShiftBounds
  <2>4. Shift(Shift(Shift(x))) \in Nat /\ Shift(Shift(Shift(x))) < E
    BY <1>1, <2>3, ShiftBounds
  <2> QED BY <2>2, <2>3, <2>4
<1>6. \A x \in Nat : x < E => x % E = x
  BY <1>1
<1>7. Shift(Shift(Shift(u))) = Shift(Shift(Shift(v)))
  BY <1>2, <1>5, <1>6
<1>8. Shift(Shift(u)) = Shift(Shift(v))
  BY <1>2, <1>5, <1>7, ShiftUnique
<1>9. Shift(u) = Shift(v)
  BY <1>2, <1>5, <1>8, ShiftUnique
<1> QED BY <1>1, <1>2, <1>9, ShiftUnique

-----------------------------------------------------------------------------
\* What a set of tables, or one entry of each, points to.
Kids(m, T) == {u \in Nat : \E t \in T, i \in Slots : m[t][i].present /\ m[t][i].frame = u}
Move(m, T, i) == {u \in Nat : \E t \in T : m[t][i].present /\ m[t][i].frame = u}

Memories == [Frames -> [Slots -> Entry]]

\* The entry i of table t leads to a new table n.
Grown(s, x, t, i, n) ==
    /\ n \in s.free /\ x.free = s.free \ {n} /\ x.memory \in Memories
    /\ ~s.memory[t][i].present
    /\ \A f \in Frames, j \in Slots :
          x.memory[f][j] = IF f = n THEN Cleared[j]
                           ELSE IF f = t /\ j = i THEN To(n) ELSE s.memory[f][j]

LEMMA GrownKids ==
    ASSUME NEW s, NEW x, NEW t \in Frames, NEW i \in Slots, NEW n \in Frames, n # t,
           s.memory \in Memories, Grown(s, x, t, i, n),
           NEW T \in SUBSET Frames, n \notin T
    PROVE  /\ Kids(x.memory, T) = IF t \in T THEN Kids(s.memory, T) \cup {n}
                                             ELSE Kids(s.memory, T)
           /\ Kids(x.memory, T \cup {n}) = Kids(x.memory, T)
PROOF
<1>1. n \in Nat
  BY SizeAssumption DEF SizeAssumption, Frames
<1>2. \A j \in Slots : ~x.memory[n][j].present
  BY DEF Grown, Cleared
<1>3. \A f \in T, j \in Slots :
          f # t \/ j # i => x.memory[f][j] = s.memory[f][j]
  BY DEF Grown
<1>4. x.memory[t][i].present /\ x.memory[t][i].frame = n /\ ~s.memory[t][i].present
  BY DEF Grown, To
<1>5. Kids(x.memory, T \cup {n}) = Kids(x.memory, T)
  BY <1>2 DEF Kids
<1>6. CASE t \in T
  <2>1. \A u \in Nat : u \in Kids(x.memory, T) <=> u \in Kids(s.memory, T) \/ u = n
    <3> SUFFICES ASSUME NEW u \in Nat
                 PROVE  u \in Kids(x.memory, T) <=> u \in Kids(s.memory, T) \/ u = n
      OBVIOUS
    <3>1. ASSUME u \in Kids(x.memory, T) PROVE u \in Kids(s.memory, T) \/ u = n
      BY <1>3, <1>4, <3>1 DEF Kids
    <3>2. ASSUME u \in Kids(s.memory, T) PROVE u \in Kids(x.memory, T)
      BY <1>3, <1>4, <3>2 DEF Kids
    <3>3. n \in Kids(x.memory, T)
      BY <1>1, <1>4, <1>6 DEF Kids
    <3> QED BY <3>1, <3>2, <3>3
  <2>2. Kids(x.memory, T) \subseteq Nat /\ Kids(s.memory, T) \subseteq Nat
    BY DEF Kids
  <2>3. Kids(x.memory, T) = Kids(s.memory, T) \cup {n}
    BY <1>1, <2>1, <2>2
  <2> QED BY <1>5, <1>6, <2>3
<1>7. CASE t \notin T
  <2>1. \A f \in T, j \in Slots : x.memory[f][j] = s.memory[f][j]
    BY <1>3, <1>7
  <2>2. Kids(x.memory, T) = Kids(s.memory, T)
    BY <2>1 DEF Kids
  <2> QED BY <1>5, <1>7, <2>2
<1> QED BY <1>6, <1>7

MovesGrow(s, x, t, i, n) ==
    \A T \in SUBSET Frames, k \in Slots :
        n \notin T =>
            /\ t \in T /\ k = i => Move(x.memory, T, k) = Move(s.memory, T, k) \cup {n}
            /\ ~(t \in T /\ k = i) => Move(x.memory, T, k) = Move(s.memory, T, k)
            /\ Move(x.memory, T \cup {n}, k) = Move(x.memory, T, k)
LEMMA GrownMove ==
    ASSUME NEW s, NEW x, NEW t \in Frames, NEW i \in Slots, NEW n \in Frames, n # t,
           s.memory \in Memories, Grown(s, x, t, i, n)
    PROVE  MovesGrow(s, x, t, i, n)
PROOF
<1> SUFFICES ASSUME NEW T \in SUBSET Frames, NEW k \in Slots, n \notin T
             PROVE  /\ t \in T /\ k = i =>
                           Move(x.memory, T, k) = Move(s.memory, T, k) \cup {n}
                    /\ ~(t \in T /\ k = i) => Move(x.memory, T, k) = Move(s.memory, T, k)
                    /\ Move(x.memory, T \cup {n}, k) = Move(x.memory, T, k)
  BY DEF MovesGrow
<1>1. n \in Nat
  BY SizeAssumption DEF SizeAssumption, Frames
<1>2. ~x.memory[n][k].present
  BY DEF Grown, Cleared
<1>3. \A f \in T : f # t \/ k # i => x.memory[f][k] = s.memory[f][k]
  BY DEF Grown
<1>4. x.memory[t][i].present /\ x.memory[t][i].frame = n /\ ~s.memory[t][i].present
  BY DEF Grown, To
<1>5. Move(x.memory, T \cup {n}, k) = Move(x.memory, T, k)
  BY <1>2 DEF Move
<1>6. CASE t \in T /\ k = i
  <2>1. \A u \in Nat : u \in Move(x.memory, T, k) <=> u \in Move(s.memory, T, k) \/ u = n
    BY <1>1, <1>3, <1>4, <1>6 DEF Move
  <2>2. Move(x.memory, T, k) \subseteq Nat /\ Move(s.memory, T, k) \subseteq Nat
    BY DEF Move
  <2>3. Move(x.memory, T, k) = Move(s.memory, T, k) \cup {n}
    BY <1>1, <2>1, <2>2
  <2> QED BY <1>5, <1>6, <2>3
<1>7. CASE ~(t \in T /\ k = i)
  <2>1. \A f \in T : x.memory[f][k] = s.memory[f][k]
    BY <1>3, <1>7
  <2>2. Move(x.memory, T, k) = Move(s.memory, T, k)
    BY <2>1 DEF Move
  <2> QED BY <1>5, <1>7, <2>2
<1> QED BY <1>6, <1>7

-----------------------------------------------------------------------------
\* The tables under the root r, level by level, and those on the way of a page.
L2(m, r) == Kids(m, {r})
L1(m, r) == Kids(m, L2(m, r))
L0(m, r) == Kids(m, L1(m, r))
W2(m, r, v) == Move(m, {r}, Index(v, 3))
W1(m, r, v) == Move(m, W2(m, r, v), Index(v, 2))
W0(m, r, v) == Move(m, W1(m, r, v), Index(v, 1))
Found(m, r, v) == Move(m, W0(m, r, v), Index(v, 0))

UpperTables(m, r) == {r} \cup L2(m, r) \cup L1(m, r)
AllTables(m, r) == UpperTables(m, r) \cup L0(m, r)

\* A tree of tables that owns its frames, beside the frames D.
TreeOK(s, r, D) ==
    /\ s.free \subseteq Frames \ {NULL} /\ s.memory \in Memories /\ D \cap s.free = {}
    /\ AllTables(s.memory, r) \subseteq Frames \ ({NULL} \cup s.free \cup D)
    /\ r \notin L2(s.memory, r) \cup L1(s.memory, r) \cup L0(s.memory, r)
    /\ L2(s.memory, r) \cap L1(s.memory, r) = {}
    /\ L2(s.memory, r) \cap L0(s.memory, r) = {}
    /\ L1(s.memory, r) \cap L0(s.memory, r) = {}
    /\ \A t, u \in UpperTables(s.memory, r), i, j \in Slots :
          /\ s.memory[t][i].present /\ s.memory[u][j].present
          /\ s.memory[t][i].frame = s.memory[u][j].frame
          => t = u /\ i = j

LEMMA WaysInTables ==
    ASSUME NEW m, NEW r, NEW v \in VirtualPages
    PROVE  /\ W2(m, r, v) \subseteq L2(m, r)
           /\ W1(m, r, v) \subseteq L1(m, r)
           /\ W0(m, r, v) \subseteq L0(m, r)
PROOF
<1>1. \A T, U, i : i \in Slots /\ T \subseteq U => Move(m, T, i) \subseteq Kids(m, U)
  BY DEF Move, Kids
<1>2. Index(v, 3) \in Slots /\ Index(v, 2) \in Slots /\ Index(v, 1) \in Slots
  BY IndexInTable
<1>3. W2(m, r, v) \subseteq L2(m, r)
  BY <1>1, <1>2 DEF W2, L2
<1>4. W1(m, r, v) \subseteq L1(m, r)
  BY <1>1, <1>2, <1>3 DEF W1, L1
<1> QED BY <1>1, <1>2, <1>3, <1>4 DEF W0, L0

\* A table that is added to the tree hangs on the ways through its entry, and
\* leads nowhere yet.
TreeGrowth(s, x, r, D, t, i, n) ==
    /\ TreeOK(x, r, D)
    /\ AllTables(x.memory, r) = AllTables(s.memory, r) \cup {n}
    /\ \A v \in VirtualPages :
          /\ W2(x.memory, r, v) = IF t = r /\ Index(v, 3) = i
                 THEN W2(s.memory, r, v) \cup {n} ELSE W2(s.memory, r, v)
          /\ W1(x.memory, r, v) = IF t \in W2(s.memory, r, v) /\ Index(v, 2) = i
                 THEN W1(s.memory, r, v) \cup {n} ELSE W1(s.memory, r, v)
          /\ W0(x.memory, r, v) = IF t \in W1(s.memory, r, v) /\ Index(v, 1) = i
                 THEN W0(s.memory, r, v) \cup {n} ELSE W0(s.memory, r, v)
          /\ Found(x.memory, r, v) = Found(s.memory, r, v)
LEMMA TreeGrows ==
    ASSUME NEW s, NEW x, NEW r, NEW D, NEW t, NEW i \in Slots, NEW n,
           TreeOK(s, r, D), t \in UpperTables(s.memory, r), Grown(s, x, t, i, n)
    PROVE  TreeGrowth(s, x, r, D, t, i, n)
PROOF
<1> DEFINE A2 == L2(s.memory, r)
           A1 == L1(s.memory, r)
           A0 == L0(s.memory, r)
<1>1. /\ s.free \subseteq Frames \ {NULL} /\ s.memory \in Memories /\ D \cap s.free = {}
      /\ {r} \cup A2 \cup A1 \cup A0 \subseteq Frames \ ({NULL} \cup s.free \cup D)
      /\ r \notin A2 \cup A1 \cup A0 /\ A2 \cap A1 = {} /\ A2 \cap A0 = {} /\ A1 \cap A0 = {}
      /\ t \in {r} \cup A2 \cup A1
      /\ UpperTables(s.memory, r) = {r} \cup A2 \cup A1
      /\ n \in s.free /\ x.free = s.free \ {n}
      /\ x.memory \in Memories
  BY DEF TreeOK, AllTables, UpperTables, Grown
<1>2. /\ t \in Frames /\ n \in Frames /\ n # t /\ n # NULL
      /\ n \notin {r} \cup A2 \cup A1 \cup A0
      /\ r \in Frames /\ A2 \subseteq Frames /\ A1 \subseteq Frames /\ A0 \subseteq Frames
  BY <1>1
<1>3. A2 = Kids(s.memory, {r}) /\ A1 = Kids(s.memory, A2) /\ A0 = Kids(s.memory, A1)
  BY DEF L2, L1, L0
<1>4. ASSUME NEW T \in SUBSET Frames, n \notin T
      PROVE  /\ Kids(x.memory, T) = IF t \in T THEN Kids(s.memory, T) \cup {n}
                                               ELSE Kids(s.memory, T)
             /\ Kids(x.memory, T \cup {n}) = Kids(x.memory, T)
  <2>1. s.memory \in Memories /\ t \in Frames /\ n \in Frames /\ n # t /\ Grown(s, x, t, i, n)
    BY <1>1, <1>2
  <2> QED BY <1>4, <2>1, GrownKids
<1>5. ASSUME NEW T \in SUBSET Frames, n \notin T, NEW k \in Slots
      PROVE  /\ Move(x.memory, T, k) = IF t \in T /\ k = i THEN Move(s.memory, T, k) \cup {n}
                                                          ELSE Move(s.memory, T, k)
             /\ Move(x.memory, T \cup {n}, k) = Move(x.memory, T, k)
  <2>1. s.memory \in Memories /\ t \in Frames /\ n \in Frames /\ n # t /\ Grown(s, x, t, i, n)
    BY <1>1, <1>2
  <2>2. MovesGrow(s, x, t, i, n)
    BY <2>1, GrownMove
  <2> QED BY <1>5, <2>2 DEF MovesGrow
<1> HIDE DEF A2, A1, A0
<1>6. /\ L2(x.memory, r) = IF t = r THEN A2 \cup {n} ELSE A2
      /\ L1(x.memory, r) = IF t \in A2 THEN A1 \cup {n} ELSE A1
      /\ L0(x.memory, r) = IF t \in A1 THEN A0 \cup {n} ELSE A0
  <2>1. L2(x.memory, r) = IF t = r THEN A2 \cup {n} ELSE A2
    BY <1>2, <1>3, <1>4 DEF L2
  <2>2. L1(x.memory, r) = IF t \in A2 THEN A1 \cup {n} ELSE A1
    <3>1. L1(x.memory, r) = Kids(x.memory, A2)
      BY <1>2, <1>4, <2>1 DEF L1
    <3> QED BY <1>2, <1>3, <1>4, <3>1
  <2>3. L0(x.memory, r) = IF t \in A1 THEN A0 \cup {n} ELSE A0
    <3>1. L0(x.memory, r) = Kids(x.memory, A1)
      BY <1>2, <1>4, <2>2 DEF L0
    <3> QED BY <1>2, <1>3, <1>4, <3>1
  <2> QED BY <2>1, <2>2, <2>3
<1>7. ASSUME NEW f \in UpperTables(x.memory, r), NEW j \in Slots, x.memory[f][j].present
      PROVE  /\ f \in UpperTables(s.memory, r)
             /\ f = t /\ j = i => x.memory[f][j].frame = n
             /\ ~(f = t /\ j = i) => /\ x.memory[f][j] = s.memory[f][j]
                                   /\ x.memory[f][j].frame # n
  <2>1. f \in {r} \cup A2 \cup A1 \cup {n}
    BY <1>6 DEF UpperTables
  <2>2. f \in Frames
    BY <1>2, <2>1
  <2>3. f # n
    BY <1>7, <2>2 DEF Grown, Cleared
  <2>4. f \in {r} \cup A2 \cup A1
    BY <2>1, <2>3
  <2>5. f = t /\ j = i => x.memory[f][j].frame = n
    BY <2>2, <2>3 DEF Grown, To
  <2>6. ASSUME ~(f = t /\ j = i)
        PROVE  x.memory[f][j] = s.memory[f][j] /\ x.memory[f][j].frame # n
    <3>1. x.memory[f][j] = s.memory[f][j]
      BY <2>2, <2>3, <2>6 DEF Grown
    <3>2. s.memory[f][j].frame \in Nat
      BY <1>1, <2>2 DEF Memories, Entry
    <3>3. s.memory[f][j].frame \in A2 \cup A1 \cup A0
      BY <1>3, <1>7, <2>4, <3>1, <3>2 DEF Kids
    <3> QED BY <1>2, <3>1, <3>3
  <2> QED BY <1>1, <2>4, <2>5, <2>6
<1>8. \A f, g \in UpperTables(x.memory, r), j, k \in Slots :
          /\ x.memory[f][j].present /\ x.memory[g][k].present
          /\ x.memory[f][j].frame = x.memory[g][k].frame
          => f = g /\ j = k
  <2> SUFFICES ASSUME NEW f \in UpperTables(x.memory, r), NEW g \in UpperTables(x.memory, r),
                      NEW j \in Slots, NEW k \in Slots,
                      x.memory[f][j].present, x.memory[g][k].present,
                      x.memory[f][j].frame = x.memory[g][k].frame
               PROVE  f = g /\ j = k
    OBVIOUS
  <2>1. \A a, b \in UpperTables(s.memory, r), c, d \in Slots :
            /\ s.memory[a][c].present /\ s.memory[b][d].present
            /\ s.memory[a][c].frame = s.memory[b][d].frame
            => a = b /\ c = d
    BY DEF TreeOK
  <2> QED BY <1>7, <2>1
<1>9. TreeOK(x, r, D)
  <2>1. /\ L2(x.memory, r) \cup L1(x.memory, r) \cup L0(x.memory, r)
               \subseteq A2 \cup A1 \cup A0 \cup {n}
        /\ L2(x.memory, r) \cap L1(x.memory, r) = {}
        /\ L2(x.memory, r) \cap L0(x.memory, r) = {}
        /\ L1(x.memory, r) \cap L0(x.memory, r) = {}
    BY <1>1, <1>2, <1>6
  <2>2. n \notin D /\ D \cap x.free = {}
    BY <1>1
  <2>3. /\ r \notin L2(x.memory, r) \cup L1(x.memory, r) \cup L0(x.memory, r)
        /\ AllTables(x.memory, r) \subseteq Frames \ ({NULL} \cup x.free \cup D)
    BY <1>1, <1>2, <2>1, <2>2 DEF AllTables, UpperTables
  <2>4. x.free \subseteq Frames \ {NULL}
    BY <1>1
  <2> QED BY <1>1, <1>8, <2>1, <2>2, <2>3, <2>4 DEF TreeOK
<1>10. AllTables(x.memory, r) = AllTables(s.memory, r) \cup {n}
  BY <1>1, <1>6 DEF AllTables, UpperTables, A2, A1, A0
<1>11. ASSUME NEW v \in VirtualPages
       PROVE  /\ W2(x.memory, r, v) = IF t = r /\ Index(v, 3) = i
                     THEN W2(s.memory, r, v) \cup {n} ELSE W2(s.memory, r, v)
              /\ W1(x.memory, r, v) = IF t \in W2(s.memory, r, v) /\ Index(v, 2) = i
                     THEN W1(s.memory, r, v) \cup {n} ELSE W1(s.memory, r, v)
              /\ W0(x.memory, r, v) = IF t \in W1(s.memory, r, v) /\ Index(v, 1) = i
                     THEN W0(s.memory, r, v) \cup {n} ELSE W0(s.memory, r, v)
              /\ Found(x.memory, r, v) = Found(s.memory, r, v)
  <2> DEFINE B2 == W2(s.memory, r, v)
             B1 == W1(s.memory, r, v)
             B0 == W0(s.memory, r, v)
  <2>1. B2 \subseteq A2 /\ B1 \subseteq A1 /\ B0 \subseteq A0
    BY WaysInTables DEF A2, A1, A0
  <2>2. /\ Index(v, 3) \in Slots /\ Index(v, 2) \in Slots
        /\ Index(v, 1) \in Slots /\ Index(v, 0) \in Slots
    BY IndexInTable
  <2>3. /\ B2 = Move(s.memory, {r}, Index(v, 3)) /\ B1 = Move(s.memory, B2, Index(v, 2))
        /\ B0 = Move(s.memory, B1, Index(v, 1))
        /\ Found(s.memory, r, v) = Move(s.memory, B0, Index(v, 0))
    BY DEF W2, W1, W0, Found
  <2> HIDE DEF B2, B1, B0
  <2>4. /\ B2 \in SUBSET Frames /\ n \notin B2 /\ B1 \in SUBSET Frames /\ n \notin B1
        /\ B0 \in SUBSET Frames /\ n \notin B0 /\ {r} \in SUBSET Frames /\ n \notin {r}
    BY <1>2, <2>1
  <2>5. W2(x.memory, r, v) = IF t = r /\ Index(v, 3) = i THEN B2 \cup {n} ELSE B2
    BY <1>5, <2>2, <2>3, <2>4 DEF W2
  <2>6. W1(x.memory, r, v) = IF t \in B2 /\ Index(v, 2) = i THEN B1 \cup {n} ELSE B1
    <3>1. W1(x.memory, r, v) = Move(x.memory, B2, Index(v, 2))
      BY <1>5, <2>2, <2>4, <2>5 DEF W1
    <3> QED BY <1>5, <2>2, <2>3, <2>4, <3>1
  <2>7. W0(x.memory, r, v) = IF t \in B1 /\ Index(v, 1) = i THEN B0 \cup {n} ELSE B0
    <3>1. W0(x.memory, r, v) = Move(x.memory, B1, Index(v, 1))
      BY <1>5, <2>2, <2>4, <2>6 DEF W0
    <3> QED BY <1>5, <2>2, <2>3, <2>4, <3>1
  <2>8. Found(x.memory, r, v) = Found(s.memory, r, v)
    <3>1. Found(x.memory, r, v) = Move(x.memory, B0, Index(v, 0))
      BY <1>5, <2>2, <2>4, <2>7 DEF Found
    <3>2. t \notin B0
      BY <1>1, <2>1
    <3> QED BY <1>5, <2>2, <2>3, <2>4, <3>1, <3>2
  <2> QED BY <2>5, <2>6, <2>7, <2>8 DEF B2, B1, B0
<1> QED BY <1>9, <1>10, <1>11 DEF TreeGrowth

-----------------------------------------------------------------------------
\* request_page, where there is a frame left.
States == [free : SUBSET Frames, memory : Memories]

LEMMA RequestedIsFree ==
    ASSUME NEW s, s.free \subseteq Nat, s.free # {}
    PROVE  Requested(s) \in s.free
PROOF
<1> DEFINE R == {pq \in Nat \X Nat : pq[1] < pq[2]}
           S == s.free
<1>1. IsWellFoundedOn(R, Nat)
  BY NatLessThanWellFounded, Zenon DEF OpToRel
<1> HIDE DEF S
<1>2. PICK p \in S : \A q \in S : ~ (<<q, p>> \in R)
  <2>1. S \subseteq Nat /\ S # {}
    BY DEF S
  <2> HIDE DEF R
  <2> QED BY <1>1, <2>1, WFMin
<1>3. \A q \in S : p <= q
  <2> SUFFICES ASSUME NEW q \in S, ~ (p <= q) PROVE FALSE
    OBVIOUS
  <2>1. q \in Nat /\ p \in Nat
    BY DEF S
  <2>2. <<q, p>> \in R
    BY <2>1
  <2> HIDE DEF R
  <2> QED BY <1>2, <2>2
<1>4. \E r \in S : \A q \in S : r <= q
  BY <1>3
<1> QED BY <1>4, Zenon DEF Requested, S

LEMMA NewTableGrown ==
    ASSUME NEW s \in States, s.free # {}, NEW t \in Frames, t \notin s.free,
           NEW i \in Slots, ~s.memory[t][i].present
    PROVE  LET x == [NewTable(s) EXCEPT !.memory[t][i] = To(Requested(s))]
           IN  x \in States /\ Grown(s, x, t, i, Requested(s))
PROOF
<1> DEFINE n == Requested(s)
           a == NewTable(s)
           x == [a EXCEPT !.memory[t][i] = To(n)]
<1>1. Frames \subseteq Nat /\ s.free \subseteq Frames /\ s.memory \in Memories
  BY SizeAssumption DEF SizeAssumption, Frames, States
<1>2. n \in s.free /\ n \in Frames /\ n # t /\ n \in Nat
  BY <1>1, RequestedIsFree
<1> HIDE DEF n
<1>3. Cleared \in [Slots -> Entry] /\ To(n) \in Entry
  <2>1. To(n).present \in BOOLEAN
    BY Zenon DEF To
  <2> QED BY <1>2 DEF Cleared, Entry, To
<1>4. a \in States /\ a.free = s.free \ {n} /\ a.memory = [s.memory EXCEPT ![n] = Cleared]
  BY <1>1, <1>2, <1>3 DEF States, Memories, NewTable, Taken, n
<1> HIDE DEF a
<1>5. x \in States /\ x.free = s.free \ {n} /\ x.memory = [a.memory EXCEPT ![t][i] = To(n)]
  <2>1. a.memory[t] \in [Slots -> Entry]
    BY <1>4 DEF States, Memories
  <2> QED BY <1>3, <1>4, <2>1 DEF States, Memories
<1> HIDE DEF x
<1>6. ASSUME NEW f \in Frames, NEW j \in Slots
      PROVE  x.memory[f][j] = IF f = n THEN Cleared[j]
                              ELSE IF f = t /\ j = i THEN To(n) ELSE s.memory[f][j]
  <2>1. /\ DOMAIN s.memory = Frames /\ DOMAIN a.memory = Frames
        /\ DOMAIN a.memory[f] = Slots
    BY <1>1, <1>4 DEF States, Memories
  <2>2. a.memory[f] = IF f = n THEN Cleared ELSE s.memory[f]
    BY <1>4, <2>1
  <2>3. x.memory[f][j] = IF f = t /\ j = i THEN To(n) ELSE a.memory[f][j]
    BY <1>5, <2>1
  <2> QED BY <1>2, <2>2, <2>3
<1>7. x.memory \in Memories
  BY <1>5 DEF States
<1> QED BY <1>2, <1>5, <1>6, <1>7 DEF Grown, x, a, n

-----------------------------------------------------------------------------
\* What a step of map_memory for page v keeps of the state.
Kept(s, x, r, D, v) ==
    /\ x \in States /\ TreeOK(x, r, D) /\ x.free \subseteq s.free
    /\ x.free \cup AllTables(x.memory, r) = s.free \cup AllTables(s.memory, r)
    /\ \A u \in VirtualPages :
          /\ W2(s.memory, r, u) \subseteq W2(x.memory, r, u)
          /\ W1(s.memory, r, u) \subseteq W1(x.memory, r, u)
          /\ W0(s.memory, r, u) \subseteq W0(x.memory, r, u)
          /\ u # v => Found(x.memory, r, u) = Found(s.memory, r, u)
    /\ AllTables(x.memory, r) \subseteq AllTables(s.memory, r) \cup W2(x.memory, r, v)
                                   \cup W1(x.memory, r, v) \cup W0(x.memory, r, v)
    /\ \A f \in Frames \ (s.free \cup AllTables(s.memory, r)) : x.memory[f] = s.memory[f]

LEMMA KeptTwice ==
    ASSUME NEW s, NEW x, NEW y, NEW r, NEW D, NEW v \in VirtualPages,
           Kept(s, x, r, D, v), Kept(x, y, r, D, v)
    PROVE  Kept(s, y, r, D, v)
PROOF
<1>1. y \in States /\ TreeOK(y, r, D) /\ y.free \subseteq s.free
  BY DEF Kept
<1>2. y.free \cup AllTables(y.memory, r) = s.free \cup AllTables(s.memory, r)
  BY DEF Kept
<1>3. \A u \in VirtualPages :
          /\ W2(s.memory, r, u) \subseteq W2(y.memory, r, u)
          /\ W1(s.memory, r, u) \subseteq W1(y.memory, r, u)
          /\ W0(s.memory, r, u) \subseteq W0(y.memory, r, u)
          /\ u # v => Found(y.memory, r, u) = Found(s.memory, r, u)
  BY DEF Kept
<1>4. AllTables(y.memory, r) \subseteq AllTables(s.memory, r) \cup W2(y.memory, r, v)
                                   \cup W1(y.memory, r, v) \cup W0(y.memory, r, v)
  BY DEF Kept
<1>5. \A f \in Frames \ (s.free \cup AllTables(s.memory, r)) : y.memory[f] = s.memory[f]
  BY DEF Kept
<1> QED BY <1>1, <1>2, <1>3, <1>4, <1>5 DEF Kept

\* The way of a page passes one table of each level, the same for the pages
\* with the same indices above.
OneWay(m, r, v) ==
    /\ \A a, b \in W2(m, r, v) : a = b
    /\ \A a, b \in W1(m, r, v) : a = b
    /\ \A a, b \in W0(m, r, v) : a = b
LEMMA OneTable ==
    ASSUME NEW m, NEW r, NEW v
    PROVE  OneWay(m, r, v)
PROOF
<1>1. \A T, i : (\A a, b \in T : a = b) => \A a, b \in Move(m, T, i) : a = b
  BY DEF Move
<1> QED BY <1>1 DEF OneWay, W0, W1, W2

SameWays(m, r, u, v) ==
    /\ Shifted(u, 3) = Shifted(v, 3) => W2(m, r, u) = W2(m, r, v)
    /\ Shifted(u, 2) = Shifted(v, 2) => W1(m, r, u) = W1(m, r, v)
    /\ Shifted(u, 1) = Shifted(v, 1) => W0(m, r, u) = W0(m, r, v)
LEMMA PrefixGivesWay ==
    ASSUME NEW m, NEW r, NEW u, NEW v
    PROVE  SameWays(m, r, u, v)
PROOF
<1>1. Shifted(u, 1) = Shifted(v, 1) => Shifted(u, 2) = Shifted(v, 2)
  BY DEF Shifted
<1>2. Shifted(u, 2) = Shifted(v, 2) => Shifted(u, 3) = Shifted(v, 3)
  BY DEF Shifted
<1> QED BY <1>1, <1>2 DEF SameWays, W2, W1, W0, Index

\* Every table lies on the way of a page that the kernel maps.
OnWays(m, r) ==
    /\ \A t \in L2(m, r) : \E u \in KnownPages : t \in W2(m, r, u)
    /\ \A t \in L1(m, r) : \E u \in KnownPages : t \in W1(m, r, u)
    /\ \A t \in L0(m, r) : \E u \in KnownPages : t \in W0(m, r, u)
LEMMA KeptOnWays ==
    ASSUME NEW s, NEW x, NEW r, NEW D, NEW v \in KnownPages,
           Kept(s, x, r, D, v), OnWays(s.memory, r)
    PROVE  OnWays(x.memory, r)
PROOF
<1>1. /\ r \notin L2(x.memory, r) \cup L1(x.memory, r) \cup L0(x.memory, r)
      /\ L2(x.memory, r) \cap L1(x.memory, r) = {}
      /\ L2(x.memory, r) \cap L0(x.memory, r) = {}
      /\ L1(x.memory, r) \cap L0(x.memory, r) = {}
  BY DEF Kept, TreeOK
<1>2. \A t \in L2(x.memory, r) \cup L1(x.memory, r) \cup L0(x.memory, r) :
          \/ t \in {r} \cup L2(s.memory, r) \cup L1(s.memory, r) \cup L0(s.memory, r)
          \/ t \in W2(x.memory, r, v) \cup W1(x.memory, r, v) \cup W0(x.memory, r, v)
  BY DEF Kept, AllTables, UpperTables
<1>3. \A t \in L2(x.memory, r) \cup L1(x.memory, r) \cup L0(x.memory, r) :
          \E u \in KnownPages :
              t \in W2(x.memory, r, u) \cup W1(x.memory, r, u) \cup W0(x.memory, r, u)
  <2> SUFFICES ASSUME NEW t \in L2(x.memory, r) \cup L1(x.memory, r) \cup L0(x.memory, r),
                      t \notin W2(x.memory, r, v) \cup W1(x.memory, r, v) \cup W0(x.memory, r, v)
               PROVE  \E u \in KnownPages :
                          t \in W2(x.memory, r, u) \cup W1(x.memory, r, u)
                                                  \cup W0(x.memory, r, u)
    OBVIOUS
  <2>1. t \in L2(s.memory, r) \cup L1(s.memory, r) \cup L0(s.memory, r)
    BY <1>1, <1>2
  <2>2. PICK u \in KnownPages :
            t \in W2(s.memory, r, u) \cup W1(s.memory, r, u) \cup W0(s.memory, r, u)
    BY <2>1 DEF OnWays
  <2>3. /\ W2(s.memory, r, u) \subseteq W2(x.memory, r, u)
        /\ W1(s.memory, r, u) \subseteq W1(x.memory, r, u)
        /\ W0(s.memory, r, u) \subseteq W0(x.memory, r, u)
    BY Pages DEF Kept
  <2> QED BY <2>2, <2>3
<1>4. \A u \in KnownPages :
          /\ W2(x.memory, r, u) \subseteq L2(x.memory, r)
          /\ W1(x.memory, r, u) \subseteq L1(x.memory, r)
          /\ W0(x.memory, r, u) \subseteq L0(x.memory, r)
  BY WaysInTables, Pages
<1>5. ASSUME NEW t \in L2(x.memory, r) PROVE \E u \in KnownPages : t \in W2(x.memory, r, u)
  BY <1>1, <1>3, <1>4
<1>6. ASSUME NEW t \in L1(x.memory, r) PROVE \E u \in KnownPages : t \in W1(x.memory, r, u)
  BY <1>1, <1>3, <1>4
<1>7. ASSUME NEW t \in L0(x.memory, r) PROVE \E u \in KnownPages : t \in W0(x.memory, r, u)
  BY <1>1, <1>3, <1>4
<1> QED BY <1>5, <1>6, <1>7 DEF OnWays

\* So a level has no more tables than prefixes, and less as long as one is missing.
LEMMA PrefixesFinite ==
    ASSUME NEW level \in 1 .. 3
    PROVE  IsFiniteSet(Prefixes(level)) /\ IsFiniteSet(HeapPages)
PROOF
<1> DEFINE N == Entries * Entries * Entries * Entries
<1>1. Entries \in Nat /\ Entries > 0 /\ N \in Nat
  BY EntriesType
<1>2. VirtualPages = 0 .. N - 1
  BY DEF VirtualPages
<1> HIDE DEF N
<1>3. IsFiniteSet(VirtualPages)
  BY <1>1, <1>2, FS_Interval
<1>4. ASSUME NEW v \in VirtualPages PROVE Shift(v) \in VirtualPages
  <2>1. v \in Nat /\ v < N
    BY <1>1, <1>2
  <2>2. Shift(v) \in Nat /\ Entries * Shift(v) <= v
    BY <1>1, <2>1 DEF Shift
  <2>3. \A E \in Nat, q \in Nat : E > 0 => q <= E * q
    <3> SUFFICES ASSUME NEW E \in Nat, NEW q \in Nat, E > 0 PROVE q <= E * q
      OBVIOUS
    <3>1. E - 1 \in Nat /\ (E - 1) * q \in Nat
      OBVIOUS
    <3>2. E * q = (E - 1) * q + q
      OBVIOUS
    <3> QED BY <3>1, <3>2
  <2>4. Shift(v) <= Entries * Shift(v) /\ Entries * Shift(v) \in Nat
    BY <1>1, <2>2, <2>3
  <2> QED BY <1>1, <1>2, <2>1, <2>2, <2>4
<1>5. \A v \in KnownPages : Shifted(v, level) \in VirtualPages
  <2>1. level = 1 \/ level = 2 \/ level = 3
    OBVIOUS
  <2> HIDE DEF Shift
  <2> QED BY <1>4, <2>1, Pages DEF Shifted
<1>6. Prefixes(level) \subseteq VirtualPages
  BY <1>5 DEF Prefixes
<1> QED BY <1>3, <1>6, Pages, FS_Subset

Level(L, W, level) ==
    /\ IsFiniteSet(L) /\ Cardinality(L) <= Cardinality(Prefixes(level))
    /\ \A v \in KnownPages : W[v] = {} => Cardinality(L) < Cardinality(Prefixes(level))
LEMMA LevelCount ==
    ASSUME NEW L, NEW W, NEW level \in 1 .. 3,
           \A v \in KnownPages : \A a, b \in W[v] : a = b,
           \A u, v \in KnownPages : Shifted(u, level) = Shifted(v, level) => W[u] = W[v],
           \A t \in L : \E v \in KnownPages : t \in W[v]
    PROVE  Level(L, W, level)
PROOF
<1> DEFINE P == Prefixes(level)
           On(t, y) == \E v \in KnownPages : y = Shifted(v, level) /\ t \in W[v]
           f == [t \in L |-> CHOOSE y \in P : On(t, y)]
<1>1. IsFiniteSet(P)
  BY PrefixesFinite
<1>2. \A t \in L : f[t] \in P /\ On(t, f[t])
  <2> SUFFICES ASSUME NEW t \in L PROVE f[t] \in P /\ On(t, f[t])
    OBVIOUS
  <2>1. \E y \in P : On(t, y)
    BY DEF Prefixes
  <2>2. f[t] = CHOOSE y \in P : On(t, y)
    OBVIOUS
  <2> HIDE DEF f, P, On
  <2> QED BY <2>1, <2>2
<1>3. DOMAIN f = L
  OBVIOUS
<1>4. f = [t \in L |-> f[t]]
  OBVIOUS
<1> HIDE DEF f
<1>5. \A a, b \in L : f[a] = f[b] => a = b
  <2> SUFFICES ASSUME NEW a \in L, NEW b \in L, f[a] = f[b] PROVE a = b
    OBVIOUS
  <2>1. PICK u \in KnownPages : f[a] = Shifted(u, level) /\ a \in W[u]
    BY <1>2
  <2>2. PICK v \in KnownPages : f[b] = Shifted(v, level) /\ b \in W[v]
    BY <1>2
  <2>3. W[u] = W[v]
    BY <2>1, <2>2
  <2> QED BY <2>1, <2>2, <2>3
<1>6. ASSUME NEW T, IsFiniteSet(T), \A t \in L : f[t] \in T
      PROVE  IsFiniteSet(L) /\ Cardinality(L) <= Cardinality(T)
  <2>1. f \in [L -> T]
    BY <1>4, <1>6
  <2>2. f \in Injection(L, T)
    BY <1>3, <1>5, <2>1 DEF Injection, IsInjective
  <2> QED BY <1>6, <2>2, FS_Injection
<1>7. IsFiniteSet(L) /\ Cardinality(L) <= Cardinality(P)
  BY <1>1, <1>2, <1>6
<1>8. ASSUME NEW v \in KnownPages, W[v] = {}
      PROVE  Cardinality(L) < Cardinality(P)
  <2> DEFINE y == Shifted(v, level)
             T == P \ {y}
  <2>1. y \in P
    BY DEF Prefixes
  <2>2. ASSUME NEW t \in L PROVE f[t] \in T
    <3>1. PICK u \in KnownPages : f[t] = Shifted(u, level) /\ t \in W[u]
      BY <1>2
    <3>2. f[t] # y
      BY <1>8, <3>1
    <3> HIDE DEF P, y
    <3> QED BY <1>2, <3>2
  <2> HIDE DEF P, y
  <2>3. IsFiniteSet(T) /\ Cardinality(T) = Cardinality(P) - 1
    BY <1>1, <2>1, FS_RemoveElement
  <2>4. IsFiniteSet(L) /\ Cardinality(L) <= Cardinality(T)
    BY <1>6, <2>2, <2>3
  <2>5. Cardinality(L) \in Nat /\ Cardinality(P) \in Nat
    BY <1>1, <2>4, FS_CardinalityType
  <2> QED BY <2>3, <2>4, <2>5
<1> QED BY <1>7, <1>8 DEF Level

\* The frames of a set free at boot are those still free, the tables, and D,
\* no more than the heap has pages.
Budget(s, r, D) ==
    /\ OnWays(s.memory, r)
    /\ \E F \in FreeAtBoot : F = s.free \cup AllTables(s.memory, r) \cup D
    /\ IsFiniteSet(D) /\ Cardinality(D) <= Cardinality(HeapPages)

LEMMA KeptBudget ==
    ASSUME NEW s, NEW x, NEW r, NEW D, NEW v \in KnownPages,
           Kept(s, x, r, D, v), Budget(s, r, D)
    PROVE  Budget(x, r, D)
PROOF
<1>1. OnWays(x.memory, r)
  BY KeptOnWays DEF Budget
<1>2. x.free \cup AllTables(x.memory, r) = s.free \cup AllTables(s.memory, r)
  BY DEF Kept
<1> QED BY <1>1, <1>2 DEF Budget

\* A page with a table missing on its way, or the heap with a page missing,
\* finds a free frame for it.
LEMMA FrameLeft ==
    ASSUME EnoughFrames, NEW s, NEW r, NEW D, TreeOK(s, r, D), Budget(s, r, D),
           NEW v \in KnownPages,
           \/ W2(s.memory, r, v) = {} \/ W1(s.memory, r, v) = {} \/ W0(s.memory, r, v) = {}
           \/ Cardinality(D) < Cardinality(HeapPages)
    PROVE  s.free # {}
PROOF
<1> SUFFICES ASSUME s.free = {} PROVE FALSE
  OBVIOUS
<1> DEFINE A2 == L2(s.memory, r)
           A1 == L1(s.memory, r)
           A0 == L0(s.memory, r)
           B2 == [u \in KnownPages |-> W2(s.memory, r, u)]
           B1 == [u \in KnownPages |-> W1(s.memory, r, u)]
           B0 == [u \in KnownPages |-> W0(s.memory, r, u)]
           N3 == Cardinality(Prefixes(3))
           N2 == Cardinality(Prefixes(2))
           N1 == Cardinality(Prefixes(1))
           H == Cardinality(HeapPages)
<1>1. \A u \in KnownPages : OneWay(s.memory, r, u)
  BY OneTable
<1>2. \A u, w \in KnownPages : SameWays(s.memory, r, u, w)
  BY PrefixGivesWay
<1>3. Level(A2, B2, 3)
  <2>1. \A u \in KnownPages : \A a, b \in B2[u] : a = b
    BY <1>1 DEF OneWay
  <2>2. \A u, w \in KnownPages : Shifted(u, 3) = Shifted(w, 3) => B2[u] = B2[w]
    BY <1>2 DEF SameWays
  <2>3. \A t \in A2 : \E u \in KnownPages : t \in B2[u]
    BY DEF Budget, OnWays
  <2> HIDE DEF A2, B2
  <2> QED BY <2>1, <2>2, <2>3, LevelCount
<1>4. Level(A1, B1, 2)
  <2>1. \A u \in KnownPages : \A a, b \in B1[u] : a = b
    BY <1>1 DEF OneWay
  <2>2. \A u, w \in KnownPages : Shifted(u, 2) = Shifted(w, 2) => B1[u] = B1[w]
    BY <1>2 DEF SameWays
  <2>3. \A t \in A1 : \E u \in KnownPages : t \in B1[u]
    BY DEF Budget, OnWays
  <2> HIDE DEF A1, B1
  <2> QED BY <2>1, <2>2, <2>3, LevelCount
<1>5. Level(A0, B0, 1)
  <2>1. \A u \in KnownPages : \A a, b \in B0[u] : a = b
    BY <1>1 DEF OneWay
  <2>2. \A u, w \in KnownPages : Shifted(u, 1) = Shifted(w, 1) => B0[u] = B0[w]
    BY <1>2 DEF SameWays
  <2>3. \A t \in A0 : \E u \in KnownPages : t \in B0[u]
    BY DEF Budget, OnWays
  <2> HIDE DEF A0, B0
  <2> QED BY <2>1, <2>2, <2>3, LevelCount
<1>6. PICK F \in FreeAtBoot : F = {r} \cup A2 \cup A1 \cup A0 \cup D
  BY DEF Budget, AllTables, UpperTables
<1>7. Cardinality(F) >= 1 + N3 + N2 + N1 + H
  BY DEF EnoughFrames
<1>8. B2[v] = {} \/ B1[v] = {} \/ B0[v] = {} \/ Cardinality(D) < H
  OBVIOUS
<1>9. /\ IsFiniteSet(A2) /\ IsFiniteSet(A1) /\ IsFiniteSet(A0) /\ IsFiniteSet(D)
      /\ Cardinality(A2) <= N3 /\ Cardinality(A1) <= N2 /\ Cardinality(A0) <= N1
      /\ Cardinality(D) <= H
      /\ \/ Cardinality(A2) < N3
         \/ Cardinality(A1) < N2
         \/ Cardinality(A0) < N1
         \/ Cardinality(D) < H
  <2>1. IsFiniteSet(D) /\ Cardinality(D) <= H
    BY DEF Budget
  <2> HIDE DEF A2, A1, A0, B2, B1, B0, H, N1, N2, N3
  <2> QED BY <1>3, <1>4, <1>5, <1>8, <2>1 DEF Level, N1, N2, N3
<1>10. /\ N3 \in Nat /\ N2 \in Nat /\ N1 \in Nat /\ H \in Nat
  BY PrefixesFinite, FS_CardinalityType
<1> HIDE DEF A2, A1, A0, B2, B1, B0, H, N1, N2, N3
<1>11. \A S, T : IsFiniteSet(S) /\ IsFiniteSet(T) =>
           /\ IsFiniteSet(S \cup T)
           /\ Cardinality(S \cup T) <= Cardinality(S) + Cardinality(T)
  <2> SUFFICES ASSUME NEW S, NEW T, IsFiniteSet(S), IsFiniteSet(T)
               PROVE  /\ IsFiniteSet(S \cup T)
                      /\ Cardinality(S \cup T) <= Cardinality(S) + Cardinality(T)
    OBVIOUS
  <2>1. /\ IsFiniteSet(S \cup T)
        /\ Cardinality(S \cup T) = Cardinality(S) + Cardinality(T) - Cardinality(S \cap T)
    BY FS_Union
  <2>2. IsFiniteSet(S \cap T)
    BY FS_Intersection
  <2>3. Cardinality(S \cap T) \in Nat /\ Cardinality(S) \in Nat /\ Cardinality(T) \in Nat
    BY <2>2, FS_CardinalityType
  <2> QED BY <2>1, <2>3
<1>12. IsFiniteSet({r}) /\ Cardinality({r}) = 1
  BY FS_Singleton
<1> DEFINE U2 == {r} \cup A2
           U1 == U2 \cup A1
           U0 == U1 \cup A0
<1>13. IsFiniteSet(U2) /\ Cardinality(U2) <= 1 + Cardinality(A2)
  BY <1>9, <1>11, <1>12
<1> HIDE DEF U2
<1>14. IsFiniteSet(U1) /\ Cardinality(U1) <= Cardinality(U2) + Cardinality(A1)
  BY <1>9, <1>11, <1>13
<1> HIDE DEF U1
<1>15. IsFiniteSet(U0) /\ Cardinality(U0) <= Cardinality(U1) + Cardinality(A0)
  BY <1>9, <1>11, <1>14
<1> HIDE DEF U0
<1>16. IsFiniteSet(F) /\ Cardinality(F) <= Cardinality(U0) + Cardinality(D)
  <2>1. F = U0 \cup D
    BY <1>6 DEF U0, U1, U2
  <2> QED BY <1>9, <1>11, <1>15, <2>1
<1>17. /\ Cardinality(F) \in Nat /\ Cardinality(U0) \in Nat /\ Cardinality(U1) \in Nat
       /\ Cardinality(U2) \in Nat /\ Cardinality(A2) \in Nat /\ Cardinality(A1) \in Nat
       /\ Cardinality(A0) \in Nat /\ Cardinality(D) \in Nat
  BY <1>9, <1>13, <1>14, <1>15, <1>16, FS_CardinalityType
<1> QED BY <1>7, <1>9, <1>10, <1>13, <1>14, <1>15, <1>16, <1>17

Descends(s, d, r, D, v, t, i) ==
    /\ Kept(s, d.state, r, D, v)
    /\ Found(d.state.memory, r, v) = Found(s.memory, r, v)
    /\ t = r /\ i = Index(v, 3) => d.table \in W2(d.state.memory, r, v)
    /\ t \in W2(s.memory, r, v) /\ i = Index(v, 2) => d.table \in W1(d.state.memory, r, v)
    /\ t \in W1(s.memory, r, v) /\ i = Index(v, 1) => d.table \in W0(d.state.memory, r, v)
LEMMA DescendOK ==
    ASSUME EnoughFrames, NEW s \in States, NEW r, NEW D, NEW v \in KnownPages,
           NEW t, NEW i \in Slots, TreeOK(s, r, D), Budget(s, r, D),
           \/ t = r /\ i = Index(v, 3)
           \/ t \in W2(s.memory, r, v) /\ i = Index(v, 2)
           \/ t \in W1(s.memory, r, v) /\ i = Index(v, 1)
    PROVE  Descends(s, Descend(s, t, i), r, D, v, t, i)
PROOF
<1> DEFINE d == Descend(s, t, i)
           n == Requested(s)
<1>0. v \in VirtualPages
  BY Pages
<1>1. t \in UpperTables(s.memory, r)
  BY <1>0, WaysInTables DEF UpperTables
<1>2. /\ t \in Frames /\ t \notin s.free /\ Frames \subseteq Nat
      /\ s.memory \in Memories
  BY <1>1, SizeAssumption DEF SizeAssumption, TreeOK, AllTables, Frames
<1>3. CASE s.memory[t][i].present
  <2>1. d.state = s /\ d.table = s.memory[t][i].frame
    BY <1>3 DEF Descend
  <2>2. s.memory[t][i].frame \in Nat
    BY <1>2 DEF Memories, Entry
  <2>3. /\ t = r /\ i = Index(v, 3) => d.table \in W2(s.memory, r, v)
        /\ t \in W2(s.memory, r, v) /\ i = Index(v, 2) => d.table \in W1(s.memory, r, v)
        /\ t \in W1(s.memory, r, v) /\ i = Index(v, 1) => d.table \in W0(s.memory, r, v)
    <3> HIDE DEF d
    <3>1. t = r /\ i = Index(v, 3) => d.table \in W2(s.memory, r, v)
      BY <1>3, <2>1, <2>2 DEF W2, Move
    <3>2. t \in W2(s.memory, r, v) /\ i = Index(v, 2) => d.table \in W1(s.memory, r, v)
      BY <1>3, <2>1, <2>2 DEF W1, Move
    <3>3. t \in W1(s.memory, r, v) /\ i = Index(v, 1) => d.table \in W0(s.memory, r, v)
      BY <1>3, <2>1, <2>2 DEF W0, Move
    <3> QED BY <3>1, <3>2, <3>3
  <2>4. Kept(s, s, r, D, v)
    BY DEF Kept
  <2> HIDE DEF d
  <2> QED BY <2>1, <2>3, <2>4 DEF d, Descends
<1>4. CASE ~s.memory[t][i].present
  <2> DEFINE x == d.state
  <2>1. /\ x = [NewTable(s) EXCEPT !.memory[t][i] = To(Requested(s))]
        /\ d.table = n
    BY <1>4 DEF Descend
  <2>0. s.free # {}
    <3>1. Move(s.memory, {t}, i) = {}
      BY <1>4 DEF Move
    <3>2. \A T : t \in T /\ (\A a, b \in T : a = b) => T = {t}
      OBVIOUS
    <3>3. /\ t \in W2(s.memory, r, v) => W2(s.memory, r, v) = {t}
          /\ t \in W1(s.memory, r, v) => W1(s.memory, r, v) = {t}
      BY <3>2, OneTable DEF OneWay
    <3>4. \/ W2(s.memory, r, v) = {} \/ W1(s.memory, r, v) = {}
          \/ W0(s.memory, r, v) = {}
      BY <3>1, <3>3 DEF W2, W1, W0
    <3> QED BY <3>4, FrameLeft
  <2>2. x \in States /\ Grown(s, x, t, i, n)
    BY <1>2, <1>4, <2>0, <2>1, NewTableGrown
  <2> HIDE DEF x, n, d
  <2>3. TreeGrowth(s, x, r, D, t, i, n)
    BY <1>1, <2>2, TreeGrows
  <2>4. /\ n \in s.free /\ x.free = s.free \ {n}
        /\ \A f \in Frames : f # n /\ f # t =>
               \A j \in Slots : x.memory[f][j] = s.memory[f][j]
    BY <2>2 DEF Grown
  <2>5. ASSUME NEW f \in Frames \ (s.free \cup AllTables(s.memory, r))
        PROVE  x.memory[f] = s.memory[f]
    <3>1. f # n /\ f # t
      BY <1>1, <2>4 DEF AllTables
    <3>2. x.memory[f] \in [Slots -> Entry] /\ s.memory[f] \in [Slots -> Entry]
      BY <1>2, <2>2 DEF States, Memories
    <3> QED BY <2>4, <3>1, <3>2
  <2>6. n \in W2(x.memory, r, v) \cup W1(x.memory, r, v) \cup W0(x.memory, r, v)
    BY <1>0, <2>3 DEF TreeGrowth
  <2>7. Kept(s, x, r, D, v)
    BY <2>2, <2>3, <2>4, <2>5, <2>6 DEF Kept, TreeGrowth
  <2> QED BY <1>0, <2>1, <2>3, <2>7 DEF x, d, TreeGrowth, Descends
<1> QED BY <1>3, <1>4

\* No two pages end at one entry.
LEMMA WaysApart ==
    ASSUME NEW s, NEW r, NEW D, TreeOK(s, r, D),
           NEW u \in VirtualPages, NEW v \in VirtualPages,
           NEW t \in W0(s.memory, r, u), t \in W0(s.memory, r, v), Index(u, 0) = Index(v, 0)
    PROVE  u = v
PROOF
<1> DEFINE m == s.memory
<1>1. /\ Index(u, 3) \in Slots /\ Index(u, 2) \in Slots /\ Index(u, 1) \in Slots
      /\ Index(v, 3) \in Slots /\ Index(v, 2) \in Slots /\ Index(v, 1) \in Slots
  BY IndexInTable
<1>2. /\ r \in UpperTables(m, r)
      /\ W2(m, r, u) \cup W2(m, r, v) \cup W1(m, r, u) \cup W1(m, r, v) \subseteq UpperTables(m, r)
  BY WaysInTables DEF UpperTables
<1>3. \A a, b \in UpperTables(m, r), i, j \in Slots :
          m[a][i].present /\ m[b][j].present /\ m[a][i].frame = m[b][j].frame
          => a = b /\ i = j
  BY DEF TreeOK
<1> HIDE DEF m
<1>4. PICK a \in W1(m, r, u) : m[a][Index(u, 1)].present /\ m[a][Index(u, 1)].frame = t
  BY DEF W0, Move, m
<1>5. PICK b \in W1(m, r, v) : m[b][Index(v, 1)].present /\ m[b][Index(v, 1)].frame = t
  BY DEF W0, Move, m
<1>6. a = b /\ Index(u, 1) = Index(v, 1)
  BY <1>1, <1>2, <1>3, <1>4, <1>5
<1>7. PICK c \in W2(m, r, u) : m[c][Index(u, 2)].present /\ m[c][Index(u, 2)].frame = a
  BY DEF W1, Move
<1>8. PICK d \in W2(m, r, v) : m[d][Index(v, 2)].present /\ m[d][Index(v, 2)].frame = a
  BY <1>6 DEF W1, Move
<1>9. c = d /\ Index(u, 2) = Index(v, 2)
  BY <1>1, <1>2, <1>3, <1>7, <1>8
<1>10. /\ m[r][Index(u, 3)].present /\ m[r][Index(u, 3)].frame = c
       /\ m[r][Index(v, 3)].present /\ m[r][Index(v, 3)].frame = c
  BY <1>9 DEF W2, Move
<1>11. Index(u, 3) = Index(v, 3)
  BY <1>1, <1>2, <1>3, <1>10
<1>12. \A level \in 0 .. 3 : Index(u, level) = Index(v, level)
  <2>1. \A level \in 0 .. 3 : level = 0 \/ level = 1 \/ level = 2 \/ level = 3
    OBVIOUS
  <2> QED BY <1>6, <1>9, <1>11, <2>1
<1> QED BY <1>12, IndicesUnique

\* The last step of map_memory.
Mapping(s, x, r, D, v, p) == Kept(s, x, r, D, v) /\ Found(x.memory, r, v) = {p}
LEMMA LastEntry ==
    ASSUME NEW s \in States, NEW r, NEW D, NEW v \in VirtualPages, NEW p \in Nat,
           TreeOK(s, r, D), NEW t \in W0(s.memory, r, v)
    PROVE  Mapping(s, [s EXCEPT !.memory[t][Index(v, 0)] = To(p)], r, D, v, p)
PROOF
<1> DEFINE k == Index(v, 0)
           x == [s EXCEPT !.memory[t][k] = To(p)]
<1>1. k \in Slots /\ t \in L0(s.memory, r)
  BY IndexInTable, WaysInTables
<1>2. /\ t \in Frames /\ t \notin s.free /\ t \in AllTables(s.memory, r)
      /\ s.memory \in Memories /\ s.free \subseteq Frames
  BY <1>1 DEF TreeOK, AllTables
<1>3. t \notin UpperTables(s.memory, r) /\ UpperTables(s.memory, r) \subseteq Frames
  BY <1>1 DEF TreeOK, UpperTables, AllTables
<1>4. To(p) \in Entry /\ To(p).present /\ To(p).frame = p
  <2>1. To(p).present \in BOOLEAN
    BY Zenon DEF To
  <2> QED BY <2>1 DEF Entry, To
<1> HIDE DEF k
<1>5. x \in States /\ x.free = s.free /\ x.memory = [s.memory EXCEPT ![t][k] = To(p)]
  <2>1. s.memory[t] \in [Slots -> Entry]
    BY <1>2 DEF Memories
  <2> QED BY <1>1, <1>2, <1>4, <2>1 DEF States, Memories
<1> HIDE DEF x
<1>6. \A f \in Frames, j \in Slots :
          x.memory[f][j] = IF f = t /\ j = k THEN To(p) ELSE s.memory[f][j]
  BY <1>1, <1>2, <1>5 DEF Memories
<1>7. \A f \in Frames \ {t} : x.memory[f] = s.memory[f]
  BY <1>2, <1>5 DEF Memories
<1>8. ASSUME NEW T \in SUBSET Frames, t \notin T
      PROVE  /\ Kids(x.memory, T) = Kids(s.memory, T)
             /\ \A j : Move(x.memory, T, j) = Move(s.memory, T, j)
  BY <1>7, <1>8 DEF Kids, Move
<1>9. /\ L2(x.memory, r) = L2(s.memory, r) /\ L1(x.memory, r) = L1(s.memory, r)
      /\ L0(x.memory, r) = L0(s.memory, r)
  <2>1. L2(x.memory, r) = L2(s.memory, r)
    BY <1>3, <1>8 DEF L2, UpperTables
  <2>2. L1(x.memory, r) = L1(s.memory, r)
    BY <1>3, <1>8, <2>1 DEF L1, UpperTables
  <2> QED BY <1>3, <1>8, <2>1, <2>2 DEF L0, UpperTables
<1>10. AllTables(x.memory, r) = AllTables(s.memory, r)
       /\ UpperTables(x.memory, r) = UpperTables(s.memory, r)
  BY <1>9 DEF AllTables, UpperTables
<1>11. TreeOK(x, r, D)
  <2>1. \A f, g \in UpperTables(x.memory, r), i, j \in Slots :
            x.memory[f][i].present /\ x.memory[g][j].present
            /\ x.memory[f][i].frame = x.memory[g][j].frame => f = g /\ i = j
    <3>1. \A f \in UpperTables(x.memory, r) : x.memory[f] = s.memory[f]
      BY <1>3, <1>7, <1>10
    <3> QED BY <1>10, <3>1 DEF TreeOK
  <2> QED BY <1>5, <1>9, <1>10, <2>1 DEF TreeOK, States
<1>12. ASSUME NEW u \in VirtualPages
       PROVE  /\ W2(x.memory, r, u) = W2(s.memory, r, u)
              /\ W1(x.memory, r, u) = W1(s.memory, r, u)
              /\ W0(x.memory, r, u) = W0(s.memory, r, u)
  <2>1. {r} \cup W2(s.memory, r, u) \cup W1(s.memory, r, u) \subseteq UpperTables(s.memory, r)
    BY WaysInTables DEF UpperTables
  <2>2. W2(x.memory, r, u) = W2(s.memory, r, u)
    BY <1>3, <1>8, <2>1 DEF W2
  <2>3. W1(x.memory, r, u) = W1(s.memory, r, u)
    BY <1>3, <1>8, <2>1, <2>2 DEF W1
  <2> QED BY <1>3, <1>8, <2>1, <2>2, <2>3 DEF W0
<1>13. Found(x.memory, r, v) = {p}
  <2>1. W0(x.memory, r, v) = {t}
    BY <1>12, OneTable DEF OneWay
  <2> QED BY <1>1, <1>2, <1>4, <1>6, <2>1 DEF Found, Move, k
<1>14. ASSUME NEW u \in VirtualPages, u # v
       PROVE  Found(x.memory, r, u) = Found(s.memory, r, u)
  <2> DEFINE j == Index(u, 0)
             B == W0(s.memory, r, u)
  <2>1. B \subseteq Frames /\ j \in Slots
    BY IndexInTable, WaysInTables DEF TreeOK, AllTables
  <2>2. t \in B => j # k
    BY <1>14, WaysApart DEF k
  <2> HIDE DEF j, B
  <2>3. \A f \in B : x.memory[f][j] = s.memory[f][j]
    BY <1>6, <2>1, <2>2
  <2>4. Move(x.memory, B, j) = Move(s.memory, B, j)
    BY <2>3 DEF Move
  <2> QED BY <1>12, <2>4 DEF Found, B, j
<1>15. Kept(s, x, r, D, v)
  BY <1>2, <1>5, <1>7, <1>10, <1>11, <1>12, <1>14 DEF Kept
<1> QED BY <1>13, <1>15 DEF x, k, Mapping

\* map_memory as a whole.
LEMMA Maps ==
    ASSUME EnoughFrames, NEW s \in States, NEW r, NEW D, NEW v \in KnownPages,
           NEW p \in Nat, TreeOK(s, r, D), Budget(s, r, D)
    PROVE  LET PDP == Descend(s, r, Index(v, 3))
               PD == Descend(PDP.state, PDP.table, Index(v, 2))
               PT == Descend(PD.state, PD.table, Index(v, 1))
               x == [PT.state EXCEPT !.memory[PT.table][Index(v, 0)] = To(p)]
           IN  Mapping(s, x, r, D, v, p)
PROOF
<1> DEFINE PDP == Descend(s, r, Index(v, 3))
           PD == Descend(PDP.state, PDP.table, Index(v, 2))
           PT == Descend(PD.state, PD.table, Index(v, 1))
           x == [PT.state EXCEPT !.memory[PT.table][Index(v, 0)] = To(p)]
<1>0. v \in VirtualPages
  BY Pages
<1>1. Index(v, 3) \in Slots /\ Index(v, 2) \in Slots /\ Index(v, 1) \in Slots
  <2> HIDE DEF PDP, PD, PT, x
  <2> QED BY <1>0, IndexInTable
<1>2. Descends(s, PDP, r, D, v, r, Index(v, 3))
  BY <1>1, DescendOK
<1> HIDE DEF PDP
<1>3. /\ Kept(s, PDP.state, r, D, v) /\ PDP.state \in States /\ TreeOK(PDP.state, r, D)
      /\ PDP.table \in W2(PDP.state.memory, r, v)
  BY <1>2 DEF Descends, Kept
<1>4. Budget(PDP.state, r, D)
  BY <1>3, KeptBudget
<1>5. Descends(PDP.state, PD, r, D, v, PDP.table, Index(v, 2))
  BY <1>1, <1>3, <1>4, DescendOK
<1> HIDE DEF PD
<1>6. /\ Kept(PDP.state, PD.state, r, D, v) /\ PD.state \in States /\ TreeOK(PD.state, r, D)
      /\ PD.table \in W1(PD.state.memory, r, v)
  BY <1>3, <1>5 DEF Descends, Kept
<1>7. Budget(PD.state, r, D)
  BY <1>4, <1>6, KeptBudget
<1>8. Descends(PD.state, PT, r, D, v, PD.table, Index(v, 1))
  BY <1>1, <1>6, <1>7, DescendOK
<1> HIDE DEF PT
<1>9. /\ Kept(PD.state, PT.state, r, D, v) /\ PT.state \in States /\ TreeOK(PT.state, r, D)
      /\ PT.table \in W0(PT.state.memory, r, v)
  BY <1>6, <1>8 DEF Descends, Kept
<1>10. Mapping(PT.state, x, r, D, v, p)
  BY <1>0, <1>9, LastEntry
<1> HIDE DEF x
<1>11. Kept(s, PD.state, r, D, v)
  BY <1>0, <1>3, <1>6, KeptTwice
<1>12. Kept(s, PT.state, r, D, v)
  BY <1>0, <1>9, <1>11, KeptTwice
<1>13. Kept(PT.state, x, r, D, v) /\ Found(x.memory, r, v) = {p}
  BY <1>10 DEF Mapping
<1>14. Kept(s, x, r, D, v)
  BY <1>0, <1>12, <1>13, KeptTwice
<1>15. Mapping(s, x, r, D, v, p)
  BY <1>13, <1>14 DEF Mapping
<1> QED BY <1>15 DEF x, PT, PD, PDP

-----------------------------------------------------------------------------
\* The pages of the boot loops.
LEMMA BootPagesType ==
    /\ Len(BootPages) \in Nat
    /\ \A k \in 1 .. Len(BootPages) :
          /\ BootPages[k] \in KnownPages /\ BootPages[k] \in VirtualPages
          /\ BootPages[k] \in Nat /\ BootPages[k] \notin HeapPages
    /\ \A f \in Frames : f + 1 \in 1 .. Len(BootPages) /\ BootPages[f + 1] = f
PROOF
<1> DEFINE B == [i \in 1 .. MemoryPages |-> i - 1]
           F == FrameBuffer
<1>1. /\ MemoryPages \in Nat /\ F \in Seq(Nat) /\ VirtualPages \subseteq Nat
  BY SizeAssumption DEF SizeAssumption, VirtualPages
<1>2. B \in Seq(Nat) /\ Len(B) = MemoryPages /\ \A i \in 1 .. MemoryPages : B[i] = i - 1
  <2>1. \A i \in 1 .. MemoryPages : i - 1 \in Nat
    BY <1>1
  <2>2. B \in [1 .. MemoryPages -> Nat]
    BY <2>1
  <2> QED BY <1>1, <2>2
<1>3. \A i \in 1 .. Len(F) : F[i] \in KnownPages /\ F[i] \notin HeapPages
  <2>1. DOMAIN F = 1 .. Len(F)
    BY <1>1
  <2>2. \A i \in DOMAIN F : F[i] \in KnownPages /\ F[i] \notin HeapPages
    BY AddressAssumption DEF AddressAssumption, KnownPages, SelfMapped
  <2> QED BY <2>1, <2>2
<1>4. \A f \in Frames : f \in KnownPages /\ f \notin HeapPages
  BY AddressAssumption DEF AddressAssumption, KnownPages, SelfMapped
<1>5. BootPages = B \o F
  BY DEF BootPages
<1> HIDE DEF B, F
<1>6. /\ Len(BootPages) = MemoryPages + Len(F) /\ Len(F) \in Nat
      /\ \A k \in 1 .. Len(BootPages) :
            BootPages[k] = IF k <= MemoryPages THEN B[k] ELSE F[k - MemoryPages]
  <2>1. Len(F) \in Nat
    BY <1>1
  <2>2. B \in Seq(Nat) /\ F \in Seq(Nat)
    BY <1>1, <1>2
  <2>3. /\ Len(B \o F) = Len(B) + Len(F)
        /\ \A k \in 1 .. Len(B) + Len(F) :
              (B \o F)[k] = IF k <= Len(B) THEN B[k] ELSE F[k - Len(B)]
    BY <2>2, ConcatProperties
  <2> QED BY <1>2, <1>5, <2>1, <2>3
<1>7. \A k \in 1 .. MemoryPages : B[k] \in Frames /\ B[k] = k - 1
  BY <1>1, <1>2 DEF Frames
<1>8. ASSUME NEW k \in 1 .. Len(BootPages)
      PROVE  /\ BootPages[k] \in KnownPages /\ BootPages[k] \in VirtualPages
             /\ BootPages[k] \in Nat /\ BootPages[k] \notin HeapPages
  <2>1. CASE k <= MemoryPages
    <3>1. k \in 1 .. MemoryPages
      BY <1>1, <1>6, <2>1
    <3> QED BY <1>1, <1>4, <1>6, <1>7, <2>1, <3>1, Pages
  <2>2. CASE ~(k <= MemoryPages)
    <3>1. k - MemoryPages \in 1 .. Len(F)
      BY <1>1, <1>6, <2>2
    <3> QED BY <1>1, <1>3, <1>6, <2>2, <3>1, Pages
  <2> QED BY <2>1, <2>2
<1>9. ASSUME NEW f \in Frames
      PROVE  f + 1 \in 1 .. Len(BootPages) /\ BootPages[f + 1] = f
  <2>1. f \in Nat /\ f + 1 \in 1 .. MemoryPages
    BY <1>1 DEF Frames
  <2> QED BY <1>1, <1>6, <1>7, <2>1
<1> QED BY <1>1, <1>6, <1>8, <1>9

-----------------------------------------------------------------------------
\* The module's walk of the tables and the one on a state of them.
WalkFinds ==
    \A v \in VirtualPages :
        /\ PML4 = NULL => Translations(v) = {}
        /\ PML4 # NULL /\ (\E D : TreeOK(Now, PML4, D))
               => Translations(v) = Found(memory, PML4, v)
LEMMA WalkIsFound == WalkFinds
PROOF
<1> SUFFICES ASSUME NEW v \in VirtualPages
             PROVE  /\ PML4 = NULL => Translations(v) = {}
                    /\ PML4 # NULL /\ (\E D : TreeOK(Now, PML4, D))
                           => Translations(v) = Found(memory, PML4, v)
  BY DEF WalkFinds
<1>1. \A level : Step({}, v, level) = {}
  BY DEF Step
<1>2. CASE PML4 = NULL
  <2>1. {PML4} \ {NULL} = {}
    BY <1>2
  <2> QED BY <1>1, <1>2, <2>1 DEF Translations
<1>3. ASSUME PML4 # NULL, NEW D, TreeOK(Now, PML4, D)
      PROVE  Translations(v) = Found(memory, PML4, v)
  <2>1. /\ memory \in Memories
        /\ {PML4} \cup L2(memory, PML4) \cup L1(memory, PML4) \cup L0(memory, PML4) \subseteq Frames
    BY <1>3 DEF Now, TreeOK, AllTables, UpperTables
  <2>2. /\ W2(memory, PML4, v) \subseteq Frames /\ W1(memory, PML4, v) \subseteq Frames
        /\ W0(memory, PML4, v) \subseteq Frames
    BY <2>1, WaysInTables
  <2>3. /\ Index(v, 0) \in Slots /\ Index(v, 1) \in Slots
        /\ Index(v, 2) \in Slots /\ Index(v, 3) \in Slots
    BY IndexInTable
  <2>4. ASSUME NEW T \in SUBSET Frames, NEW level, Index(v, level) \in Slots
        PROVE  Step(T, v, level) = Move(memory, T, Index(v, level))
    <3>1. \A t \in T : memory[t][Index(v, level)].frame \in Nat
      BY <2>1, <2>4 DEF Memories, Entry
    <3> HIDE DEF Index
    <3> QED BY <3>1 DEF Step, Move
  <2>5. {PML4} \ {NULL} = {PML4} /\ {PML4} \in SUBSET Frames
    BY <1>3, <2>1
  <2>6. Step({PML4}, v, 3) = W2(memory, PML4, v)
    BY <2>3, <2>4, <2>5 DEF W2
  <2>7. Step(W2(memory, PML4, v), v, 2) = W1(memory, PML4, v)
    BY <2>2, <2>3, <2>4 DEF W1
  <2>8. Step(W1(memory, PML4, v), v, 1) = W0(memory, PML4, v)
    BY <2>2, <2>3, <2>4 DEF W0
  <2>9. Step(W0(memory, PML4, v), v, 0) = Found(memory, PML4, v)
    BY <2>2, <2>3, <2>4 DEF Found
  <2> QED BY <2>5, <2>6, <2>7, <2>8, <2>9 DEF Translations
<1> QED BY <1>2, <1>3

-----------------------------------------------------------------------------
\* The inductive invariant.
MappedHeap == {v \in HeapPages : Translations(v) # {}}
SpaceInv ==
    /\ Now \in States /\ free \subseteq Frames \ {NULL}
    /\ data \subseteq Frames \ (free \cup {NULL})
    /\ PML4 \in Frames /\ next \in 0 .. Len(BootPages) /\ paging \in BOOLEAN
    /\ PML4 = NULL => next = 0 /\ data = {} /\ paging = FALSE /\ free \in FreeAtBoot
    /\ PML4 # NULL => TreeOK(Now, PML4, data) /\ Budget(Now, PML4, data)
    /\ paging = TRUE => next = Len(BootPages)
    /\ \A k \in 1 .. next : Translations(BootPages[k]) = {BootPages[k]}
    /\ \A v \in HeapPages : Translations(v) \subseteq data
    /\ \A u, v \in HeapPages : u # v => Translations(u) \cap Translations(v) = {}
    /\ Cardinality(data) = Cardinality(MappedHeap)

\* A call of map_memory as a step of the system: the tree grows beside the
\* frames D, one page is found somewhere else, and nothing else has moved.
Mapped1(D, v, p) ==
    /\ Now' \in States /\ TreeOK(Now', PML4, D) /\ Budget(Now', PML4, D)
    /\ free' \subseteq free
    /\ Translations(v)' = {p}
    /\ \A u \in VirtualPages \ {v} : Translations(u)' = Translations(u)
    /\ \A f \in Frames \ (free \cup AllTables(memory, PML4)) : memory'[f] = memory[f]
LEMMA MapEffect ==
    ASSUME EnoughFrames, SpaceInv, PML4 # NULL, PML4' = PML4,
           NEW s \in States, s.memory = memory, s.free \subseteq free,
           NEW D, TreeOK(s, PML4, D), Budget(s, PML4, D),
           NEW v \in KnownPages, NEW p \in Nat, MapMemory(s, v, p)
    PROVE  Mapped1(D, v, p)
PROOF
<1>0. v \in VirtualPages
  BY Pages
<1>1. Mapping(s, Now', PML4, D, v, p)
  <2> DEFINE PDP == Descend(s, PML4, Index(v, 3))
             PD == Descend(PDP.state, PDP.table, Index(v, 2))
             PT == Descend(PD.state, PD.table, Index(v, 1))
             x == [PT.state EXCEPT !.memory[PT.table][Index(v, 0)] = To(p)]
  <2>1. Become(x)
    BY DEF MapMemory
  <2>2. Mapping(s, x, PML4, D, v, p)
    BY Maps
  <2> HIDE DEF x
  <2>3. x \in States
    BY <2>2 DEF Mapping, Kept
  <2>4. x = Now'
    BY <2>1, <2>3 DEF States, Now, Become
  <2> QED BY <2>2, <2>4
<1>2. /\ Now' \in States /\ TreeOK(Now', PML4, D)
      /\ \A u \in VirtualPages \ {v} :
            Found(Now'.memory, PML4, u) = Found(memory, PML4, u)
      /\ Found(Now'.memory, PML4, v) = {p}
      /\ Now'.free \subseteq s.free
      /\ \A f \in Frames \ (s.free \cup AllTables(s.memory, PML4)) :
            Now'.memory[f] = s.memory[f]
  BY <1>1 DEF Mapping, Kept
<1>3. Now'.memory = memory' /\ Now'.free = free'
  BY DEF Now
<1>4. Budget(Now', PML4, D)
  BY <1>1, KeptBudget DEF Mapping
<1>5. \A u \in VirtualPages : Translations(u) = Found(memory, PML4, u)
  BY WalkIsFound DEF WalkFinds, SpaceInv
<1>6. ASSUME NEW u \in VirtualPages
      PROVE  Translations(u)' = Found(memory', PML4, u)
  <2>1. WalkFinds'
    BY WalkIsFound, PTL
  <2>2. (\E C : TreeOK(Now, PML4, C))'
    BY <1>2
  <2>3. Translations(u)' = Found(memory', PML4', u)
    BY <2>1, <2>2 DEF WalkFinds
  <2> QED BY <2>3
<1>7. \A f \in Frames \ (free \cup AllTables(memory, PML4)) : memory'[f] = memory[f]
  BY <1>2, <1>3
<1>8. free' \subseteq free
  BY <1>2, <1>3
<1>9. Translations(v)' = {p}
  BY <1>0, <1>2, <1>3, <1>6
<1>10. \A u \in VirtualPages \ {v} : Translations(u)' = Translations(u)
  BY <1>2, <1>3, <1>5, <1>6
<1> QED BY <1>2, <1>4, <1>7, <1>8, <1>9, <1>10 DEF Mapped1

-----------------------------------------------------------------------------
LEMMA HeapUntouched ==
    ASSUME \A u \in HeapPages : Translations(u)' = Translations(u)
    PROVE  MappedHeap' = MappedHeap
PROOF BY DEF MappedHeap

LEMMA InitInv == Init => SpaceInv
PROOF
<1> SUFFICES ASSUME Init PROVE SpaceInv
  OBVIOUS
<1>1. Cleared \in [Slots -> Entry] /\ Leftover \in [Slots -> Entry]
  BY AddressAssumption DEF AddressAssumption, Cleared, Entry
<1>2. Now \in States /\ free \subseteq Frames \ {NULL} /\ free \in FreeAtBoot
  <2>1. free \subseteq Frames \ {NULL}
    BY SizeAssumption DEF Init, SizeAssumption, Frames, NULL
  <2>2. memory \in Memories
    BY <1>1 DEF Init, Memories
  <2> QED BY <2>1, <2>2 DEF Now, States, Init
<1>3. PML4 \in Frames
  BY SizeAssumption DEF Init, SizeAssumption, Frames, NULL
<1>4. \A v \in VirtualPages : Translations(v) = {}
  BY WalkIsFound DEF WalkFinds, Init
<1>5. next \in 0 .. Len(BootPages) /\ \A k \in 1 .. next : FALSE
  BY BootPagesType DEF Init
<1>6. paging \in BOOLEAN /\ paging = FALSE /\ data = {} /\ PML4 = NULL /\ next = 0
  BY Zenon DEF Init
<1>7. Cardinality(data) = Cardinality(MappedHeap)
  BY <1>4, <1>6, Pages DEF MappedHeap
<1> QED BY <1>2, <1>3, <1>4, <1>5, <1>6, <1>7, Pages DEF SpaceInv

\* The root alone: a tree in which no page is found.
RootAlone(s, n) ==
    /\ TreeOK(s, n, {}) /\ OnWays(s.memory, n) /\ AllTables(s.memory, n) = {n}
    /\ \A v \in VirtualPages : Found(s.memory, n, v) = {}
LEMMA RootIsTree ==
    ASSUME NEW s \in States, s.free \subseteq Frames \ {NULL},
           NEW n \in Frames \ {NULL}, n \notin s.free,
           \A i \in Slots : ~s.memory[n][i].present
    PROVE  RootAlone(s, n)
PROOF
<1>1. /\ L2(s.memory, n) = {} /\ L1(s.memory, n) = {} /\ L0(s.memory, n) = {}
      /\ \A i \in Slots : Move(s.memory, {n}, i) = {}
  BY DEF L2, L1, L0, Kids, Move
<1>2. UpperTables(s.memory, n) = {n} /\ AllTables(s.memory, n) = {n}
  BY <1>1 DEF UpperTables, AllTables
<1>3. ASSUME NEW t \in UpperTables(s.memory, n), NEW i \in Slots
      PROVE  ~s.memory[t][i].present
  BY <1>2
<1>4. TreeOK(s, n, {})
  <2>1. s.memory \in Memories
    BY DEF States
  <2>2. {n} \subseteq Frames \ ({NULL} \cup s.free \cup {})
    OBVIOUS
  <2> QED BY <1>1, <1>2, <1>3, <2>1, <2>2 DEF TreeOK
<1>5. ASSUME NEW v \in VirtualPages PROVE Found(s.memory, n, v) = {}
  <2>1. Index(v, 3) \in Slots
    BY IndexInTable
  <2>2. W2(s.memory, n, v) = {}
    BY <1>1, <2>1 DEF W2
  <2>3. \A i : Move(s.memory, {}, i) = {}
    BY DEF Move
  <2> QED BY <2>2, <2>3 DEF Found, W0, W1
<1>6. OnWays(s.memory, n)
  BY <1>1 DEF OnWays
<1> QED BY <1>2, <1>4, <1>5, <1>6 DEF RootAlone

\* There is a frame for the root.
LEMMA FrameForRoot ==
    ASSUME EnoughFrames, SpaceInv, PML4 = NULL
    PROVE  Requested(Now) \in free /\ Now.free = free /\ free \in FreeAtBoot
PROOF
<1>1. free \in FreeAtBoot /\ free \subseteq Frames /\ Now.free = free
  BY DEF SpaceInv, Now
<1>2. free # {}
  <2>1. /\ Cardinality(Prefixes(3)) \in Nat /\ Cardinality(Prefixes(2)) \in Nat
        /\ Cardinality(Prefixes(1)) \in Nat /\ Cardinality(HeapPages) \in Nat
    BY PrefixesFinite, FS_CardinalityType
  <2>2. Cardinality(free) >= 1 + Cardinality(Prefixes(3)) + Cardinality(Prefixes(2))
                               + Cardinality(Prefixes(1)) + Cardinality(HeapPages)
    BY <1>1 DEF EnoughFrames
  <2>3. Cardinality({}) = 0
    BY FS_EmptySet
  <2> QED BY <2>1, <2>2, <2>3
<1>3. Now.free \subseteq Nat
  BY <1>1, Pages
<1> QED BY <1>1, <1>2, <1>3, RequestedIsFree

LEMMA RequestRootInv ==
    ASSUME EnoughFrames, SpaceInv, RequestRoot
    PROVE  SpaceInv' /\ \A v \in VirtualPages : Translations(v)' = {}
PROOF
<1> DEFINE n == Requested(Now)
           s == NewTable(Now)
<1>1. /\ Now \in States /\ free \subseteq Frames \ {NULL}
      /\ PML4 = NULL /\ next = 0 /\ data = {} /\ paging = FALSE
  BY DEF SpaceInv, RequestRoot
<1>2. Now = [free |-> free, memory |-> memory] /\ memory \in Memories
  BY <1>1 DEF Now, States
<1>3. /\ free' = s.free /\ memory' = s.memory /\ PML4' = n
      /\ next' = 0 /\ paging' = FALSE /\ data' = {}
  BY <1>1 DEF RequestRoot, Become
<1>4. n \in free /\ free \in FreeAtBoot
  BY <1>1, FrameForRoot
<1> HIDE DEF n
<1>5. Cleared \in [Slots -> Entry]
  BY DEF Cleared, Entry
<1>6. s.free = free \ {n} /\ s.memory = [memory EXCEPT ![n] = Cleared]
  BY <1>2 DEF NewTable, Taken, n
<1> HIDE DEF s
<1>7. /\ free' = free \ {n} /\ memory' = [memory EXCEPT ![n] = Cleared]
      /\ memory' \in Memories
  BY <1>1, <1>2, <1>3, <1>4, <1>5, <1>6 DEF Memories
<1>8. Now' \in States /\ Now'.free = free' /\ Now'.memory = memory'
  BY <1>1, <1>7 DEF Now, States
<1>9. \A i \in Slots : ~memory'[n][i].present
  BY <1>1, <1>2, <1>4, <1>7 DEF Memories, Cleared
<1>10. free' \subseteq Frames \ {NULL} /\ n \in Frames /\ n # NULL
  BY <1>1, <1>4, <1>7
<1>11. RootAlone(Now', n)
  <2>1. n \notin free'
    BY <1>7
  <2> QED BY <1>8, <1>9, <1>10, <2>1, RootIsTree
<1>12. \A v \in VirtualPages : Translations(v)' = {}
  <2>1. WalkFinds'
    BY WalkIsFound, PTL
  <2>2. (\E D : TreeOK(Now, PML4, D))'
    BY <1>3, <1>11 DEF RootAlone
  <2>3. ASSUME NEW v \in VirtualPages PROVE Translations(v)' = Found(memory', n, v)
    BY <1>3, <1>10, <2>1, <2>2 DEF WalkFinds
  <2> QED BY <1>8, <1>11, <2>3 DEF RootAlone
<1>13. TreeOK(Now', PML4', data') /\ Budget(Now', PML4', data')
  <2>1. free = Now'.free \cup AllTables(Now'.memory, n) \cup {}
    BY <1>4, <1>7, <1>8, <1>11 DEF RootAlone
  <2>2. IsFiniteSet({}) /\ Cardinality({}) <= Cardinality(HeapPages)
    BY FS_EmptySet, FS_CardinalityType, PrefixesFinite
  <2>3. Budget(Now', n, {})
    BY <1>4, <1>11, <2>1, <2>2 DEF Budget, RootAlone
  <2> QED BY <1>3, <1>11, <2>3 DEF RootAlone
<1>14. next' \in 0 .. Len(BootPages) /\ \A k \in 1 .. next' : FALSE
  BY <1>3, BootPagesType
<1>15. \A v \in HeapPages : Translations(v)' = {}
  BY <1>12, Pages
<1>16. paging' \in BOOLEAN
  BY <1>3, Zenon
<1>17. Cardinality(data') = Cardinality(MappedHeap')
  BY <1>3, <1>15 DEF MappedHeap
<1>18. SpaceInv'
  BY <1>3, <1>8, <1>10, <1>13, <1>14, <1>15, <1>16, <1>17 DEF SpaceInv
<1> QED BY <1>12, <1>18

\* A page mapped to itself, by prepare_memory or for a device.
LEMMA SelfMapInv ==
    ASSUME EnoughFrames, SpaceInv, PML4 # NULL, PML4' = PML4, data' = data,
           paging' \in BOOLEAN, paging' = TRUE => next' = Len(BootPages),
           NEW v \in KnownPages \ HeapPages, MapMemory(Now, v, v),
           next' \in 0 .. Len(BootPages),
           \A k \in 1 .. next' : k \in 1 .. next \/ BootPages[k] = v
    PROVE  SpaceInv' /\ Mapped1(data, v, v)
PROOF
<1>1. v \in VirtualPages /\ v \in Nat
  BY Pages
<1>2. /\ Now \in States /\ Now.memory = memory /\ Now.free = free
      /\ TreeOK(Now, PML4, data) /\ Budget(Now, PML4, data)
  BY DEF SpaceInv, Now
<1>3. Mapped1(data, v, v)
  BY <1>1, <1>2, MapEffect
<1>4. /\ free' \subseteq free /\ Now' \in States
      /\ TreeOK(Now', PML4', data') /\ Budget(Now', PML4', data')
  BY <1>3 DEF Mapped1
<1>5. \A k \in 1 .. next' : Translations(BootPages[k])' = {BootPages[k]}
  <2> SUFFICES ASSUME NEW k \in 1 .. next'
               PROVE  Translations(BootPages[k])' = {BootPages[k]}
    OBVIOUS
  <2>1. CASE BootPages[k] = v
    BY <1>3, <2>1 DEF Mapped1
  <2>2. CASE BootPages[k] # v
    <3>1. k \in 1 .. next /\ k \in 1 .. Len(BootPages)
      BY <2>2, BootPagesType
    <3>2. Translations(BootPages[k]) = {BootPages[k]} /\ BootPages[k] \in VirtualPages
      BY <3>1, BootPagesType DEF SpaceInv
    <3> QED BY <1>3, <2>2, <3>2 DEF Mapped1
  <2> QED BY <2>1, <2>2
<1>6. \A u \in HeapPages : Translations(u)' = Translations(u)
  BY <1>3, Pages DEF Mapped1
<1>7. free' \subseteq Frames \ {NULL} /\ data' \subseteq Frames \ (free' \cup {NULL})
  BY <1>4 DEF SpaceInv
<1>8. /\ \A u \in HeapPages : Translations(u)' \subseteq data'
      /\ \A u, w \in HeapPages : u # w => Translations(u)' \cap Translations(w)' = {}
  BY <1>6 DEF SpaceInv
<1>9. Cardinality(data') = Cardinality(MappedHeap')
  BY <1>6, HeapUntouched DEF SpaceInv
<1>10. PML4' \in Frames /\ PML4' # NULL
  BY DEF SpaceInv
<1>11. SpaceInv'
  BY <1>4, <1>5, <1>7, <1>8, <1>9, <1>10 DEF SpaceInv
<1> QED BY <1>3, <1>11

LEMMA MapBootPageInv ==
    ASSUME EnoughFrames, SpaceInv, MapBootPage
    PROVE  SpaceInv' /\ PML4 # NULL /\ \E v \in VirtualPages : Mapped1(data, v, v)
PROOF
<1>1. /\ PML4 # NULL /\ next < Len(BootPages)
      /\ MapMemory(Now, BootPages[next + 1], BootPages[next + 1])
      /\ next' = next + 1 /\ PML4' = PML4 /\ data' = data /\ paging' = paging
  BY DEF MapBootPage
<1>2. next \in Nat /\ Len(BootPages) \in Nat /\ next + 1 \in 1 .. Len(BootPages)
  BY <1>1, BootPagesType DEF SpaceInv
<1>3. PICK v \in KnownPages \ HeapPages : v = BootPages[next + 1]
  BY <1>2, BootPagesType
<1>4. ~(paging = TRUE)
  BY <1>1, <1>2 DEF SpaceInv
<1>5. paging' \in BOOLEAN /\ (paging' = TRUE => next' = Len(BootPages))
  BY <1>1, <1>4, Zenon DEF SpaceInv
<1>6. \A k \in 1 .. next' : k \in 1 .. next \/ BootPages[k] = v
  BY <1>1, <1>2, <1>3
<1>7. next' \in 0 .. Len(BootPages) /\ MapMemory(Now, v, v)
  BY <1>1, <1>2, <1>3
<1>8. SpaceInv' /\ Mapped1(data, v, v)
  BY <1>1, <1>5, <1>6, <1>7, SelfMapInv
<1> QED BY <1>1, <1>8, Pages

LEMMA MapDevicePageInv ==
    ASSUME EnoughFrames, SpaceInv, NEW v \in DevicePages, MapDevicePage(v)
    PROVE  SpaceInv' /\ PML4 # NULL /\ \E u \in VirtualPages : Mapped1(data, u, u)
PROOF
<1>1. /\ paging /\ MapMemory(Now, v, v)
      /\ next' = next /\ PML4' = PML4 /\ data' = data
  BY DEF MapDevicePage
<1>2. paging = TRUE /\ PML4 # NULL
  BY <1>1, Zenon DEF SpaceInv
<1>3. next' = Len(BootPages) /\ next' \in 0 .. Len(BootPages) /\ next' = next
  BY <1>1, <1>2 DEF SpaceInv
<1>4. paging' \in BOOLEAN
  BY Zenon DEF MapDevicePage, SpaceInv
<1>5. v \in KnownPages \ HeapPages
  BY Pages
<1>6. SpaceInv' /\ Mapped1(data, v, v)
  BY <1>1, <1>2, <1>3, <1>4, <1>5, SelfMapInv
<1> QED BY <1>2, <1>5, <1>6, Pages

\* The page a heap page gets: a frame that is neither free nor a table.
LEMMA FrameForHeap ==
    ASSUME EnoughFrames, SpaceInv, PML4 # NULL, NEW v \in HeapPages, Translations(v) = {}
    PROVE  LET n == Requested(Now)
               s == Taken(Now)
           IN  /\ n \in free /\ n \in Nat /\ n \in VirtualPages
               /\ s \in States /\ s.memory = memory /\ s.free = free \ {n}
               /\ TreeOK(s, PML4, data \cup {n}) /\ Budget(s, PML4, data \cup {n})
               /\ Cardinality(data \cup {n}) = Cardinality(MappedHeap \cup {v})
PROOF
<1> DEFINE n == Requested(Now)
           s == Taken(Now)
           C == data \cup {n}
<1>1. /\ Now \in States /\ Now = [free |-> free, memory |-> memory]
      /\ Now.free = free /\ Now.memory = memory
      /\ TreeOK(Now, PML4, data) /\ Budget(Now, PML4, data)
      /\ free \subseteq Frames \ {NULL} /\ Frames \subseteq Nat /\ data \cap free = {}
  BY Pages DEF SpaceInv, Now
<1>2. /\ IsFiniteSet(data) /\ IsFiniteSet(MappedHeap) /\ IsFiniteSet(HeapPages)
      /\ Cardinality(data) \in Nat /\ Cardinality(MappedHeap) \in Nat
      /\ Cardinality(HeapPages) \in Nat
      /\ Cardinality(data) = Cardinality(MappedHeap)
      /\ Cardinality(MappedHeap \cup {v}) = Cardinality(MappedHeap) + 1
      /\ Cardinality(MappedHeap \cup {v}) <= Cardinality(HeapPages)
  <2>1. IsFiniteSet(HeapPages) /\ MappedHeap \subseteq HeapPages /\ v \notin MappedHeap
    BY PrefixesFinite DEF MappedHeap
  <2>2. IsFiniteSet(MappedHeap) /\ MappedHeap \cup {v} \in SUBSET HeapPages
    BY <2>1, FS_Subset
  <2>3. Cardinality(MappedHeap \cup {v}) <= Cardinality(HeapPages)
    BY <2>1, <2>2, FS_Subset
  <2>4. Cardinality(MappedHeap \cup {v}) = Cardinality(MappedHeap) + 1
    BY <2>1, <2>2, FS_AddElement
  <2>5. IsFiniteSet(data)
    BY <1>1 DEF Budget
  <2> QED BY <2>1, <2>2, <2>3, <2>4, <2>5, FS_CardinalityType DEF SpaceInv
<1>3. n \in free
  <2>1. Cardinality(data) < Cardinality(HeapPages)
    BY <1>2
  <2>2. Now.free # {}
    BY <1>1, <2>1, FrameLeft, Pages
  <2>3. Now.free \subseteq Nat
    BY <1>1
  <2> QED BY <1>1, <2>2, <2>3, RequestedIsFree
<1>4. s = [free |-> free \ {n}, memory |-> memory]
  BY <1>1 DEF Taken
<1> HIDE DEF s, n
<1>5. s \in States /\ s.memory = memory /\ s.free = free \ {n}
  BY <1>1, <1>4 DEF States
<1>6. TreeOK(s, PML4, C)
  <2>1. /\ AllTables(memory, PML4) \subseteq Frames \ ({NULL} \cup free \cup data)
        /\ data \cap free = {}
    BY <1>1 DEF TreeOK
  <2>2. /\ s.free \subseteq Frames \ {NULL}
        /\ AllTables(memory, PML4) \subseteq Frames \ ({NULL} \cup s.free \cup C)
        /\ C \cap s.free = {}
    BY <1>1, <1>3, <1>5, <2>1
  <2> HIDE DEF C
  <2> QED BY <1>1, <1>5, <2>2 DEF TreeOK
<1>7. IsFiniteSet(C) /\ Cardinality(C) = Cardinality(data) + 1
  <2>1. n \notin data
    BY <1>1, <1>3
  <2> QED BY <1>2, <2>1, FS_AddElement
<1>8. Budget(s, PML4, C)
  <2>1. PICK F \in FreeAtBoot : F = free \cup AllTables(memory, PML4) \cup data
    BY <1>1 DEF Budget
  <2>2. F = s.free \cup AllTables(s.memory, PML4) \cup C
    BY <1>3, <1>5, <2>1
  <2>3. OnWays(s.memory, PML4)
    BY <1>1, <1>5 DEF Budget
  <2>4. Cardinality(C) <= Cardinality(HeapPages)
    BY <1>2, <1>7
  <2> HIDE DEF C
  <2> QED BY <1>7, <2>2, <2>3, <2>4 DEF Budget
<1> QED BY <1>1, <1>2, <1>3, <1>5, <1>6, <1>7, <1>8, Pages DEF s, n

LEMMA MapHeapPageInv ==
    ASSUME EnoughFrames, SpaceInv, NEW v \in HeapPages, MapHeapPage(v)
    PROVE  /\ SpaceInv' /\ PML4 # NULL
           /\ \E n \in free : Mapped1(data \cup {n}, v, n)
PROOF
<1>1. /\ paging /\ Translations(v) = {}
      /\ MapMemory(Taken(Now), v, Requested(Now))
      /\ data' = data \cup ({Requested(Now)} \ {NULL})
      /\ next' = next /\ PML4' = PML4
  BY DEF MapHeapPage
<1>2. paging = TRUE /\ PML4 # NULL
  BY <1>1, Zenon DEF SpaceInv
<1>3. PICK n \in free : n = Requested(Now)
  BY <1>1, <1>2, FrameForHeap
<1>4. PICK s \in States : s = Taken(Now)
  BY <1>1, <1>2, FrameForHeap
<1>5. /\ n \in Nat /\ s.memory = memory /\ s.free = free \ {n}
      /\ TreeOK(s, PML4, data \cup {n}) /\ Budget(s, PML4, data \cup {n})
      /\ Cardinality(data \cup {n}) = Cardinality(MappedHeap \cup {v})
  BY <1>1, <1>2, <1>3, <1>4, FrameForHeap
<1>6. n \in Frames /\ n # NULL /\ data' = data \cup {n}
  BY <1>1, <1>3 DEF SpaceInv
<1>7. v \in KnownPages /\ MapMemory(s, v, n)
  BY <1>1, <1>3, <1>4, Pages
<1>8. Mapped1(data \cup {n}, v, n)
  BY <1>1, <1>2, <1>5, <1>7, MapEffect
<1>9. Now' \in States /\ free' \subseteq free
  BY <1>8 DEF Mapped1
<1>10. free' \subseteq Frames \ {NULL} /\ free' \cap (data \cup {n}) = {}
  <2>1. TreeOK(Now', PML4, data \cup {n})
    BY <1>8 DEF Mapped1
  <2>2. (data \cup {n}) \cap Now'.free = {} /\ Now'.free = free'
    BY <2>1 DEF TreeOK, Now
  <2> QED BY <1>9, <2>2 DEF SpaceInv
<1>11. data' \subseteq Frames \ (free' \cup {NULL})
  BY <1>6, <1>10 DEF SpaceInv
<1>12. /\ PML4' \in Frames /\ PML4' # NULL
       /\ TreeOK(Now', PML4', data') /\ Budget(Now', PML4', data')
  BY <1>1, <1>2, <1>6, <1>8 DEF SpaceInv, Mapped1
<1>13. next = Len(BootPages) /\ next' = next /\ next' \in 0 .. Len(BootPages)
  BY <1>1, <1>2 DEF SpaceInv
<1>14. \A k \in 1 .. next' : Translations(BootPages[k])' = {BootPages[k]}
  <2> SUFFICES ASSUME NEW k \in 1 .. next'
               PROVE  Translations(BootPages[k])' = {BootPages[k]}
    OBVIOUS
  <2>1. /\ Translations(BootPages[k]) = {BootPages[k]}
        /\ BootPages[k] \in VirtualPages /\ BootPages[k] # v
    <3>1. k \in 1 .. next /\ k \in 1 .. Len(BootPages)
      BY <1>13
    <3>2. BootPages[k] \in VirtualPages /\ BootPages[k] \notin HeapPages
      BY <3>1, BootPagesType
    <3> QED BY <3>1, <3>2 DEF SpaceInv
  <2> QED BY <1>8, <2>1 DEF Mapped1
<1>15. /\ Translations(v)' = {n}
       /\ \A u \in HeapPages \ {v} : Translations(u)' = Translations(u)
  BY <1>8, Pages DEF Mapped1
<1>16. \A u \in HeapPages : Translations(u)' \subseteq data'
  BY <1>6, <1>15 DEF SpaceInv
<1>17. \A u, w \in HeapPages : u # w => Translations(u)' \cap Translations(w)' = {}
  <2>1. \A u \in HeapPages : n \notin Translations(u)
    BY <1>3 DEF SpaceInv
  <2>2. \A u, w \in HeapPages : u # w => Translations(u) \cap Translations(w) = {}
    BY DEF SpaceInv
  <2> QED BY <1>15, <2>1, <2>2
<1>18. paging' \in BOOLEAN
  BY <1>2, Zenon DEF MapHeapPage
<1>19. Cardinality(data') = Cardinality(MappedHeap')
  <2>1. MappedHeap' = MappedHeap \cup {v}
    BY <1>15 DEF MappedHeap
  <2> QED BY <1>5, <1>6, <2>1
<1>20. SpaceInv'
  BY <1>9, <1>10, <1>11, <1>12, <1>13, <1>14, <1>16, <1>17, <1>18, <1>19 DEF SpaceInv
<1> QED BY <1>2, <1>8, <1>20

LEMMA NoStepInv ==
    ASSUME SpaceInv,
           free' = free /\ memory' = memory /\ PML4' = PML4 /\ next' = next /\ data' = data,
           paging' \in BOOLEAN, paging' = TRUE => PML4 # NULL /\ next = Len(BootPages)
    PROVE  SpaceInv'
PROOF
<1>1. Now' = Now
  BY DEF Now
<1>2. \A v : Translations(v)' = Translations(v)
  BY DEF Translations, Step
<1>3. PML4' = NULL => next' = 0 /\ data' = {} /\ paging' = FALSE
  <2>1. paging' = TRUE \/ paging' = FALSE
    BY Zenon
  <2> QED BY <2>1 DEF SpaceInv
<1>4. Cardinality(data') = Cardinality(MappedHeap')
  BY <1>2, HeapUntouched DEF SpaceInv
<1> QED BY <1>1, <1>2, <1>3, <1>4 DEF SpaceInv

LEMMA StepInv ==
    ASSUME EnoughFrames
    PROVE  SpaceInv /\ [Next]_vars => SpaceInv'
PROOF
<1> SUFFICES ASSUME SpaceInv, [Next]_vars PROVE SpaceInv'
  OBVIOUS
<1>1. CASE RequestRoot
  BY <1>1, RequestRootInv
<1>2. CASE MapBootPage
  BY <1>2, MapBootPageInv
<1>3. CASE LoadCR3
  <2>1. /\ free' = free /\ memory' = memory /\ PML4' = PML4 /\ next' = next /\ data' = data
        /\ PML4 # NULL /\ next = Len(BootPages)
    BY <1>3 DEF LoadCR3
  <2>2. paging' \in BOOLEAN
    BY <1>3, Zenon DEF LoadCR3
  <2> QED BY <2>1, <2>2, NoStepInv
<1>4. ASSUME NEW v \in HeapPages, MapHeapPage(v) PROVE SpaceInv'
  BY <1>4, MapHeapPageInv
<1>5. ASSUME NEW v \in DevicePages, MapDevicePage(v) PROVE SpaceInv'
  BY <1>5, MapDevicePageInv
<1>6. CASE UNCHANGED vars
  <2>1. /\ free' = free /\ memory' = memory /\ PML4' = PML4 /\ next' = next /\ data' = data
        /\ paging' = paging
    BY <1>6 DEF vars
  <2>2. paging' \in BOOLEAN
    BY <2>1, Zenon DEF SpaceInv
  <2>3. paging' = TRUE => PML4 # NULL /\ next = Len(BootPages)
    <3>1. paging = TRUE => PML4 # NULL /\ next = Len(BootPages)
      <4>1. ~(FALSE = TRUE)
        OBVIOUS
      <4> QED BY <4>1, Zenon DEF SpaceInv
    <3> QED BY <2>1, <3>1, Zenon
  <2> QED BY <2>1, <2>2, <2>3, NoStepInv
<1> QED BY <1>1, <1>2, <1>3, <1>4, <1>5, <1>6 DEF Next

LEMMA Invariant ==
    ASSUME EnoughFrames
    PROVE  Spec => []SpaceInv
PROOF
<1>1. Init => SpaceInv
  BY InitInv
<1>2. SpaceInv /\ [Next]_vars => SpaceInv'
  BY StepInv
<1> QED BY <1>1, <1>2, PTL DEF Spec

-----------------------------------------------------------------------------
\* The same tables as PageTables.tla counts them.
LEMMA TablesAre ==
    ASSUME SpaceInv
    PROVE  /\ PML4 = NULL => Tables = {} /\ Links = {}
           /\ PML4 # NULL => /\ Tables = AllTables(memory, PML4)
                             /\ Upper = UpperTables(memory, PML4)
                             /\ Children(Upper) = L2(memory, PML4) \cup L1(memory, PML4)
                                                     \cup L0(memory, PML4)
PROOF
<1>1. CASE PML4 = NULL
  <2>1. Children({}) = {} /\ LinksOf({}) = {}
    BY DEF Children, LinksOf
  <2>2. Upper = {}
    BY <1>1, <2>1 DEF Upper
  <2> QED BY <1>1, <2>1, <2>2 DEF Tables, Links
<1>2. CASE PML4 # NULL
  <2> DEFINE A2 == L2(memory, PML4)
             A1 == L1(memory, PML4)
             A0 == L0(memory, PML4)
  <2>1. /\ memory \in Memories /\ PML4 \in Frames
        /\ AllTables(memory, PML4) \subseteq Frames
    BY <1>2 DEF SpaceInv, TreeOK, Now
  <2>2. ASSUME NEW T \in SUBSET Frames PROVE Children(T) = Kids(memory, T)
    <3>1. \A t \in T, i \in Slots : memory[t][i].frame \in Nat
      BY <2>1 DEF Memories, Entry
    <3>2. ASSUME NEW u \in Children(T) PROVE u \in Kids(memory, T)
      <4>1. PICK e \in LinksOf(T) : u = memory[e[1]][e[2]].frame
        BY DEF Children
      <4>2. e[1] \in T /\ e[2] \in Slots /\ memory[e[1]][e[2]].present
        BY DEF LinksOf
      <4> QED BY <3>1, <4>1, <4>2 DEF Kids
    <3>3. ASSUME NEW u \in Kids(memory, T) PROVE u \in Children(T)
      <4>1. PICK t \in T, i \in Slots : memory[t][i].present /\ memory[t][i].frame = u
        BY DEF Kids
      <4>2. <<t, i>> \in LinksOf(T)
        BY <4>1 DEF LinksOf
      <4> QED BY <4>1, <4>2 DEF Children
    <3> QED BY <3>2, <3>3
  <2>3. {PML4} \subseteq Frames /\ A2 \subseteq Frames /\ A1 \subseteq Frames
    BY <2>1 DEF AllTables, UpperTables
  <2>4. Children({PML4}) = A2 /\ Children(A2) = A1 /\ Children(A1) = A0
    BY <2>2, <2>3 DEF L2, L1, L0
  <2>5. Upper = {PML4} \cup A2 \cup A1
    <3>1. {PML4} \ {NULL} = {PML4}
      BY <1>2
    <3> QED BY <2>4, <3>1 DEF Upper
  <2>6. Upper = UpperTables(memory, PML4)
    BY <2>5 DEF UpperTables
  <2>7. Children(Upper) = A2 \cup A1 \cup A0
    <3>1. Children(Upper) = Kids(memory, Upper)
      BY <2>2, <2>3, <2>5
    <3>2. \A S, T : Kids(memory, S \cup T) = Kids(memory, S) \cup Kids(memory, T)
      BY DEF Kids
    <3>3. A2 = Kids(memory, {PML4}) /\ A1 = Kids(memory, A2) /\ A0 = Kids(memory, A1)
      BY DEF L2, L1, L0
    <3> HIDE DEF A2, A1, A0
    <3>4. Kids(memory, Upper) = Kids(memory, {PML4} \cup A2) \cup Kids(memory, A1)
      BY <2>5, <3>2
    <3>5. Kids(memory, {PML4} \cup A2) = Kids(memory, {PML4}) \cup Kids(memory, A2)
      BY <3>2
    <3> QED BY <3>1, <3>3, <3>4, <3>5
  <2>8. Tables = AllTables(memory, PML4)
    BY <2>6, <2>7 DEF Tables, AllTables, UpperTables
  <2> QED BY <1>2, <2>6, <2>7, <2>8
<1> QED BY <1>1, <1>2

LEMMA LinksApart ==
    ASSUME SpaceInv, PML4 # NULL,
           NEW t \in Upper, NEW u \in Upper, NEW i \in Slots, NEW j \in Slots,
           memory[t][i].present, memory[u][j].present,
           memory[t][i].frame = memory[u][j].frame
    PROVE  t = u /\ i = j
PROOF
<1>1. TreeOK(Now, PML4, data) /\ Upper = UpperTables(memory, PML4)
  BY TablesAre DEF SpaceInv
<1>2. Now.memory = memory
  BY DEF Now
<1> QED BY <1>1, <1>2 DEF TreeOK

\* A tree has one link less than tables.
LEMMA TreeCounts ==
    ASSUME SpaceInv
    PROVE  Cardinality(Tables) = Cardinality(Links) + (IF PML4 = NULL THEN 0 ELSE 1)
PROOF
<1>1. CASE PML4 = NULL
  BY <1>1, TablesAre, FS_EmptySet
<1>2. CASE PML4 # NULL
  <2> DEFINE C == Children(Upper)
             L == Links
             f == [e \in L |-> memory[e[1]][e[2]].frame]
  <2>1. TreeOK(Now, PML4, data) /\ Upper = UpperTables(memory, PML4)
        /\ C = L2(memory, PML4) \cup L1(memory, PML4) \cup L0(memory, PML4)
        /\ Tables = C \cup {PML4}
    BY <1>2, TablesAre DEF SpaceInv, AllTables, UpperTables
  <2>2. PML4 \notin C
    BY <2>1 DEF TreeOK, Now
  <2>3. IsFiniteSet(L)
    <3>1. IsFiniteSet(Frames) /\ IsFiniteSet(Slots)
      BY SizeAssumption, FS_Interval DEF SizeAssumption, Frames, Slots
    <3>2. IsFiniteSet(Frames \X Slots)
      BY <3>1, FS_Product
    <3>3. L \subseteq Frames \X Slots
      BY DEF Links, LinksOf
    <3> QED BY <3>2, <3>3, FS_Subset
  <2>4. ExistsBijection(L, C)
    <3>1. f \in [L -> C] /\ \A c \in C : \E e \in L : f[e] = c
      BY DEF Children, Links
    <3>2. \A d, e \in L : f[d] = f[e] => d = e
      <4> SUFFICES ASSUME NEW d \in L, NEW e \in L, f[d] = f[e] PROVE d = e
        OBVIOUS
      <4>1. /\ d[1] \in Upper /\ d[2] \in Slots /\ memory[d[1]][d[2]].present
            /\ e[1] \in Upper /\ e[2] \in Slots /\ memory[e[1]][e[2]].present
            /\ d = <<d[1], d[2]>> /\ e = <<e[1], e[2]>>
        BY DEF Links, LinksOf
      <4>2. memory[d[1]][d[2]].frame = memory[e[1]][e[2]].frame
        OBVIOUS
      <4>3. d[1] = e[1] /\ d[2] = e[2]
        BY <1>2, <4>1, <4>2, LinksApart
      <4> QED BY <4>1, <4>3
    <3> HIDE DEF f
    <3>3. f \in Bijection(L, C)
      <4>1. DOMAIN f = L
        BY <3>1
      <4> QED BY <3>1, <3>2, <4>1 DEF Bijection, Injection, Surjection, IsInjective
    <3> QED BY <3>3 DEF ExistsBijection
  <2> HIDE DEF C, L
  <2>5. IsFiniteSet(C) /\ Cardinality(C) = Cardinality(L) /\ Cardinality(L) \in Nat
    BY <2>3, <2>4, FS_Bijection, FS_CardinalityType
  <2>6. Cardinality(Tables) = Cardinality(C) + 1
    BY <2>1, <2>2, <2>5, FS_AddElement
  <2> QED BY <1>2, <2>5, <2>6 DEF L
<1> QED BY <1>1, <1>2

-----------------------------------------------------------------------------
LEMMA SafetyFromInv ==
    ASSUME SpaceInv
    PROVE  TypeOK /\ TablesOwnFrames /\ MemoryMappedToItself /\ HeapFramesDistinct
PROOF
<1>1. TypeOK
  <2>1. memory \in [Frames -> [Slots -> Entry]]
    BY DEF SpaceInv, Now, States, Memories
  <2>2. /\ free \subseteq Frames \ {NULL} /\ PML4 \in Frames /\ next \in 0 .. Len(BootPages)
        /\ paging \in BOOLEAN /\ data \subseteq Frames \ free
    BY DEF SpaceInv
  <2> QED BY <2>1, <2>2 DEF TypeOK
<1>2. TablesOwnFrames
  <2>1. CASE PML4 = NULL
    BY <2>1, TablesAre, TreeCounts DEF TablesOwnFrames
  <2>2. CASE PML4 # NULL
    <3>1. /\ AllTables(Now.memory, PML4) \subseteq Frames \ ({NULL} \cup Now.free \cup data)
          /\ Now.memory = memory /\ Now.free = free
      BY <2>2 DEF SpaceInv, TreeOK, Now
    <3> QED BY <2>2, <3>1, TablesAre, TreeCounts DEF TablesOwnFrames
  <2> QED BY <2>1, <2>2
<1>3. MemoryMappedToItself
  <2> SUFFICES ASSUME paging, NEW f \in Frames PROVE Translations(f) = {f}
    BY DEF MemoryMappedToItself
  <2>1. paging = TRUE
    BY Zenon DEF SpaceInv
  <2>2. next = Len(BootPages)
    BY <2>1 DEF SpaceInv
  <2>3. f + 1 \in 1 .. next /\ BootPages[f + 1] = f
    BY <2>2, BootPagesType
  <2> QED BY <2>3 DEF SpaceInv
<1>4. HeapFramesDistinct
  <2>1. \A u \in HeapPages : Translations(u) \cap free = {}
    BY DEF SpaceInv
  <2>2. \A u, v \in HeapPages : u # v => Translations(u) \cap Translations(v) = {}
    BY DEF SpaceInv
  <2> QED BY <2>1, <2>2 DEF HeapFramesDistinct
<1> QED BY <1>1, <1>2, <1>3, <1>4

\* No step writes to a frame of a heap page or to page 0.
LEMMA DataStep ==
    ASSUME EnoughFrames, SpaceInv, [Next]_vars
    PROVE  \A f \in data \cup {NULL} : memory'[f] = memory[f]
PROOF
<1>1. data \cup {NULL} \subseteq Frames \ free
  BY SizeAssumption DEF SizeAssumption, SpaceInv, Frames, NULL
<1>2. /\ PML4 # NULL => AllTables(memory, PML4) \cap (data \cup {NULL}) = {}
      /\ PML4 = NULL => data = {}
  <2>1. Now.memory = memory
    BY DEF Now
  <2> QED BY <2>1 DEF SpaceInv, TreeOK
<1>3. ASSUME NEW D, NEW v, NEW p, PML4 # NULL, Mapped1(D, v, p)
      PROVE  \A f \in data \cup {NULL} : memory'[f] = memory[f]
  BY <1>1, <1>2, <1>3 DEF Mapped1
<1>4. CASE RequestRoot
  <2>1. /\ memory' = NewTable(Now).memory /\ Now = [free |-> free, memory |-> memory]
        /\ PML4 = NULL
    BY <1>4 DEF RequestRoot, Become, Now
  <2>2. memory' = [memory EXCEPT ![Requested(Now)] = Cleared]
    BY <2>1 DEF NewTable, Taken
  <2>3. Requested(Now) \in free
    BY <2>1, FrameForRoot
  <2>4. memory \in Memories
    BY DEF SpaceInv, Now, States
  <2> QED BY <1>1, <2>2, <2>3, <2>4 DEF Memories
<1>5. CASE MapBootPage
  BY <1>3, <1>5, MapBootPageInv
<1>6. ASSUME NEW v \in DevicePages, MapDevicePage(v)
      PROVE  \A f \in data \cup {NULL} : memory'[f] = memory[f]
  BY <1>3, <1>6, MapDevicePageInv
<1>7. ASSUME NEW v \in HeapPages, MapHeapPage(v)
      PROVE  \A f \in data \cup {NULL} : memory'[f] = memory[f]
  BY <1>3, <1>7, MapHeapPageInv
<1>8. CASE LoadCR3 \/ UNCHANGED vars
  BY <1>8 DEF LoadCR3, vars
<1> QED BY <1>4, <1>5, <1>6, <1>7, <1>8 DEF Next

-----------------------------------------------------------------------------
\* On a machine with enough memory every variable keeps its type: the
\* allocator is never asked for a frame it does not have, so none of the
\* pointers that request_page returns is NULL.
THEOREM TypeCorrect ==
    ASSUME EnoughFrames
    PROVE  Spec => []TypeOK
PROOF
<1>1. SpaceInv => TypeOK
  BY SafetyFromInv
<1>2. Spec => []SpaceInv
  BY Invariant
<1> QED BY <1>1, <1>2, PTL

\* The tables map_memory builds form a tree, and no table lies on a frame
\* that is free, that is page 0 or that was handed out for something else.
THEOREM TreeOwnsItsFrames ==
    ASSUME EnoughFrames
    PROVE  Spec => []TablesOwnFrames
PROOF
<1>1. SpaceInv => TablesOwnFrames
  BY SafetyFromInv
<1>2. Spec => []SpaceInv
  BY Invariant
<1> QED BY <1>1, <1>2, PTL

\* From the moment CR3 is loaded every page of memory is found at its
\* physical address, whatever is mapped later.
THEOREM IdentityMapStays ==
    ASSUME EnoughFrames
    PROVE  Spec => []MemoryMappedToItself
PROOF
<1>1. SpaceInv => MemoryMappedToItself
  BY SafetyFromInv
<1>2. Spec => []SpaceInv
  BY Invariant
<1> QED BY <1>1, <1>2, PTL

\* Two pages of the heap never share a frame, and none lies on a free one.
THEOREM HeapPagesApart ==
    ASSUME EnoughFrames
    PROVE  Spec => []HeapFramesDistinct
PROOF
<1>1. SpaceInv => HeapFramesDistinct
  BY SafetyFromInv
<1>2. Spec => []SpaceInv
  BY Invariant
<1> QED BY <1>1, <1>2, PTL

\* No call of map_memory, and no request for a table, writes to a frame that
\* a heap page lies on, or to page 0.
THEOREM NoDataOverwritten ==
    ASSUME EnoughFrames
    PROVE  Spec => DataSurvives
PROOF
<1>1. SpaceInv /\ [Next]_vars => [\A f \in data \cup {NULL} : memory'[f] = memory[f]]_vars
  BY DataStep
<1>2. Spec => []SpaceInv
  BY Invariant
<1> QED BY <1>1, <1>2, PTL DEF Spec, DataSurvives

-----------------------------------------------------------------------------
\* The address space that the tables stand for.
Place(T) == CHOOSE p \in T : TRUE
Bar == [v \in Mapped |-> Place(Translations(v))]

LEMMA InitRefines == Init => Bar = <<>>
PROOF
<1> SUFFICES ASSUME Init PROVE Bar = <<>>
  OBVIOUS
<1>1. \A v \in VirtualPages : Translations(v) = {}
  BY WalkIsFound DEF WalkFinds, Init
<1>2. Mapped = {}
  BY <1>1 DEF Mapped
<1>3. \A f : f = [v \in {} |-> f[v]] => f = <<>>
  OBVIOUS
<1> QED BY <1>2, <1>3 DEF Bar

MapsPoint(v) ==
    /\ DOMAIN Bar' = DOMAIN Bar \cup {v} /\ Bar'[v] \in VirtualPages
    /\ \A u \in DOMAIN Bar \ {v} : Bar'[u] = Bar[u]
LEMMA MapRefines ==
    ASSUME NEW D, NEW v \in VirtualPages, NEW p \in VirtualPages, Mapped1(D, v, p)
    PROVE  MapsPoint(v)
PROOF
<1>1. /\ Translations(v)' = {p}
      /\ \A u \in VirtualPages \ {v} : Translations(u)' = Translations(u)
  BY DEF Mapped1
<1>2. Mapped' = Mapped \cup {v}
  BY <1>1 DEF Mapped
<1>3. DOMAIN Bar' = Mapped' /\ DOMAIN Bar = Mapped
  BY DEF Bar
<1>4. Place({p}) = p
  BY DEF Place
<1>5. Bar'[v] = p
  <2>1. v \in Mapped'
    BY <1>2
  <2>2. Bar'[v] = Place(Translations(v)')
    BY <2>1 DEF Bar
  <2> QED BY <1>1, <1>4, <2>2
<1>6. ASSUME NEW u \in Mapped \ {v} PROVE Bar'[u] = Bar[u]
  <2>1. u \in Mapped' /\ u \in VirtualPages
    BY <1>2 DEF Mapped
  <2>2. Bar'[u] = Place(Translations(u)') /\ Bar[u] = Place(Translations(u))
    BY <2>1 DEF Bar
  <2> QED BY <1>1, <2>1, <2>2
<1> QED BY <1>2, <1>3, <1>5, <1>6 DEF MapsPoint

LEMMA MapIsSpaceStep ==
    ASSUME NEW D, NEW v \in VirtualPages, NEW p \in VirtualPages, Mapped1(D, v, p)
    PROVE  Space!Next
PROOF
<1>1. MapsPoint(v)
  BY MapRefines
<1>2. \A old, new :
          /\ DOMAIN new = DOMAIN old \cup {v} /\ new[v] \in VirtualPages
          /\ \A u \in DOMAIN old \ {v} : new[u] = old[u]
          => Space!Map(v, old, new)
  BY DEF Space!Map
<1>3. Space!Map(v, Bar, Bar') /\ v \in DOMAIN Bar'
  BY <1>1, <1>2 DEF MapsPoint
<1>4. \E old \in {Bar}, new \in {Bar'} : \E u \in DOMAIN new : Space!Map(u, old, new)
  BY <1>3
<1> QED BY <1>4 DEF Space!Next, Bar, Place

LEMMA StepRefines ==
    ASSUME EnoughFrames, SpaceInv, [Next]_vars
    PROVE  Space!Next \/ Bar' = Bar
PROOF
<1>1. ASSUME \A v \in VirtualPages : Translations(v)' = Translations(v)
      PROVE  Bar' = Bar
  <2>1. Mapped' = Mapped
    BY <1>1 DEF Mapped
  <2>2. \A v \in Mapped : Translations(v)' = Translations(v)
    BY <1>1 DEF Mapped
  <2> QED BY <2>1, <2>2 DEF Bar
<1>2. CASE RequestRoot
  <2>1. PML4 = NULL
    BY <1>2 DEF RequestRoot
  <2>2. \A v \in VirtualPages : Translations(v) = {}
    BY <2>1, WalkIsFound DEF WalkFinds
  <2>3. \A v \in VirtualPages : Translations(v)' = {}
    BY <1>2, RequestRootInv
  <2> QED BY <1>1, <2>2, <2>3
<1>3. CASE MapBootPage
  <2>1. PICK v \in VirtualPages : Mapped1(data, v, v)
    BY <1>3, MapBootPageInv
  <2> QED BY <2>1, MapIsSpaceStep
<1>4. ASSUME NEW v \in DevicePages, MapDevicePage(v) PROVE Space!Next
  <2>1. PICK u \in VirtualPages : Mapped1(data, u, u)
    BY <1>4, MapDevicePageInv
  <2> QED BY <2>1, MapIsSpaceStep
<1>5. ASSUME NEW v \in HeapPages, MapHeapPage(v) PROVE Space!Next
  <2>1. PICK n \in free : Mapped1(data \cup {n}, v, n)
    BY <1>5, MapHeapPageInv
  <2>2. n \in VirtualPages /\ v \in VirtualPages
    BY Pages DEF SpaceInv
  <2> QED BY <2>1, <2>2, MapIsSpaceStep
<1>6. CASE LoadCR3 \/ UNCHANGED vars
  <2>1. memory' = memory /\ PML4' = PML4
    BY <1>6 DEF LoadCR3, vars
  <2>2. \A v \in VirtualPages : Translations(v)' = Translations(v)
    BY <2>1 DEF Translations, Step
  <2> QED BY <1>1, <2>2
<1> QED BY <1>2, <1>3, <1>4, <1>5, <1>6 DEF Next

\* Seen through the MMU, the kernel only ever sets one page at a time: a call
\* of map_memory leaves every other page where it was, whichever tables it
\* had to create on the way.
THEOREM ImplementsAddressSpace ==
    ASSUME EnoughFrames
    PROVE  Spec => SpaceSpec
PROOF
<1>1. Init => Space!Init
  BY InitRefines DEF Space!Init, Bar, Place
<1>2. SpaceInv /\ [Next]_vars => [Space!Next]_Bar
  BY StepRefines
<1>3. SpaceInv /\ [Next]_vars =>
          [Space!Next]_([v \in Mapped |-> CHOOSE p \in Translations(v) : TRUE])
  BY <1>2 DEF Bar, Place
<1>4. Spec => []SpaceInv
  BY Invariant
<1> QED BY <1>1, <1>3, <1>4, PTL DEF Spec, SpaceSpec, Space!Spec
=============================================================================
