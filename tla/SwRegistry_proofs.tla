------------------------- MODULE SwRegistry_proofs -------------------------
(***************************************************************************)
(* Proofs about the boot, for every set of files, every directory and      *)
(* every size of the tables: type correctness, the inductive invariant and *)
(* with it the only two ways to overrun a table, the order of the tables,  *)
(* the implementation of SwLinks, and that each step leaves less to do.    *)
(***************************************************************************)
EXTENDS SwRegistry, SwProgress_proofs, FiniteSetTheorems, TLAPS

(* What a table holds after an append.                                     *)
LEMMA AppendEntries ==
  ASSUME NEW S, NEW seq \in Seq(S), NEW x \in S
  PROVE  /\ Append(seq, x) \in Seq(S)
         /\ Len(Append(seq, x)) = Len(seq) + 1
         /\ \A i \in 1..Len(seq) : Append(seq, x)[i] = seq[i]
         /\ Append(seq, x)[Len(seq) + 1] = x
         /\ EntriesOf(Append(seq, x)) = EntriesOf(seq) \cup {x}
<1>1. /\ Append(seq, x) \in Seq(S)
      /\ Len(Append(seq, x)) = Len(seq) + 1
      /\ \A i \in 1..Len(seq) : Append(seq, x)[i] = seq[i]
      /\ Append(seq, x)[Len(seq) + 1] = x
  OBVIOUS
<1>2. 1..(Len(seq) + 1) = 1..Len(seq) \cup {Len(seq) + 1}
  OBVIOUS
<1>3. EntriesOf(Append(seq, x)) = EntriesOf(seq) \cup {x}
  BY <1>1, <1>2 DEF EntriesOf
<1>. QED  BY <1>1, <1>3

(* The entries of a sequence are members of what it is a sequence over.    *)
LEMMA EntriesInRange ==
  ASSUME NEW S, NEW seq \in Seq(S)
  PROVE  /\ EntriesOf(seq) \subseteq S
         /\ EntriesOf(seq) = {} => Len(seq) = 0
<1>1. EntriesOf(seq) \subseteq S
  BY DEF EntriesOf
<1>2. Len(seq) # 0 => seq[1] \in EntriesOf(seq)
  BY DEF EntriesOf
<1>. QED  BY <1>1, <1>2

(* An append of something new keeps a table free of duplicates.            *)
LEMMA AppendNoDuplicates ==
  ASSUME NEW S, NEW seq \in Seq(S), NEW x \in S,
         NoDuplicates(seq), x \notin EntriesOf(seq)
  PROVE  NoDuplicates(Append(seq, x))
<1>1. \A i \in 1..Len(seq) : seq[i] # x
  BY DEF EntriesOf
<1>2. SUFFICES ASSUME NEW i \in 1..(Len(seq) + 1), NEW j \in 1..(Len(seq) + 1),
                      Append(seq, x)[i] = Append(seq, x)[j]
               PROVE  i = j
  BY AppendEntries DEF NoDuplicates
<1>3. CASE i \in 1..Len(seq) /\ j \in 1..Len(seq)
  BY <1>2, <1>3, AppendEntries DEF NoDuplicates
<1>4. CASE i = Len(seq) + 1 /\ j \in 1..Len(seq)
  BY <1>1, <1>2, <1>4, AppendEntries
<1>5. CASE j = Len(seq) + 1 /\ i \in 1..Len(seq)
  BY <1>1, <1>2, <1>5, AppendEntries
<1>6. CASE i = Len(seq) + 1 /\ j = Len(seq) + 1
  BY <1>6
<1>. QED  BY <1>3, <1>4, <1>5, <1>6

(* As many distinct things as a table without duplicates is long.          *)
LEMMA EntriesCardinality ==
  ASSUME NEW S, NEW seq \in Seq(S), NoDuplicates(seq)
  PROVE  /\ IsFiniteSet(EntriesOf(seq))
         /\ Cardinality(EntriesOf(seq)) = Len(seq)
<1>. DEFINE f == [i \in 1..Len(seq) |-> seq[i]]
<1>0. Len(seq) \in Nat
  OBVIOUS
<1>1. f \in Bijection(1..Len(seq), EntriesOf(seq))
  BY DEF Bijection, Injection, Surjection, NoDuplicates, EntriesOf, IsInjective
<1>2. ExistsBijection(1..Len(seq), EntriesOf(seq))
  BY <1>1 DEF ExistsBijection
<1>. QED  BY <1>0, <1>2, FS_NatBijection, FS_CountingElements

-----------------------------------------------------------------------------
USE DirsAssumption, FilesAssumption, MaxObjectsAssumption

(* Nothing is open, registered or linked when main() starts.               *)
LEMMA InitIInv == Init => IInv
<1>. SUFFICES ASSUME Init PROVE IInv
  OBVIOUS
<1>. USE DEF Init
<1>0. \A t \in ModTypes : mods[t] = <<>>
  OBVIOUS
<1>1. TypeOK
  <2>1. <<>> \in Seq(Files) /\ <<>> \in Seq(Modules)
    OBVIOUS
  <2>. QED  BY <2>1, Zenon DEF TypeOK
<1>2. HandlesOK
  BY DEF HandlesOK, NoDuplicates, EntriesOf
<1>3. TablesOK
  BY <1>0 DEF TablesOK, NoDuplicates, EntriesOf
<1>4. DevicesOK
  BY DEF DevicesOK, NoDuplicates, EntriesOf, Offered
<1>5. OverflowOnlyWhenFull
  BY DEF OverflowOnlyWhenFull
<1>. QED  BY <1>1, <1>2, <1>3, <1>4, <1>5 DEF IInv

(* While the directory is read nothing has registered, and the tables stay *)
(* as they are.                                                            *)
LEMMA StillEmpty ==
  ASSUME IInv, pc \in {"open", "read"},
         pc' \in {"read", "init", "undefined"},
         UNCHANGED <<dir, mods, devs, proto_loop, loop>>
  PROVE  TablesOK' /\ DevicesOK'
<1>. USE DEF IInv
<1>1. loop = 0 /\ \A t \in ModTypes : mods[t] = <<>>
  BY DEF TypeOK, TablesOK
<1>2. TablesOK'
  BY <1>1 DEF TablesOK, NoDuplicates, EntriesOf
<1>3. ~Offered(1, 1) /\ \A k, j : ~Offered(k, j) /\ ~Offered(k, j)'
  BY DEF Offered
<1>4. DevicesOK'
  BY <1>3 DEF DevicesOK, NoDuplicates, Supports, SwitchProto, ProtoType, EntriesOf
<1>. QED  BY <1>2, <1>4

(* opendir changes no table.                                               *)
LEMMA OpenStep ==
  ASSUME IInv, OpenDir \/ CannotOpenDir \/ EndRead
  PROVE  IInv'
<1>. USE DEF OpenDir, CannotOpenDir, EndRead
<1>1. TypeOK'
  BY DEF IInv, TypeOK, switches, protocols
<1>2. HandlesOK'
  BY DEF IInv, HandlesOK, NoDuplicates, EntriesOf
<1>3. TablesOK' /\ DevicesOK'
  BY StillEmpty
<1>4. OverflowOnlyWhenFull'
  BY DEF OverflowOnlyWhenFull
<1>. QED  BY <1>1, <1>2, <1>3, <1>4 DEF IInv

(* A store behind a full hndl[] needs one library more than there are      *)
(* handles.                                                                *)
LEMMA HandleOverflow ==
  ASSUME IInv, NEW f \in Files, f \in unread, dir[f] # "plain",
         ~(Len(hndl) < MaxObjects), dir' = dir
  PROVE  OverflowOnlyWhenFull'
<1>. DEFINE Libs == OfKind(Kinds \ {"plain"})
<1>1. dir \in [Files -> Kinds] /\ hndl \in Seq(Files)
  BY DEF IInv, TypeOK
<1>2. EntriesOf(hndl) \cup {f} \subseteq Libs /\ f \notin EntriesOf(hndl)
  BY <1>1 DEF IInv, HandlesOK, OfKind, EntriesOf
<1>3. IsFiniteSet(Libs)
  <2>1. Libs \in SUBSET Files
    BY DEF OfKind
  <2>. QED  BY <2>1, FS_Subset
<1>4. /\ IsFiniteSet(EntriesOf(hndl))
      /\ Cardinality(EntriesOf(hndl)) = Len(hndl)
  BY <1>1, EntriesCardinality DEF IInv, HandlesOK
<1>5. Cardinality(EntriesOf(hndl) \cup {f}) = Len(hndl) + 1
  BY <1>2, <1>4, FS_AddElement
<1>6. Cardinality(EntriesOf(hndl) \cup {f}) <= Cardinality(Libs)
  BY <1>2, <1>3, FS_Subset
<1>7. Cardinality(Libs) \in Nat /\ Len(hndl) = MaxObjects
  BY <1>1, <1>3, FS_CardinalityType DEF IInv, HandlesOK
<1>8. Cardinality(Libs) > MaxObjects
  BY <1>5, <1>6, <1>7
<1>9. Libs' = Libs
  BY DEF OfKind
<1>. QED  BY <1>8, <1>9 DEF OverflowOnlyWhenFull

(* A handle is stored once, and without room only if there are too many.   *)
LEMMA ReadStep ==
  ASSUME IInv, NEW f \in Files,
         SkipEntry(f) \/ CannotOpenLib(f) \/ OpenLib(f)
  PROVE  IInv'
<1>0. TypeOK /\ HandlesOK /\ hndl \in Seq(Files) /\ f \notin EntriesOf(hndl)
  BY DEF IInv, TypeOK, HandlesOK, SkipEntry, CannotOpenLib, OpenLib, Reads
<1>1. TablesOK' /\ DevicesOK'
  BY StillEmpty DEF SkipEntry, CannotOpenLib, OpenLib, Reads
<1>2. CASE UNCHANGED hndl
  <2>1. TypeOK'
    BY <1>0, <1>2 DEF TypeOK, SkipEntry, CannotOpenLib, OpenLib, Reads, switches, protocols
  <2>2. HandlesOK'
    BY <1>0, <1>2 DEF HandlesOK, NoDuplicates, EntriesOf, SkipEntry, CannotOpenLib, OpenLib, Reads
  <2>3. CASE UNCHANGED pc
    BY <1>1, <2>1, <2>2, <2>3
       DEF IInv, OverflowOnlyWhenFull, SkipEntry, CannotOpenLib, OpenLib, Reads
  <2>4. CASE ~UNCHANGED pc
    <3>1. dir[f] # "plain" /\ ~(Len(hndl) < MaxObjects) /\ f \in unread /\ dir' = dir
      BY <2>4 DEF SkipEntry, CannotOpenLib, OpenLib, Reads
    <3>. QED  BY <1>1, <2>1, <2>2, <3>1, HandleOverflow DEF IInv
  <2>. QED  BY <2>3, <2>4
<1>3. CASE ~UNCHANGED hndl
  <2>1. /\ pc = "read" /\ pc' = "read"
        /\ dir[f] \notin {"plain", "unloadable"}
        /\ Len(hndl) < MaxObjects
        /\ hndl' = Append(hndl, f)
        /\ unread' = unread \ {f}
        /\ UNCHANGED <<dir, mods, devs, proto_loop, loop>>
    BY <1>3 DEF SkipEntry, CannotOpenLib, OpenLib, Reads
  <2>2. /\ hndl' \in Seq(Files)
        /\ Len(hndl') = Len(hndl) + 1
        /\ EntriesOf(hndl') = EntriesOf(hndl) \cup {f}
    BY <1>0, <2>1, AppendEntries
  <2>3. TypeOK'
    BY <1>0, <2>1, <2>2 DEF TypeOK
  <2>4. NoDuplicates(hndl)'
    BY <1>0, <2>1, AppendNoDuplicates DEF HandlesOK
  <2>5. HandlesOK'
    BY <1>0, <2>1, <2>2, <2>4 DEF HandlesOK
  <2>6. OverflowOnlyWhenFull'
    BY <2>1 DEF OverflowOnlyWhenFull
  <2>. QED  BY <1>1, <2>3, <2>5, <2>6 DEF IInv
<1>. QED  BY <1>2, <1>3

(* Until the linking starts no device table has an entry.                  *)
LEMMA NoDevicesYet ==
  ASSUME IInv, pc = "init"
  PROVE  \A p \in Files : EntriesOf(devs[p]) = {} /\ Len(devs[p]) = 0
<1>1. \A k, j : ~Offered(k, j)
  BY DEF Offered
<1>2. \A p \in Files : devs[p] \in Seq(Files)
  BY DEF IInv, TypeOK
<1>3. ASSUME NEW p \in Files PROVE EntriesOf(devs[p]) = {}
  <2>1. \A s \in Files : s \notin EntriesOf(devs[p])
    BY <1>1 DEF IInv, DevicesOK
  <2>2. EntriesOf(devs[p]) \subseteq Files
    BY <1>2, EntriesInRange
  <2>. QED  BY <2>1, <2>2
<1>4. ASSUME NEW p \in Files PROVE Len(devs[p]) = 0
  <2>1. devs[p] \in Seq(Files) /\ EntriesOf(devs[p]) = {}
    BY <1>2, <1>3
  <2>. QED  BY <2>1, EntriesInRange
<1>. QED  BY <1>3, <1>4

(* What register_mod does in the loop over the handles: there is room.     *)
LEMMA InitRegisters ==
  ASSUME IInv, InitLib, dir[hndl[loop + 1]] # "noinit",
         NEW t, t = ModType(dir[hndl[loop + 1]])
  PROVE  /\ pc' = "init"
         /\ t \in ModTypes
         /\ mods' = [mods EXCEPT ![t] = Append(@, hndl[loop + 1])]
         /\ hndl[loop + 1] \in Files
<1>1. t \in ModTypes
  BY DEF ModType, ModTypes
<1>2. /\ pc = "init" /\ loop \in Nat /\ loop < Len(hndl)
      /\ hndl \in Seq(Files) /\ mods \in [ModTypes -> Seq(Modules)]
  BY DEF IInv, TypeOK, InitLib
<1>3. Len(mods[t]) <= loop /\ Len(hndl) <= MaxObjects
  BY <1>1, <1>2 DEF IInv, TablesOK, HandlesOK
<1>4. Len(mods[t]) < MaxObjects
  BY <1>1, <1>2, <1>3
<1>. QED  BY <1>1, <1>2, <1>4 DEF InitLib, register_mod

(* A library registers once, in the table of its type.                     *)
LEMMA InitLibStep ==
  ASSUME IInv, InitLib
  PROVE  IInv'
<1>. DEFINE lib == hndl[loop + 1]
            t   == ModType(dir[lib])
<1>0. /\ TypeOK /\ HandlesOK /\ TablesOK
      /\ pc = "init" /\ loop \in Nat /\ loop < Len(hndl)
      /\ hndl \in Seq(Files) /\ mods \in [ModTypes -> Seq(Modules)]
      /\ lib \in Files
      /\ loop' = loop + 1 /\ UNCHANGED <<dir, unread, hndl, devs, proto_loop>>
  BY DEF IInv, TypeOK, InitLib
<1>1. HandlesOK'
  BY <1>0 DEF HandlesOK, NoDuplicates, EntriesOf
<1>2. pc' = "init"
  BY <1>0, InitRegisters DEF InitLib
<1>3. DevicesOK'
  <2>1. \A k, j : ~Offered(k, j)'
    BY <1>2 DEF Offered
  <2>2. \A p \in Files : EntriesOf(devs[p]) = {} /\ NoDuplicates(devs[p])
    BY <1>0, NoDevicesYet DEF IInv, DevicesOK
  <2>3. \A p \in Files : EntriesOf(devs'[p]) = {} /\ NoDuplicates(devs'[p])
    BY <1>0, <2>2
  <2>. QED  BY <1>2, <2>1, <2>3 DEF DevicesOK
<1>4. OverflowOnlyWhenFull'
  BY <1>2 DEF OverflowOnlyWhenFull
<1>5. CASE dir[lib] = "noinit"
  <2>1. UNCHANGED mods
    BY <1>5 DEF InitLib
  <2>2. TypeOK'
    BY <1>0, <1>2, <2>1 DEF TypeOK
  <2>3. Initialised = 1..loop /\ Initialised' = 1..(loop + 1)
    BY <1>0, <1>2 DEF Initialised
  <2>4. ASSUME NEW u \in ModTypes
        PROVE  /\ Len(mods[u]) <= loop /\ Len(mods[u]) <= MaxObjects
               /\ NoDuplicates(mods[u])
               /\ AppMain \notin EntriesOf(mods[u])
               /\ \A m \in EntriesOf(mods[u]) :
                    /\ dir[m] # "noinit" /\ ModType(dir[m]) = u
                    /\ \E k \in 1..loop : hndl[k] = m
    BY <1>0, <2>3 DEF TablesOK
  <2>5. \A u \in ModTypes : Len(mods[u]) \in Nat
    BY <1>0
  <2>6. TablesOK'
    BY <1>0, <1>2, <2>1, <2>3, <2>4, <2>5 DEF TablesOK
  <2>. QED  BY <1>1, <1>3, <1>4, <2>2, <2>6 DEF IInv
<1>6. CASE dir[lib] # "noinit"
  <2>1. t \in ModTypes /\ mods' = [mods EXCEPT ![t] = Append(@, lib)]
    BY <1>6, InitRegisters
  <2>2. lib \in Modules /\ lib # AppMain
    BY <1>0 DEF Modules
  <2>3. /\ mods'[t] \in Seq(Modules)
        /\ Len(mods'[t]) = Len(mods[t]) + 1
        /\ EntriesOf(mods'[t]) = EntriesOf(mods[t]) \cup {lib}
    BY <1>0, <2>1, <2>2, AppendEntries
  <2>4. TypeOK'
    BY <1>0, <1>2, <2>1, <2>3 DEF TypeOK
  <2>5. lib \notin EntriesOf(mods[t])
    BY <1>0, <2>1, <2>2 DEF TablesOK, HandlesOK, NoDuplicates, Initialised
  <2>6. NoDuplicates(mods'[t])
    BY <1>0, <2>1, <2>2, <2>5, AppendNoDuplicates DEF TablesOK
  <2>7. ASSUME NEW u \in ModTypes
        PROVE  /\ Len(mods'[u]) <= loop' /\ Len(mods'[u]) <= MaxObjects
               /\ NoDuplicates(mods'[u])
               /\ AppMain \notin EntriesOf(mods'[u])
               /\ \A m \in EntriesOf(mods'[u]) :
                    /\ dir[m] # "noinit" /\ ModType(dir[m]) = u
                    /\ \E k \in 1..(loop + 1) : hndl[k] = m
    <3>1. /\ Len(mods[u]) <= loop /\ NoDuplicates(mods[u])
          /\ AppMain \notin EntriesOf(mods[u])
          /\ \A m \in EntriesOf(mods[u]) :
               /\ dir[m] # "noinit" /\ ModType(dir[m]) = u
               /\ \E k \in 1..loop : hndl[k] = m
          /\ Len(mods[u]) \in Nat /\ Len(hndl) <= MaxObjects
      BY <1>0 DEF TablesOK, HandlesOK, Initialised
    <3>2. CASE u # t
      BY <1>0, <2>1, <3>1, <3>2
    <3>3. CASE u = t
      BY <1>0, <1>6, <2>1, <2>2, <2>3, <2>6, <3>1, <3>3
    <3>. QED  BY <3>2, <3>3
  <2>8. Initialised' = 1..(loop + 1)
    BY <1>0, <1>2 DEF Initialised
  <2>9. TablesOK'
    BY <1>0, <1>2, <2>7, <2>8 DEF TablesOK
  <2>. QED  BY <1>1, <1>3, <1>4, <2>4, <2>9 DEF IInv
<1>. QED  BY <1>5, <1>6

(* app_init overruns the table only behind MaxObjects protocol libraries.  *)
LEMMA AppInitOverflow ==
  ASSUME IInv, pc = "init", ~(Len(protocols) < MaxObjects), dir' = dir
  PROVE  OverflowOnlyWhenFull'
<1>. DEFINE Protos == OfKind({"bridge", "flow"})
<1>1. /\ protocols \in Seq(Modules) /\ "protocol" \in ModTypes
      /\ dir \in [Files -> Kinds] /\ hndl \in Seq(Files) /\ loop \in Nat /\ loop <= Len(hndl)
  BY DEF IInv, TypeOK, protocols, ModTypes
<1>2. EntriesOf(protocols) \subseteq Protos
  <2>. SUFFICES ASSUME NEW m \in EntriesOf(protocols) PROVE m \in Protos
    OBVIOUS
  <2>1. m # AppMain
    BY <1>1 DEF IInv, TablesOK, protocols
  <2>2. ModType(dir[m]) = "protocol" /\ \E k \in 1..loop : hndl[k] = m
    BY <1>1, <2>1 DEF IInv, TablesOK, protocols, Initialised
  <2>3. m \in Files
    BY <1>1, <2>2
  <2>4. dir[m] \in {"bridge", "flow"}
    BY <2>2 DEF ModType
  <2>. QED  BY <2>3, <2>4 DEF OfKind
<1>3. IsFiniteSet(Protos)
  <2>1. Protos \in SUBSET Files
    BY DEF OfKind
  <2>. QED  BY <2>1, FS_Subset
<1>4. Cardinality(EntriesOf(protocols)) = Len(protocols)
  BY <1>1, EntriesCardinality DEF IInv, TablesOK, protocols
<1>5. Cardinality(EntriesOf(protocols)) <= Cardinality(Protos)
  BY <1>2, <1>3, FS_Subset
<1>6. Cardinality(Protos) \in Nat /\ Len(protocols) \in Nat
  BY <1>1, <1>3, FS_CardinalityType
<1>7. Cardinality(Protos) >= MaxObjects
  BY <1>4, <1>5, <1>6
<1>8. Protos' = Protos
  BY DEF OfKind
<1>. QED  BY <1>7, <1>8 DEF OverflowOnlyWhenFull

(* The main program's protocol is the last, and the linking loop starts.   *)
LEMMA AppInitStep ==
  ASSUME IInv, app_init
  PROVE  IInv'
<1>0. /\ TypeOK /\ HandlesOK /\ TablesOK
      /\ pc = "init" /\ loop = Len(hndl)
      /\ hndl \in Seq(Files) /\ mods \in [ModTypes -> Seq(Modules)]
      /\ devs \in [Files -> Seq(Files)]
      /\ "protocol" \in ModTypes /\ AppMain \in Modules
      /\ loop' = 0 /\ proto_loop' = 0 /\ UNCHANGED <<dir, unread, hndl, devs>>
  BY DEF IInv, TypeOK, app_init, ModTypes, Modules
<1>1. HandlesOK'
  BY <1>0 DEF HandlesOK, NoDuplicates, EntriesOf
<1>2. \A p \in Files : EntriesOf(devs[p]) = {} /\ Len(devs[p]) = 0 /\ NoDuplicates(devs[p])
  BY <1>0, NoDevicesYet DEF IInv, DevicesOK
<1>3. \A p \in Files : EntriesOf(devs'[p]) = {} /\ Len(devs'[p]) = 0 /\ NoDuplicates(devs'[p])
  BY <1>0, <1>2
<1>4. Initialised = 1..Len(hndl) /\ (pc' # "init" => Initialised' = 1..Len(hndl))
  BY <1>0 DEF Initialised
<1>5. ASSUME NEW u \in ModTypes
      PROVE  /\ Len(mods[u]) <= MaxObjects
             /\ NoDuplicates(mods[u])
             /\ AppMain \notin EntriesOf(mods[u])
             /\ \A m \in EntriesOf(mods[u]) :
                  /\ dir[m] # "noinit" /\ ModType(dir[m]) = u
                  /\ \E k \in 1..Len(hndl) : hndl[k] = m
  BY <1>0, <1>4 DEF TablesOK
<1>6. CASE Len(mods["protocol"]) < MaxObjects
  <2>1. pc' = "link" /\ mods' = [mods EXCEPT !["protocol"] = Append(@, AppMain)]
    BY <1>6 DEF app_init, register_mod
  <2>2. /\ mods'["protocol"] \in Seq(Modules)
        /\ Len(mods'["protocol"]) = Len(mods["protocol"]) + 1
        /\ EntriesOf(mods'["protocol"]) = EntriesOf(mods["protocol"]) \cup {AppMain}
        /\ NoDuplicates(mods'["protocol"])
    BY <1>0, <1>5, <2>1, AppendEntries, AppendNoDuplicates
  <2>3. \A u \in ModTypes : u # "protocol" => mods'[u] = mods[u]
    BY <1>0, <2>1
  <2>4. mods' \in [ModTypes -> Seq(Modules)]
    BY <1>0, <2>1, <2>2
  <2>5. TypeOK'
    <3>1. \A u \in ModTypes : Len(mods'[u]) \in Nat
      BY <2>4
    <3>. QED  BY <1>0, <2>1, <2>4, <3>1 DEF TypeOK, switches, protocols, ModTypes
  <2>6. TablesOK'
    <3>1. ASSUME NEW u \in ModTypes
          PROVE  /\ Len(mods'[u]) <= MaxObjects
                 /\ NoDuplicates(mods'[u])
                 /\ \A m \in EntriesOf(mods'[u]) \ {AppMain} :
                      /\ dir[m] # "noinit" /\ ModType(dir[m]) = u
                      /\ \E k \in 1..Len(hndl) : hndl[k] = m
                 /\ AppMain \in EntriesOf(mods'[u]) <=> u = "protocol"
      <4>1. CASE u = "protocol"
        BY <1>0, <1>5, <1>6, <2>2, <4>1
      <4>2. CASE u # "protocol"
        BY <1>5, <2>3, <4>2
      <4>. QED  BY <4>1, <4>2
    <3>. QED  BY <1>0, <1>4, <2>1, <3>1 DEF TablesOK
  <2>7. \A k \in Nat \ {0}, j \in Nat \ {0} : ~Offered(k, j)'
    BY <1>0, <2>1 DEF Offered
  <2>8. DevicesOK'
    <3>1. ASSUME NEW k \in 1..Len(protocols'), protocols'[k] # AppMain
          PROVE  protocols'[k] \in Files
      BY <2>4, <3>1 DEF protocols, Modules, ModTypes
    <3>. QED  BY <1>0, <1>3, <2>1, <2>4, <2>7, <3>1 DEF DevicesOK, protocols, switches, ModTypes
  <2>9. OverflowOnlyWhenFull'
    BY <2>1 DEF OverflowOnlyWhenFull
  <2>. QED  BY <1>1, <2>5, <2>6, <2>8, <2>9 DEF IInv
<1>7. CASE ~(Len(mods["protocol"]) < MaxObjects)
  <2>1. pc' = "undefined" /\ UNCHANGED mods
    BY <1>7 DEF app_init, register_mod
  <2>2. TypeOK'
    BY <1>0, <2>1 DEF TypeOK
  <2>3. TablesOK'
    BY <1>0, <1>4, <1>5, <2>1 DEF TablesOK
  <2>4. \A k, j : ~Offered(k, j)'
    BY <2>1 DEF Offered
  <2>5. DevicesOK'
    BY <1>3, <2>1, <2>4 DEF DevicesOK
  <2>6. OverflowOnlyWhenFull'
    BY <1>0, <1>7, AppInitOverflow DEF protocols
  <2>. QED  BY <1>1, <2>2, <2>3, <2>5, <2>6 DEF IInv
<1>. QED  BY <1>6, <1>7

(* While the modules are linked, the tables of modules stay as they are.   *)
LEMMA TablesFrozen ==
  ASSUME IInv, pc = "link", pc' \in {"link", "linked"},
         UNCHANGED <<dir, unread, hndl, mods>>
  PROVE  HandlesOK' /\ TablesOK' /\ OverflowOnlyWhenFull'
<1>1. Initialised' = Initialised
  BY DEF Initialised
<1>2. HandlesOK'
  BY DEF IInv, HandlesOK, NoDuplicates, EntriesOf
<1>3. TablesOK'
  BY <1>1 DEF IInv, TablesOK
<1>4. OverflowOnlyWhenFull'
  BY DEF OverflowOnlyWhenFull
<1>. QED  BY <1>2, <1>3, <1>4

(* What the linking loop finds in the tables.                              *)
LEMMA LinkFacts ==
  ASSUME IInv, pc = "link"
  PROVE  /\ protocols \in Seq(Modules) /\ switches \in Seq(Modules)
         /\ devs \in [Files -> Seq(Files)]
         /\ proto_loop \in 0..Len(protocols) /\ loop \in 0..Len(switches)
         /\ NoDuplicates(protocols) /\ NoDuplicates(switches)
         /\ Len(switches) <= MaxObjects
         /\ \A j \in 1..Len(switches) : switches[j] \in Files
         /\ \A s : ~Supports(AppMain, s)
<1>1. /\ protocols \in Seq(Modules) /\ switches \in Seq(Modules)
      /\ devs \in [Files -> Seq(Files)]
      /\ proto_loop \in 0..Len(protocols) /\ loop \in 0..Len(switches)
  BY DEF IInv, TypeOK, protocols, switches, ModTypes
<1>2. /\ NoDuplicates(protocols) /\ NoDuplicates(switches)
      /\ Len(switches) <= MaxObjects
      /\ AppMain \notin EntriesOf(switches)
  BY DEF IInv, TablesOK, protocols, switches, ModTypes
<1>3. ASSUME NEW j \in 1..Len(switches) PROVE switches[j] \in Files
  BY <1>1, <1>2 DEF EntriesOf, Modules
<1>4. \A s : ~Supports(AppMain, s)
  BY DEF Supports, ProtoType, SwitchProto
<1>. QED  BY <1>1, <1>2, <1>3, <1>4

(* A switch that is offered a protocol it supports finds room in the       *)
(* device table, and is not in it yet.                                     *)
LEMMA DeviceIsNew ==
  ASSUME IInv, pc = "link", proto_loop < Len(protocols), loop < Len(switches),
         Supports(protocols[proto_loop + 1], switches[loop + 1])
  PROVE  /\ protocols[proto_loop + 1] \in Files
         /\ Len(devs[protocols[proto_loop + 1]]) <= loop
         /\ Len(devs[protocols[proto_loop + 1]]) < MaxObjects
         /\ switches[loop + 1] \notin EntriesOf(devs[protocols[proto_loop + 1]])
<1>. DEFINE p == protocols[proto_loop + 1]
            s == switches[loop + 1]
<1>0. proto_loop \in Nat /\ loop \in Nat /\ Len(protocols) \in Nat /\ Len(switches) \in Nat
  BY LinkFacts
<1>1. p \in Files /\ s \in Files
  BY <1>0, LinkFacts DEF Modules
<1>2. Len(devs[p]) <= loop /\ Len(devs[p]) \in Nat
  <2>1. proto_loop + 1 \in 1..Len(protocols) /\ ~(proto_loop + 1 <= proto_loop) /\ p # AppMain
    BY <1>0, <1>1
  <2>2. \A k \in 1..Len(protocols) : protocols[k] # AppMain =>
          Len(devs[protocols[k]]) <= IF k <= proto_loop THEN Len(switches)
                                     ELSE IF k = proto_loop + 1 THEN loop ELSE 0
    BY DEF IInv, DevicesOK
  <2>3. Len(devs[p]) <= loop
    BY <2>1, <2>2
  <2>4. devs[p] \in Seq(Files)
    BY <1>1, LinkFacts
  <2>. QED  BY <2>3, <2>4
<1>3. Len(devs[p]) < MaxObjects
  BY <1>0, <1>2, LinkFacts
<1>4. ASSUME s \in EntriesOf(devs[p]) PROVE FALSE
  <2>1. PICK k \in 1..Len(protocols), j \in 1..Len(switches) :
               protocols[k] = p /\ switches[j] = s /\ Offered(k, j)
    BY <1>1, <1>4 DEF IInv, DevicesOK
  <2>2. k = proto_loop + 1 /\ j = loop + 1
    BY <1>0, <2>1, LinkFacts DEF NoDuplicates
  <2>. QED  BY <1>0, <2>1, <2>2 DEF Offered
<1>. QED  BY <1>1, <1>2, <1>3, <1>4

(* Offering one protocol to one switch links just this pair, if it fits.   *)
LEMMA OfferStep ==
  ASSUME IInv, proto_reg_func
  PROVE  IInv'
<1>. DEFINE p == protocols[proto_loop + 1]
            s == switches[loop + 1]
<1>0. /\ pc = "link" /\ proto_loop < Len(protocols) /\ loop < Len(switches)
      /\ loop' = loop + 1 /\ UNCHANGED <<dir, unread, hndl, mods, proto_loop>>
      /\ UNCHANGED <<protocols, switches>>
  BY DEF proto_reg_func, protocols, switches
<1>1. /\ pc' = "link"
      /\ Supports(p, s) => devs' = [devs EXCEPT ![p] = Append(@, s)]
      /\ ~Supports(p, s) => devs' = devs
  BY <1>0, DeviceIsNew DEF proto_reg_func, register_dev
<1>2. HandlesOK' /\ TablesOK' /\ OverflowOnlyWhenFull'
  BY <1>0, <1>1, TablesFrozen
<1>3. \A k \in Nat, j \in Nat :
        Offered(k, j)' <=> Offered(k, j) \/ (k = proto_loop + 1 /\ j = loop + 1)
  BY <1>0, <1>1, LinkFacts DEF Offered
<1>4. \A q, x : Supports(q, x)' <=> Supports(q, x)
  BY <1>0 DEF Supports, SwitchProto, ProtoType
<1>5. CASE Supports(p, s)
  <2>1. /\ p \in Files /\ s \in Files
        /\ Len(devs[p]) <= loop /\ s \notin EntriesOf(devs[p])
        /\ devs' = [devs EXCEPT ![p] = Append(@, s)]
        /\ devs[p] \in Seq(Files)
    BY <1>0, <1>1, <1>5, DeviceIsNew, LinkFacts
  <2>2. /\ devs'[p] \in Seq(Files)
        /\ Len(devs'[p]) = Len(devs[p]) + 1
        /\ EntriesOf(devs'[p]) = EntriesOf(devs[p]) \cup {s}
        /\ \A q \in Files : q # p => devs'[q] = devs[q]
    BY <2>1, LinkFacts, <1>0, AppendEntries
  <2>3. NoDuplicates(devs'[p])
    BY <2>1, LinkFacts, <1>0, AppendNoDuplicates DEF IInv, DevicesOK
  <2>4. TypeOK'
    <3>1. devs' \in [Files -> Seq(Files)]
      BY <1>0, <2>1, <2>2, LinkFacts
    <3>. QED  BY <1>0, <1>1, <3>1, LinkFacts DEF IInv, TypeOK
  <2>5. ASSUME NEW q \in Files
        PROVE  /\ NoDuplicates(devs'[q])
               /\ \A x \in Files :
                    x \in EntriesOf(devs'[q]) <=>
                      /\ Supports(q, x)
                      /\ \E k \in 1..Len(protocols), j \in 1..Len(switches) :
                           protocols[k] = q /\ switches[j] = x /\ Offered(k, j)'
    <3>1. NoDuplicates(devs'[q])
      BY <2>2, <2>3 DEF IInv, DevicesOK
    <3>2. ASSUME NEW x \in Files
          PROVE  x \in EntriesOf(devs'[q]) <=>
                   x \in EntriesOf(devs[q]) \/ (q = p /\ x = s)
      BY <2>2
    <3>3. ASSUME NEW x \in Files
          PROVE  (\E k \in 1..Len(protocols), j \in 1..Len(switches) :
                    protocols[k] = q /\ switches[j] = x /\ Offered(k, j)')
                 <=> \/ \E k \in 1..Len(protocols), j \in 1..Len(switches) :
                          protocols[k] = q /\ switches[j] = x /\ Offered(k, j)
                     \/ q = p /\ x = s
      <4>1. proto_loop + 1 \in 1..Len(protocols) /\ loop + 1 \in 1..Len(switches)
        BY <1>0, LinkFacts
      <4>2. 1..Len(protocols) \subseteq Nat /\ 1..Len(switches) \subseteq Nat
        BY <1>0, LinkFacts
      <4>3. \A k \in 1..Len(protocols), j \in 1..Len(switches) :
              Offered(k, j)' <=> Offered(k, j) \/ (k = proto_loop + 1 /\ j = loop + 1)
        BY <1>3, <4>2
      <4>. QED  BY <4>1, <4>3, Zenon
    <3>4. ASSUME NEW x \in Files
          PROVE  x \in EntriesOf(devs[q]) <=>
                   /\ Supports(q, x)
                   /\ \E k \in 1..Len(protocols), j \in 1..Len(switches) :
                        protocols[k] = q /\ switches[j] = x /\ Offered(k, j)
      BY DEF IInv, DevicesOK
    <3>. QED  BY <1>5, <3>1, <3>2, <3>3, <3>4
  <2>6. ASSUME NEW k \in 1..Len(protocols), protocols[k] # AppMain
        PROVE  Len(devs'[protocols[k]]) <= IF k <= proto_loop THEN Len(switches)
                                           ELSE IF k = proto_loop + 1 THEN loop + 1 ELSE 0
    <3>1. CASE k = proto_loop + 1
      BY <1>0, <2>1, <2>2, <3>1, LinkFacts
    <3>2. CASE k # proto_loop + 1
      <4>0. proto_loop + 1 \in 1..Len(protocols)
        BY <1>0, LinkFacts
      <4>1. protocols[k] # p /\ protocols[k] \in Files
        <5>1. protocols[k] # p
          BY <3>2, <4>0, LinkFacts, <1>0 DEF NoDuplicates
        <5>2. protocols[k] \in Modules
          BY LinkFacts, <1>0
        <5>. QED  BY <2>6, <5>1, <5>2 DEF Modules
      <4>2. devs'[protocols[k]] = devs[protocols[k]]
        BY <2>2, <4>1
      <4>3. Len(devs[protocols[k]]) <= IF k <= proto_loop THEN Len(switches)
                                       ELSE IF k = proto_loop + 1 THEN loop ELSE 0
        BY <1>0, <2>6 DEF IInv, DevicesOK
      <4>. QED  BY <3>2, <4>2, <4>3
    <3>. QED  BY <3>1, <3>2
  <2>7. DevicesOK'
    BY <1>0, <1>1, <1>4, <2>5, <2>6 DEF DevicesOK
  <2>. QED  BY <1>2, <2>4, <2>7 DEF IInv
<1>6. CASE ~Supports(p, s)
  <2>0. devs' = devs
    BY <1>1, <1>6
  <2>1. TypeOK'
    BY <1>0, <1>1, <2>0, LinkFacts DEF IInv, TypeOK
  <2>2. ASSUME NEW q \in Files, NEW x \in Files
        PROVE  x \in EntriesOf(devs[q]) <=>
                 /\ Supports(q, x)
                 /\ \E k \in 1..Len(protocols), j \in 1..Len(switches) :
                      protocols[k] = q /\ switches[j] = x /\ Offered(k, j)'
    <3>1. x \in EntriesOf(devs[q]) <=>
            /\ Supports(q, x)
            /\ \E k \in 1..Len(protocols), j \in 1..Len(switches) :
                 protocols[k] = q /\ switches[j] = x /\ Offered(k, j)
      BY DEF IInv, DevicesOK
    <3>2. 1..Len(protocols) \subseteq Nat /\ 1..Len(switches) \subseteq Nat
      BY <1>0, LinkFacts
    <3>3. \A k \in 1..Len(protocols), j \in 1..Len(switches) :
            Offered(k, j)' <=> Offered(k, j) \/ (k = proto_loop + 1 /\ j = loop + 1)
      BY <1>3, <3>2
    <3>. QED  BY <1>6, <3>1, <3>3, Zenon
  <2>3. ASSUME NEW k \in 1..Len(protocols), protocols[k] # AppMain
        PROVE  Len(devs[protocols[k]]) <= IF k <= proto_loop THEN Len(switches)
                                          ELSE IF k = proto_loop + 1 THEN loop + 1 ELSE 0
    <3>1. Len(devs[protocols[k]]) <= IF k <= proto_loop THEN Len(switches)
                                     ELSE IF k = proto_loop + 1 THEN loop ELSE 0
      BY <1>0, <2>3 DEF IInv, DevicesOK
    <3>2. protocols[k] \in Files
      BY <2>3, <1>0, LinkFacts DEF Modules
    <3>. QED  BY <1>0, <3>1, <3>2, LinkFacts
  <2>4. \A q \in Files : NoDuplicates(devs[q])
    BY DEF IInv, DevicesOK
  <2>5. DevicesOK'
    BY <1>0, <1>1, <1>4, <2>0, <2>2, <2>3, <2>4 DEF DevicesOK
  <2>. QED  BY <1>2, <2>1, <2>5 DEF IInv
<1>. QED  BY <1>5, <1>6

(* The next protocol starts with the first switch.                         *)
LEMMA NextProtoStep ==
  ASSUME IInv, NextProto
  PROVE  IInv'
<1>0. /\ pc = "link" /\ pc' = "link" /\ proto_loop < Len(protocols) /\ loop = Len(switches)
      /\ proto_loop' = proto_loop + 1 /\ loop' = 0
      /\ UNCHANGED <<dir, unread, hndl, mods, devs>>
      /\ UNCHANGED <<protocols, switches>>
  BY DEF NextProto, protocols, switches
<1>1. HandlesOK' /\ TablesOK' /\ OverflowOnlyWhenFull'
  BY <1>0, TablesFrozen
<1>2. TypeOK'
  BY <1>0, LinkFacts DEF IInv, TypeOK
<1>3. \A k \in 1..Len(protocols), j \in 1..Len(switches) : Offered(k, j)' <=> Offered(k, j)
  BY <1>0, LinkFacts DEF Offered
<1>4. \A q, x : Supports(q, x)' <=> Supports(q, x)
  BY <1>0 DEF Supports, SwitchProto, ProtoType
<1>5. ASSUME NEW k \in 1..Len(protocols), protocols[k] # AppMain
      PROVE  Len(devs[protocols[k]]) <= IF k <= proto_loop + 1 THEN Len(switches)
                                        ELSE IF k = proto_loop + 2 THEN 0 ELSE 0
  <2>1. Len(devs[protocols[k]]) <= IF k <= proto_loop THEN Len(switches)
                                   ELSE IF k = proto_loop + 1 THEN loop ELSE 0
    BY <1>0, <1>5 DEF IInv, DevicesOK
  <2>. QED  BY <1>0, <2>1, LinkFacts
<1>6. DevicesOK'
  <2>1. \A q \in Files :
          /\ NoDuplicates(devs[q])
          /\ \A x \in Files :
               x \in EntriesOf(devs[q]) <=>
                 /\ Supports(q, x)
                 /\ \E k \in 1..Len(protocols), j \in 1..Len(switches) :
                      protocols[k] = q /\ switches[j] = x /\ Offered(k, j)
    BY DEF IInv, DevicesOK
  <2>2. \A k : k = proto_loop' + 1 <=> k = proto_loop + 2
    BY <1>0, LinkFacts
  <2>. QED  BY <1>0, <1>3, <1>4, <1>5, <2>1, <2>2 DEF DevicesOK
<1>. QED  BY <1>1, <1>2, <1>6 DEF IInv

(* Linking ends when every pair was offered.                               *)
LEMMA LinkedStep ==
  ASSUME IInv, Linked
  PROVE  IInv'
<1>0. /\ pc = "link" /\ pc' = "linked" /\ proto_loop = Len(protocols)
      /\ UNCHANGED <<dir, unread, hndl, mods, devs, proto_loop, loop>>
      /\ UNCHANGED <<protocols, switches>>
  BY DEF Linked, protocols, switches
<1>1. HandlesOK' /\ TablesOK' /\ OverflowOnlyWhenFull'
  BY <1>0, TablesFrozen
<1>2. TypeOK'
  BY <1>0 DEF IInv, TypeOK
<1>3. \A k \in 1..Len(protocols) : \A j : Offered(k, j) /\ Offered(k, j)'
  BY <1>0, LinkFacts DEF Offered
<1>4. \A q, x : Supports(q, x)' <=> Supports(q, x)
  BY <1>0 DEF Supports, SwitchProto, ProtoType
<1>5. DevicesOK'
  BY <1>0, <1>3, <1>4 DEF IInv, DevicesOK
<1>. QED  BY <1>1, <1>2, <1>5 DEF IInv

(* The invariant does not look at anything but the variables.              *)
LEMMA StutterStep ==
  ASSUME IInv, UNCHANGED vars
  PROVE  IInv'
<1>. USE DEF vars
<1>1. UNCHANGED <<switches, protocols, Initialised>>
  BY DEF switches, protocols, Initialised
<1>2. TypeOK' /\ HandlesOK' /\ OverflowOnlyWhenFull'
  BY <1>1 DEF IInv, TypeOK, HandlesOK, NoDuplicates, EntriesOf, OverflowOnlyWhenFull, OfKind
<1>3. TablesOK'
  BY <1>1 DEF IInv, TablesOK
<1>4. \A k, j : Offered(k, j)' <=> Offered(k, j)
  BY DEF Offered
<1>5. \A q, x : Supports(q, x)' <=> Supports(q, x)
  BY DEF Supports, SwitchProto, ProtoType
<1>6. DevicesOK'
  BY <1>1, <1>4, <1>5 DEF IInv, DevicesOK
<1>. QED  BY <1>2, <1>3, <1>6 DEF IInv

(* The inductive invariant holds in every reachable state: the boot keeps  *)
(* its handles, tables and device tables consistent whatever the directory *)
(* holds and in whatever order it is read (main.c:77-300).                 *)
THEOREM InvariantHolds == Spec => []IInv
<1>1. Init => IInv
  BY InitIInv
<1>2. IInv /\ [Next]_vars => IInv'
  <2>. SUFFICES ASSUME IInv, [Next]_vars PROVE IInv'
    OBVIOUS
  <2>1. CASE OpenDir \/ CannotOpenDir \/ EndRead
    BY <2>1, OpenStep
  <2>2. ASSUME NEW f \in Files, SkipEntry(f) \/ CannotOpenLib(f) \/ OpenLib(f) PROVE IInv'
    BY <2>2, ReadStep
  <2>3. CASE InitLib
    BY <2>3, InitLibStep
  <2>4. CASE app_init
    BY <2>4, AppInitStep
  <2>5. CASE proto_reg_func
    BY <2>5, OfferStep
  <2>6. CASE NextProto
    BY <2>6, NextProtoStep
  <2>7. CASE Linked
    BY <2>7, LinkedStep
  <2>8. CASE Booted \/ UNCHANGED vars
    BY <2>8, StutterStep DEF Booted
  <2>. QED  BY <2>1, <2>2, <2>3, <2>4, <2>5, <2>6, <2>7, <2>8 DEF Next
<1>. QED  BY <1>1, <1>2, PTL DEF Spec

(* Every variable keeps its type, and no loop of the boot runs past the    *)
(* table it walks through.                                                 *)
THEOREM TypeCorrect == Spec => []TypeOK
<1>1. IInv => TypeOK
  BY DEF IInv
<1>. QED  BY <1>1, InvariantHolds, PTL

(* For every size of the tables: only a directory with more libraries than *)
(* handles, or with a protocol library for every entry of protocols[], can *)
(* make the boot store past the end of a table.                            *)
THEOREM OverflowCauses == Spec => []OverflowOnlyWhenFull
<1>1. IInv => OverflowOnlyWhenFull
  BY DEF IInv
<1>. QED  BY <1>1, InvariantHolds, PTL

-----------------------------------------------------------------------------
(* The refinement of SwLinks.                                              *)

LEMMA InitRefines == Init => Links!LInit
<1>. SUFFICES ASSUME Init PROVE Links!LInit
  OBVIOUS
<1>1. Phase = "loading"
  BY DEF Init, Phase
<1>2. Registered = {}
  BY DEF Init, Registered, EntriesOf
<1>3. LinkedPairs = {}
  BY DEF Init, LinkedPairs, EntriesOf
<1>4. ProtoSwitchPairs \in SUBSET (Modules \X Modules)
  BY DEF ProtoSwitchPairs, OfKind, Modules
<1>. QED  BY <1>1, <1>2, <1>3, <1>4 DEF Links!LInit

(* What supports whom is a fact about the directory.                       *)
LEMMA PairsFixed ==
  ASSUME dir' = dir
  PROVE  ProtoSwitchPairs' = ProtoSwitchPairs
BY DEF ProtoSwitchPairs, OfKind, Supports, SwitchProto, ProtoType

(* Reading the directory is a stuttering step of SwLinks, or its failure.  *)
LEMMA LoadRefines ==
  ASSUME IInv, pc \in {"open", "read"}, pc' \in {"read", "init", "undefined"},
         UNCHANGED <<dir, mods, devs>>
  PROVE  Links!Fail \/ UNCHANGED Links!lvars
<1>1. UNCHANGED <<Registered, LinkedPairs, ProtoSwitchPairs>>
  BY PairsFixed DEF Registered, LinkedPairs, EntriesOf
<1>2. Phase = "loading" /\ Phase' \in {"loading", "failed"}
  BY DEF Phase
<1>. QED  BY <1>1, <1>2 DEF Links!Fail, Links!lvars

(* A call of init is a Register, a Fail or a stutter of SwLinks.           *)
LEMMA InitLibRefines ==
  ASSUME IInv, InitLib
  PROVE  (\E m \in Modules : Links!Register(m)) \/ UNCHANGED Links!lvars
<1>. DEFINE lib == hndl[loop + 1]
            t   == ModType(dir[lib])
<1>0. /\ pc = "init" /\ loop \in Nat /\ loop < Len(hndl) /\ lib \in Files
      /\ mods \in [ModTypes -> Seq(Modules)] /\ hndl \in Seq(Files)
      /\ UNCHANGED <<dir, devs>>
  BY DEF IInv, TypeOK, InitLib
<1>1. UNCHANGED <<LinkedPairs, ProtoSwitchPairs>> /\ Phase = "loading"
  BY <1>0, PairsFixed DEF LinkedPairs, EntriesOf, Phase
<1>2. CASE dir[lib] = "noinit"
  <2>1. UNCHANGED <<pc, mods>>
    BY <1>2 DEF InitLib
  <2>2. UNCHANGED Registered /\ UNCHANGED Phase
    BY <2>1 DEF Registered, EntriesOf, Phase
  <2>. QED  BY <1>1, <2>2 DEF Links!lvars
<1>3. CASE dir[lib] # "noinit"
  <2>1. /\ pc' = "init" /\ t \in ModTypes /\ lib \in Modules
        /\ mods' = [mods EXCEPT ![t] = Append(@, lib)]
    BY <1>0, <1>3, InitRegisters DEF Modules
  <2>2. EntriesOf(mods'[t]) = EntriesOf(mods[t]) \cup {lib}
    BY <1>0, <2>1, AppendEntries
  <2>3. \A u \in ModTypes : u # t => mods'[u] = mods[u]
    BY <1>0, <2>1
  <2>4. Registered' = Registered \cup {lib}
    BY <2>1, <2>2, <2>3 DEF Registered
  <2>5. ASSUME NEW u \in ModTypes PROVE lib \notin EntriesOf(mods[u])
    BY <1>0 DEF IInv, TablesOK, HandlesOK, NoDuplicates, Initialised
  <2>6. lib \notin Registered
    BY <2>5 DEF Registered
  <2>7. Phase' = "loading"
    BY <2>1 DEF Phase
  <2>8. Links!Register(lib)
    BY <1>1, <2>4, <2>6, <2>7 DEF Links!Register
  <2>. QED  BY <2>1, <2>8
<1>. QED  BY <1>2, <1>3

(* Registering the main program's protocol is StartLinking, or a Fail.     *)
LEMMA AppInitRefines ==
  ASSUME IInv, app_init
  PROVE  Links!StartLinking \/ Links!Fail
<1>0. /\ pc = "init" /\ UNCHANGED <<dir, devs>>
      /\ mods \in [ModTypes -> Seq(Modules)]
      /\ "protocol" \in ModTypes /\ AppMain \in Modules
  BY DEF IInv, TypeOK, app_init, ModTypes, Modules
<1>1. UNCHANGED <<LinkedPairs, ProtoSwitchPairs>> /\ Phase = "loading"
  BY <1>0, PairsFixed DEF LinkedPairs, EntriesOf, Phase
<1>2. AppMain \notin Registered
  BY <1>0 DEF IInv, TablesOK, Registered
<1>3. CASE Len(mods["protocol"]) < MaxObjects
  <2>1. pc' = "link" /\ mods' = [mods EXCEPT !["protocol"] = Append(@, AppMain)]
    BY <1>3 DEF app_init, register_mod
  <2>2. EntriesOf(mods'["protocol"]) = EntriesOf(mods["protocol"]) \cup {AppMain}
    BY <1>0, <2>1, AppendEntries
  <2>3. \A u \in ModTypes : u # "protocol" => mods'[u] = mods[u]
    BY <1>0, <2>1
  <2>4. Registered' = Registered \cup {AppMain}
    BY <1>0, <2>2, <2>3 DEF Registered
  <2>5. Phase' = "linking"
    BY <2>1 DEF Phase
  <2>. QED  BY <1>1, <1>2, <2>4, <2>5 DEF Links!StartLinking
<1>4. CASE ~(Len(mods["protocol"]) < MaxObjects)
  <2>1. pc' = "undefined" /\ UNCHANGED mods
    BY <1>4 DEF app_init, register_mod
  <2>2. Phase' = "failed" /\ UNCHANGED Registered
    BY <2>1 DEF Phase, Registered, EntriesOf
  <2>. QED  BY <1>1, <2>2 DEF Links!Fail
<1>. QED  BY <1>3, <1>4

(* The modules of a kind are exactly the entries of the table they belong  *)
(* in, as far as they have registered.                                     *)
LEMMA RegisteredTables ==
  ASSUME IInv, pc = "link"
  PROVE  /\ EntriesOf(protocols) \subseteq OfKind({"bridge", "flow"}) \cup {AppMain}
         /\ EntriesOf(switches) \subseteq OfKind({"asic", "flow_stub"})
         /\ Registered \cap OfKind({"bridge", "flow"}) \subseteq EntriesOf(protocols)
         /\ Registered \cap OfKind({"asic", "flow_stub"}) \subseteq EntriesOf(switches)
         /\ EntriesOf(protocols) \cup EntriesOf(switches) \subseteq Registered
<1>1. /\ mods \in [ModTypes -> Seq(Modules)] /\ dir \in [Files -> Kinds]
      /\ "protocol" \in ModTypes /\ "switch" \in ModTypes
  BY DEF IInv, TypeOK, ModTypes
<1>2. ASSUME NEW t \in ModTypes, NEW m \in EntriesOf(mods[t]), m # AppMain
      PROVE  m \in Files /\ dir[m] # "noinit" /\ ModType(dir[m]) = t
  <2>1. m \in Modules
    BY <1>1, EntriesInRange
  <2>. QED  BY <1>2, <2>1 DEF IInv, TablesOK, Modules
<1>3. AppMain \notin EntriesOf(switches)
  BY <1>1 DEF IInv, TablesOK, switches
<1>4. EntriesOf(protocols) \subseteq OfKind({"bridge", "flow"}) \cup {AppMain}
  BY <1>1, <1>2 DEF protocols, OfKind, ModType
<1>5. EntriesOf(switches) \subseteq OfKind({"asic", "flow_stub"})
  BY <1>1, <1>2, <1>3 DEF switches, OfKind, ModType
<1>6. ASSUME NEW m \in Registered, m # AppMain
      PROVE  \E t \in ModTypes : m \in EntriesOf(mods[t]) /\ ModType(dir[m]) = t
  BY <1>2, <1>6 DEF Registered
<1>7. Registered \cap OfKind({"bridge", "flow"}) \subseteq EntriesOf(protocols)
  BY <1>6 DEF OfKind, ModType, protocols
<1>8. Registered \cap OfKind({"asic", "flow_stub"}) \subseteq EntriesOf(switches)
  BY <1>6 DEF OfKind, ModType, switches
<1>9. EntriesOf(protocols) \cup EntriesOf(switches) \subseteq Registered
  BY <1>1 DEF Registered, protocols, switches
<1>. QED  BY <1>4, <1>5, <1>7, <1>8, <1>9

(* Offering a protocol to a switch is LinkPair or a stutter.               *)
LEMMA OfferRefines ==
  ASSUME IInv, proto_reg_func
  PROVE  (\E p, s \in Modules : Links!LinkPair(p, s)) \/ UNCHANGED Links!lvars
<1>. DEFINE p == protocols[proto_loop + 1]
            s == switches[loop + 1]
<1>0. /\ pc = "link" /\ proto_loop < Len(protocols) /\ loop < Len(switches)
      /\ UNCHANGED <<dir, mods>>
  BY DEF proto_reg_func
<1>1. /\ pc' = "link"
      /\ Supports(p, s) => devs' = [devs EXCEPT ![p] = Append(@, s)]
      /\ ~Supports(p, s) => devs' = devs
  BY <1>0, DeviceIsNew DEF proto_reg_func, register_dev
<1>2. /\ UNCHANGED <<Registered, ProtoSwitchPairs>>
      /\ Phase = "linking" /\ Phase' = "linking"
  BY <1>0, <1>1, PairsFixed DEF Registered, EntriesOf, Phase
<1>3. CASE ~Supports(p, s)
  <2>1. UNCHANGED LinkedPairs
    BY <1>1, <1>3 DEF LinkedPairs, EntriesOf
  <2>. QED  BY <1>2, <2>1 DEF Links!lvars
<1>4. CASE Supports(p, s)
  <2>1. /\ p \in Files /\ s \in Files /\ s \notin EntriesOf(devs[p])
        /\ devs \in [Files -> Seq(Files)]
        /\ devs' = [devs EXCEPT ![p] = Append(@, s)]
    BY <1>0, <1>1, <1>4, DeviceIsNew, LinkFacts
  <2>2. /\ EntriesOf(devs'[p]) = EntriesOf(devs[p]) \cup {s}
        /\ \A q \in Files : q # p => devs'[q] = devs[q]
    BY <2>1, AppendEntries
  <2>3. LinkedPairs' = LinkedPairs \cup {<<p, s>>} /\ <<p, s>> \notin LinkedPairs
    BY <2>1, <2>2 DEF LinkedPairs
  <2>4. p \in EntriesOf(protocols) /\ s \in EntriesOf(switches)
    <3>1. proto_loop + 1 \in 1..Len(protocols) /\ loop + 1 \in 1..Len(switches)
      BY <1>0, LinkFacts
    <3>. QED  BY <3>1 DEF EntriesOf
  <2>5. <<p, s>> \in ProtoSwitchPairs /\ p \in Registered /\ s \in Registered
    BY <1>0, <1>4, <2>4, RegisteredTables DEF ProtoSwitchPairs
  <2>6. Links!LinkPair(p, s)
    BY <1>2, <2>3, <2>5 DEF Links!LinkPair, Links!Required
  <2>. QED  BY <2>1, <2>6 DEF Modules
<1>. QED  BY <1>3, <1>4

(* Running starts with every required pair linked, and no other.           *)
LEMMA LinkedRefines ==
  ASSUME IInv, Linked
  PROVE  Links!Run
<1>0. /\ pc = "link" /\ pc' = "linked" /\ proto_loop = Len(protocols)
      /\ UNCHANGED <<dir, mods, devs>>
  BY DEF Linked
<1>1. /\ UNCHANGED <<Registered, ProtoSwitchPairs, LinkedPairs>>
      /\ Phase = "linking" /\ Phase' = "running"
  BY <1>0, PairsFixed DEF Registered, LinkedPairs, EntriesOf, Phase
<1>2. \A k \in 1..Len(protocols) : \A j : Offered(k, j)
  BY <1>0, LinkFacts DEF Offered
<1>3. ASSUME NEW q \in Files, NEW x \in Files
      PROVE  x \in EntriesOf(devs[q]) <=>
               Supports(q, x) /\ q \in EntriesOf(protocols) /\ x \in EntriesOf(switches)
  BY <1>2 DEF IInv, DevicesOK, EntriesOf
<1>4. ASSUME NEW q \in Files, NEW x \in Files,
             Supports(q, x), q \in EntriesOf(protocols), x \in EntriesOf(switches)
      PROVE  <<q, x>> \in ProtoSwitchPairs /\ q \in Registered /\ x \in Registered
  BY <1>0, <1>4, RegisteredTables DEF ProtoSwitchPairs
<1>5. ASSUME NEW q \in Registered, NEW x \in Registered, <<q, x>> \in ProtoSwitchPairs
      PROVE  /\ q \in Files /\ x \in Files /\ Supports(q, x)
             /\ q \in EntriesOf(protocols) /\ x \in EntriesOf(switches)
  <2>1. /\ q \in OfKind({"bridge", "flow"}) \cup {AppMain} /\ x \in OfKind({"asic", "flow_stub"})
        /\ Supports(q, x)
    BY <1>5 DEF ProtoSwitchPairs
  <2>2. q # AppMain
    BY <1>0, <2>1, LinkFacts
  <2>. QED  BY <1>0, <2>1, <2>2, RegisteredTables DEF OfKind
<1>6. LinkedPairs \subseteq ProtoSwitchPairs \cap (Registered \X Registered)
  BY <1>3, <1>4 DEF LinkedPairs
<1>7. ProtoSwitchPairs \cap (Registered \X Registered) \subseteq LinkedPairs
  BY <1>3, <1>5 DEF LinkedPairs
<1>. QED  BY <1>1, <1>6, <1>7 DEF Links!Run, Links!Required

(* Every behaviour of the boot is one of SwLinks: when main() starts its   *)
(* modules, exactly the supporting pairs of registered modules are linked  *)
(* (main.c:290-300), for every directory and every reading order.          *)
THEOREM BootImplementsLinks == Spec => ImplementsLinks
<1>1. Init => Links!LInit
  BY InitRefines
<1>2. IInv /\ [Next]_vars => [Links!LNext]_(Links!lvars)
  <2>. SUFFICES ASSUME IInv, [Next]_vars
                PROVE  Links!LNext \/ UNCHANGED Links!lvars
    OBVIOUS
  <2>. USE DEF Links!LNext
  <2>1. CASE OpenDir \/ CannotOpenDir \/ EndRead
    BY <2>1, LoadRefines DEF OpenDir, CannotOpenDir, EndRead
  <2>2. ASSUME NEW f \in Files, SkipEntry(f) \/ CannotOpenLib(f) \/ OpenLib(f)
        PROVE  Links!LNext \/ UNCHANGED Links!lvars
    BY <2>2, LoadRefines DEF SkipEntry, CannotOpenLib, OpenLib, Reads
  <2>3. CASE InitLib
    BY <2>3, InitLibRefines
  <2>4. CASE app_init
    BY <2>4, AppInitRefines
  <2>5. CASE proto_reg_func
    BY <2>5, OfferRefines
  <2>6. CASE NextProto
    BY <2>6, PairsFixed DEF NextProto, Links!lvars, Phase, Registered, LinkedPairs, EntriesOf
  <2>7. CASE Linked
    BY <2>7, LinkedRefines
  <2>8. CASE Booted \/ UNCHANGED vars
    BY <2>8, PairsFixed
       DEF Booted, vars, Links!lvars, Phase, Registered, LinkedPairs, EntriesOf
  <2>. QED  BY <2>1, <2>2, <2>3, <2>4, <2>5, <2>6, <2>7, <2>8 DEF Next
<1>. QED  BY <1>1, <1>2, InvariantHolds, PTL DEF Spec, ImplementsLinks, Links!LSpec

-----------------------------------------------------------------------------
(* The order of the tables.                                                *)

(* One more entry that is new to seq keeps sub a selection of it.          *)
LEMMA SelectsAppend ==
  ASSUME NEW M, NEW seq \in Seq(M), NEW sub \in Seq(M), NEW x \in M, NEW S,
         Selects(sub, seq, S), x \notin EntriesOf(seq)
  PROVE  /\ x \in S => Selects(Append(sub, x), Append(seq, x), S)
         /\ x \notin S => Selects(sub, Append(seq, x), S)
<1>1. /\ \A k \in 1..Len(seq) : seq[k] # x
      /\ \A i \in 1..Len(sub) : sub[i] # x
  BY DEF Selects, EntriesOf
<1>2. /\ Len(seq) \in Nat /\ Len(sub) \in Nat
      /\ EntriesOf(Append(seq, x)) = EntriesOf(seq) \cup {x}
      /\ EntriesOf(Append(sub, x)) = EntriesOf(sub) \cup {x}
  BY AppendEntries
<1>3. /\ Len(Append(seq, x)) = Len(seq) + 1 /\ Len(Append(sub, x)) = Len(sub) + 1
      /\ \A k \in 1..Len(seq) : Append(seq, x)[k] = seq[k]
      /\ \A i \in 1..Len(sub) : Append(sub, x)[i] = sub[i]
      /\ Append(seq, x)[Len(seq) + 1] = x /\ Append(sub, x)[Len(sub) + 1] = x
  BY AppendEntries
<1>4. ASSUME NEW i \in 1..Len(sub), NEW j \in 1..Len(sub),
             NEW k \in 1..(Len(seq) + 1), NEW l \in 1..(Len(seq) + 1),
             i < j, sub[i] = Append(seq, x)[k], sub[j] = Append(seq, x)[l]
      PROVE  k < l
  <2>1. k # Len(seq) + 1 /\ l # Len(seq) + 1
    BY <1>1, <1>3, <1>4
  <2>2. k \in 1..Len(seq) /\ l \in 1..Len(seq)
    BY <1>2, <2>1
  <2>. QED  BY <1>3, <1>4, <2>2 DEF Selects, InOrderOf
<1>5. ASSUME NEW i \in 1..(Len(sub) + 1), NEW j \in 1..(Len(sub) + 1),
             NEW k \in 1..(Len(seq) + 1), NEW l \in 1..(Len(seq) + 1),
             i < j, Append(sub, x)[i] = Append(seq, x)[k], Append(sub, x)[j] = Append(seq, x)[l]
      PROVE  k < l
  <2>1. i \in 1..Len(sub) /\ Append(sub, x)[i] = sub[i]
    BY <1>2, <1>3, <1>5
  <2>2. k \in 1..Len(seq)
    <3>1. k # Len(seq) + 1
      BY <1>1, <1>3, <1>5, <2>1
    <3>. QED  BY <1>2, <3>1
  <2>3. CASE j = Len(sub) + 1
    BY <1>1, <1>2, <1>3, <1>5, <2>2, <2>3
  <2>4. CASE j # Len(sub) + 1
    <3>1. j \in 1..Len(sub) /\ Append(sub, x)[j] = sub[j]
      BY <1>2, <1>3, <2>4
    <3>. QED  BY <1>4, <1>5, <2>1, <3>1
  <2>. QED  BY <2>3, <2>4
<1>6. InOrderOf(sub, Append(seq, x)) /\ InOrderOf(Append(sub, x), Append(seq, x))
  BY <1>3, <1>4, <1>5 DEF InOrderOf
<1>. QED  BY <1>2, <1>6 DEF Selects

(* Nothing has had its turn when the loop over the libraries starts.       *)
LEMMA NothingCalled ==
  ASSUME IInv, pc \in {"open", "read"}, pc' = "init", UNCHANGED <<mods, loop>>, hndl' = hndl
  PROVE  RegistrationOrder'
<1>1. loop = 0 /\ hndl \in Seq(Files) /\ \A t \in ModTypes : mods[t] = <<>>
  BY DEF IInv, TypeOK, TablesOK
<1>2. Called' = <<>>
  BY <1>1 DEF Called
<1>3. \A S : Selects(<<>>, <<>>, S)
  BY DEF Selects, InOrderOf, EntriesOf
<1>. QED  BY <1>1, <1>2, <1>3 DEF RegistrationOrder

(* The library that has its turn becomes the last of those that had it.    *)
LEMMA InitLibOrder ==
  ASSUME IInv, RegistrationOrder, InitLib
  PROVE  RegistrationOrder'
<1>. DEFINE lib == hndl[loop + 1]
<1>0. /\ pc = "init" /\ loop \in Nat /\ loop < Len(hndl)
      /\ hndl \in Seq(Files) /\ mods \in [ModTypes -> Seq(Modules)]
      /\ lib \in Modules /\ lib \in Files /\ lib # AppMain
      /\ loop' = loop + 1 /\ UNCHANGED <<dir, hndl>>
  BY DEF IInv, TypeOK, InitLib, Modules
<1>1. pc' = "init"
  BY <1>0, InitRegisters DEF InitLib
<1>2. /\ Called \in Seq(Modules) /\ Len(Called) = loop
      /\ \A i \in 1..loop : Called[i] = hndl[i]
  BY <1>0 DEF Called, Modules
<1>3. Called' = Append(Called, lib)
  BY <1>0, <1>1 DEF Called
<1>4. lib \notin EntriesOf(Called)
  BY <1>0, <1>2 DEF EntriesOf, IInv, HandlesOK, NoDuplicates
<1>5. \A t \in ModTypes : OfType(t)' = OfType(t)
  BY <1>0 DEF OfType
<1>6. ASSUME NEW t \in ModTypes
      PROVE  mods'[t] = IF lib \in OfType(t) THEN Append(mods[t], lib) ELSE mods[t]
  <2>1. CASE dir[lib] = "noinit"
    BY <1>0, <2>1 DEF OfType, InitLib
  <2>2. CASE dir[lib] # "noinit"
    <3>1. mods' = [mods EXCEPT ![ModType(dir[lib])] = Append(@, lib)]
      BY <2>2, InitRegisters
    <3>2. lib \in OfType(t) <=> t = ModType(dir[lib])
      BY <1>0, <2>2 DEF OfType
    <3>. QED  BY <1>0, <3>1, <3>2
  <2>. QED  BY <2>1, <2>2
<1>7. ASSUME NEW t \in ModTypes PROVE Selects(mods'[t], Called', OfType(t)')
  <2>1. Selects(mods[t], Called, OfType(t)) /\ mods[t] \in Seq(Modules)
    BY <1>0 DEF RegistrationOrder
  <2>. QED  BY <1>0, <1>2, <1>3, <1>4, <1>5, <1>6, <2>1, SelectsAppend
<1>. QED  BY <1>7 DEF RegistrationOrder

(* The main program's protocol comes last.                                 *)
LEMMA AppInitOrder ==
  ASSUME IInv, RegistrationOrder, app_init
  PROVE  RegistrationOrder'
<1>0. /\ pc = "init" /\ loop = Len(hndl)
      /\ hndl \in Seq(Files) /\ mods \in [ModTypes -> Seq(Modules)]
      /\ AppMain \in Modules /\ "protocol" \in ModTypes
      /\ UNCHANGED <<dir, hndl>>
  BY DEF IInv, TypeOK, app_init, Modules, ModTypes
<1>1. Called = hndl /\ Called \in Seq(Modules)
  BY <1>0 DEF Called, Modules
<1>2. AppMain \notin EntriesOf(Called)
  BY <1>0, <1>1 DEF EntriesOf
<1>3. \A t \in ModTypes : OfType(t)' = OfType(t)
  BY <1>0 DEF OfType
<1>4. CASE Len(mods["protocol"]) < MaxObjects
  <2>1. pc' = "link" /\ mods' = [mods EXCEPT !["protocol"] = Append(@, AppMain)]
    BY <1>4 DEF app_init, register_mod
  <2>2. Called' = Append(Called, AppMain)
    BY <1>0, <1>1, <2>1 DEF Called
  <2>3. ASSUME NEW t \in ModTypes
        PROVE  mods'[t] = IF AppMain \in OfType(t) THEN Append(mods[t], AppMain) ELSE mods[t]
    BY <1>0, <2>1 DEF OfType
  <2>4. ASSUME NEW t \in ModTypes PROVE Selects(mods'[t], Called', OfType(t)')
    <3>1. Selects(mods[t], Called, OfType(t)) /\ mods[t] \in Seq(Modules)
      BY <1>0 DEF RegistrationOrder
    <3>. QED  BY <1>0, <1>1, <1>2, <1>3, <2>2, <2>3, <3>1, SelectsAppend
  <2>. QED  BY <2>4 DEF RegistrationOrder
<1>5. CASE ~(Len(mods["protocol"]) < MaxObjects)
  BY <1>5 DEF app_init, register_mod, RegistrationOrder
<1>. QED  BY <1>4, <1>5

(* A step that leaves the tables and the libraries alone keeps the order.  *)
LEMMA SameOrder ==
  ASSUME RegistrationOrder, UNCHANGED <<dir, hndl, mods>>,
         \/ pc' = pc /\ (pc = "init" => loop' = loop)
         \/ pc = "link" /\ pc' = "linked"
         \/ pc' \in {"open", "read", "undefined"}
  PROVE  RegistrationOrder'
<1>1. pc' \in {"init", "link", "linked"} =>
        /\ Called' = Called
        /\ \A t \in ModTypes : OfType(t)' = OfType(t)
  BY DEF Called, OfType
<1>2. pc' \in {"init", "link", "linked"} => pc \in {"init", "link", "linked"}
  OBVIOUS
<1>. QED  BY <1>1, <1>2 DEF RegistrationOrder

(* Every table is in the order in which the libraries were opened, and no  *)
(* library of its type is left out (main.c:275-289), for every directory   *)
(* and every reading order: the numbers of protocols and switches that the *)
(* shell and the messages use never move.                                  *)
THEOREM TablesInOrder == Spec => []RegistrationOrder
<1>1. Init => RegistrationOrder
  BY DEF Init, RegistrationOrder
<1>2. IInv /\ RegistrationOrder /\ [Next]_vars => RegistrationOrder'
  <2>. SUFFICES ASSUME IInv, RegistrationOrder, [Next]_vars PROVE RegistrationOrder'
    OBVIOUS
  <2>1. CASE OpenDir \/ CannotOpenDir \/ EndRead
    BY <2>1, NothingCalled, SameOrder DEF OpenDir, CannotOpenDir, EndRead
  <2>2. ASSUME NEW f \in Files, SkipEntry(f) \/ CannotOpenLib(f) \/ OpenLib(f)
        PROVE  RegistrationOrder'
    BY <2>2 DEF SkipEntry, CannotOpenLib, OpenLib, Reads, RegistrationOrder
  <2>3. CASE InitLib
    BY <2>3, InitLibOrder
  <2>4. CASE app_init
    BY <2>4, AppInitOrder
  <2>5. CASE proto_reg_func
    BY <2>5, SameOrder DEF proto_reg_func, register_dev
  <2>6. CASE NextProto
    BY <2>6, SameOrder DEF NextProto
  <2>7. CASE Linked
    BY <2>7, SameOrder DEF Linked
  <2>8. CASE Booted \/ UNCHANGED vars
    BY <2>8, SameOrder DEF Booted, vars
  <2>. QED  BY <2>1, <2>2, <2>3, <2>4, <2>5, <2>6, <2>7, <2>8 DEF Next
<1>. QED  BY <1>1, <1>2, InvariantHolds, PTL DEF Spec

(* A boot that ends well hands over between 1 and MaxObjects protocols,    *)
(* the application's own the last: every part of the program that runs     *)
(* afterwards has a protocol to serve, and `app` is its highest number.    *)
THEOREM HandedOver ==
  Spec => [](pc = "linked" => /\ Len(protocols) \in 1..MaxObjects
                              /\ protocols[Len(protocols)] = AppMain)
<1>1. ASSUME IInv, RegistrationOrder, pc = "linked"
      PROVE  Len(protocols) \in 1..MaxObjects /\ protocols[Len(protocols)] = AppMain
  <2>1. /\ protocols \in Seq(Modules) /\ hndl \in Seq(Files) /\ "protocol" \in ModTypes
        /\ Len(protocols) <= MaxObjects /\ AppMain \in EntriesOf(protocols)
        /\ Selects(protocols, Called, OfType("protocol"))
    BY <1>1 DEF IInv, TypeOK, TablesOK, RegistrationOrder, protocols, ModTypes
  <2>2. PICK i \in 1..Len(protocols) : protocols[i] = AppMain
    BY <2>1 DEF EntriesOf
  <2>3. Len(Called) = Len(hndl) + 1 /\ Called[Len(hndl) + 1] = AppMain /\ Len(hndl) \in Nat
    BY <1>1, <2>1 DEF Called
  <2>4. ASSUME i < Len(protocols) PROVE FALSE
    <3>1. protocols[Len(protocols)] \in EntriesOf(Called)
      <4>1. protocols[Len(protocols)] \in EntriesOf(protocols)
        BY <2>1, <2>2 DEF EntriesOf
      <4>. QED  BY <2>1, <4>1 DEF Selects
    <3>2. PICK l \in 1..Len(Called) : protocols[Len(protocols)] = Called[l]
      BY <3>1 DEF EntriesOf
    <3>3. Len(hndl) + 1 < l
      BY <2>1, <2>2, <2>3, <2>4, <3>2 DEF Selects, InOrderOf
    <3>. QED  BY <2>3, <3>2, <3>3
  <2>. QED  BY <2>1, <2>2, <2>4
<1>. QED  BY <1>1, InvariantHolds, TablesInOrder, PTL

(* What stands in seq behind all that sub has may be appended to sub.      *)
LEMMA NewLast ==
  ASSUME NEW M, NEW sub \in Seq(M), NEW x \in M, NEW seq, NEW n \in Nat,
         InOrderOf(sub, seq), Len(seq) \in Nat,
         \A i \in 1..Len(sub), k \in 1..Len(seq) : sub[i] = seq[k] => k <= n,
         \A l \in 1..Len(seq) : x = seq[l] => l = n + 1
  PROVE  InOrderOf(Append(sub, x), seq)
<1>. DEFINE more == Append(sub, x)
<1>0. /\ Len(more) = Len(sub) + 1 /\ more[Len(sub) + 1] = x
      /\ \A i \in 1..Len(sub) : more[i] = sub[i]
  BY AppendEntries
<1>. HIDE DEF more
<1>. SUFFICES ASSUME NEW i \in 1..Len(more), NEW j \in 1..Len(more),
                     NEW k \in 1..Len(seq), NEW l \in 1..Len(seq),
                     i < j, more[i] = seq[k], more[j] = seq[l]
              PROVE  k < l
  BY DEF InOrderOf, more
<1>1. Len(sub) \in Nat /\ i \in 1..Len(sub) /\ sub[i] = seq[k]
  BY <1>0
<1>2. CASE j = Len(sub) + 1
  BY <1>0, <1>1, <1>2
<1>3. CASE j \in 1..Len(sub)
  BY <1>0, <1>1, <1>3 DEF InOrderOf
<1>. QED  BY <1>0, <1>1, <1>2, <1>3

(* The device of a switch goes behind those of the switches before it.     *)
LEMMA OfferOrder ==
  ASSUME IInv, DevicesInOrder, proto_reg_func
  PROVE  DevicesInOrder'
<1>. DEFINE p == protocols[proto_loop + 1]
            s == switches[loop + 1]
<1>0. /\ pc = "link" /\ proto_loop < Len(protocols) /\ loop < Len(switches)
      /\ UNCHANGED <<mods, switches, protocols>>
  BY DEF proto_reg_func, switches, protocols
<1>1. /\ pc' = "link"
      /\ Supports(p, s) => devs' = [devs EXCEPT ![p] = Append(@, s)]
      /\ ~Supports(p, s) => devs' = devs
  BY <1>0, DeviceIsNew DEF proto_reg_func, register_dev
<1>2. ASSUME NEW q \in Files PROVE InOrderOf(devs'[q], switches)
  <2>0. InOrderOf(devs[q], switches)
    BY DEF DevicesInOrder
  <2>1. CASE ~Supports(p, s) \/ q # p
    <3>1. devs'[q] = devs[q]
      BY <1>0, <1>1, <2>1, LinkFacts
    <3>. QED  BY <2>0, <3>1
  <2>2. CASE Supports(p, s) /\ q = p
    <3>1. devs[p] \in Seq(Files) /\ devs'[p] = Append(devs[p], s) /\ s \in Files
      <4>1. p \in Files /\ s \in Files /\ devs \in [Files -> Seq(Files)]
        BY <1>0, <2>2, DeviceIsNew, LinkFacts
      <4>. QED  BY <1>1, <2>2, <4>1
    <3>2. ASSUME NEW i \in 1..Len(devs[p]), NEW k \in 1..Len(switches), devs[p][i] = switches[k]
          PROVE  k <= loop
      <4>1. devs[p][i] \in EntriesOf(devs[p]) /\ devs[p][i] \in Files
        BY <3>1 DEF EntriesOf
      <4>2. PICK n \in 1..Len(protocols), j \in 1..Len(switches) :
                   protocols[n] = p /\ switches[j] = devs[p][i] /\ Offered(n, j)
        BY <2>2, <4>1 DEF IInv, DevicesOK
      <4>3. j = k /\ n = proto_loop + 1
        <5>1. NoDuplicates(protocols) /\ NoDuplicates(switches)
          BY <1>0, LinkFacts
        <5>2. proto_loop + 1 \in 1..Len(protocols)
          BY <1>0, LinkFacts
        <5>. QED  BY <3>2, <4>2, <5>1, <5>2 DEF NoDuplicates
      <4>. QED  BY <1>0, <4>2, <4>3, LinkFacts DEF Offered
    <3>3. \A l \in 1..Len(switches) : s = switches[l] => l = loop + 1
      BY <1>0, LinkFacts DEF NoDuplicates
    <3>4. loop \in Nat /\ Len(switches) \in Nat
      BY <1>0, LinkFacts
    <3>. QED  BY <2>0, <2>2, <3>1, <3>2, <3>3, <3>4, NewLast
  <2>. QED  BY <2>1, <2>2
<1>. QED  BY <1>0, <1>1, <1>2 DEF DevicesInOrder

(* Linking ends with each supporting switch in the table of its protocol.  *)
LEMMA LinkedOrder ==
  ASSUME IInv, DevicesInOrder, Linked
  PROVE  DevicesInOrder'
<1>0. /\ pc = "link" /\ proto_loop = Len(protocols)
      /\ UNCHANGED <<dir, mods, devs, switches, protocols>>
  BY DEF Linked, switches, protocols
<1>1. ASSUME NEW p \in Files
      PROVE  EntriesOf(devs[p]) = IF p \in EntriesOf(protocols)
                                    THEN {s \in EntriesOf(switches) : Supports(p, s)} ELSE {}
  <2>1. EntriesOf(devs[p]) \subseteq Files /\ EntriesOf(switches) \subseteq Files
    BY <1>0, LinkFacts DEF EntriesOf
  <2>2. \A k \in 1..Len(protocols) : \A j : Offered(k, j)
    BY <1>0, LinkFacts DEF Offered
  <2>3. ASSUME NEW s \in Files
        PROVE  s \in EntriesOf(devs[p]) <=>
                 Supports(p, s) /\ p \in EntriesOf(protocols) /\ s \in EntriesOf(switches)
    BY <2>2 DEF IInv, DevicesOK, EntriesOf
  <2>. QED  BY <2>1, <2>3
<1>2. \A p, s : Supports(p, s)' <=> Supports(p, s)
  BY <1>0 DEF Supports, SwitchProto, ProtoType
<1>. QED  BY <1>0, <1>1, <1>2 DEF DevicesInOrder, InOrderOf, EntriesOf

(* `dev=n` is the n-th supporting switch in every protocol library         *)
(* (main.c:290-300), for every directory and every reading order.          *)
THEOREM DeviceTablesInOrder == Spec => []DevicesInOrder
<1>1. Init => DevicesInOrder
  BY DEF Init, DevicesInOrder, InOrderOf, EntriesOf
<1>2. IInv /\ DevicesInOrder /\ [Next]_vars => DevicesInOrder'
  <2>. SUFFICES ASSUME IInv, DevicesInOrder, [Next]_vars PROVE DevicesInOrder'
    OBVIOUS
  <2>0. ASSUME UNCHANGED <<mods, devs>>, pc' # "linked" PROVE DevicesInOrder'
    BY <2>0 DEF DevicesInOrder, InOrderOf, switches
  <2>1. CASE OpenDir \/ CannotOpenDir \/ EndRead
    BY <2>0, <2>1 DEF OpenDir, CannotOpenDir, EndRead
  <2>2. ASSUME NEW f \in Files, SkipEntry(f) \/ CannotOpenLib(f) \/ OpenLib(f)
        PROVE  DevicesInOrder'
    BY <2>0, <2>2 DEF SkipEntry, CannotOpenLib, OpenLib, Reads
  <2>3. CASE InitLib \/ app_init
    <3>1. pc = "init" /\ pc' # "linked" /\ devs' = devs
      BY <2>3 DEF InitLib, app_init, register_mod
    <3>2. \A p \in Files : Len(devs'[p]) = 0
      BY <3>1, NoDevicesYet
    <3>. QED  BY <3>1, <3>2 DEF DevicesInOrder, InOrderOf
  <2>4. CASE proto_reg_func
    BY <2>4, OfferOrder
  <2>5. CASE NextProto
    BY <2>0, <2>5 DEF NextProto
  <2>6. CASE Linked
    BY <2>6, LinkedOrder
  <2>7. CASE Booted \/ UNCHANGED vars
    <3>1. UNCHANGED vars
      BY <2>7 DEF Booted
    <3>2. \A p, s : Supports(p, s)' <=> Supports(p, s)
      BY <3>1 DEF vars, Supports, SwitchProto, ProtoType
    <3>. QED  BY <3>1, <3>2 DEF vars, DevicesInOrder, switches, protocols
  <2>. QED  BY <2>1, <2>2, <2>3, <2>4, <2>5, <2>6, <2>7 DEF Next
<1>. QED  BY <1>1, <1>2, InvariantHolds, PTL DEF Spec

-----------------------------------------------------------------------------
(* The end of the boot.                                                    *)

BootLeftOK == Stage \in Nat /\ Turns \in Nat /\ InnerTurns \in Nat

(* What is left to do can be counted.                                      *)
LEMMA BootLeftCounts ==
  ASSUME IInv
  PROVE  BootLeftOK
<1>1. Cardinality(unread) \in Nat
  BY FS_Subset, FS_CardinalityType DEF IInv, TypeOK
<1>2. Stage \in Nat
  BY DEF Stage
<1>3. pc = "init" => Len(hndl) - loop \in Nat
  BY DEF IInv, TypeOK
<1>4. pc = "link" => Len(protocols) - proto_loop \in Nat /\ Len(switches) - loop \in Nat
  BY LinkFacts
<1>. QED  BY <1>1, <1>2, <1>3, <1>4 DEF BootLeftOK, Turns, InnerTurns

(* Each step of the boot leaves less of it (main.c:77-300): a stage is     *)
(* behind, an entry was read, a library initialised, a protocol or a       *)
(* switch passed.  By LowerEnds there is no boot without end.              *)
THEOREM BootEnds == Spec => BootProgress
<1>0. IInv => BootLeftOK
  BY BootLeftCounts
<1>1. ASSUME IInv, BootLeftOK, BootLeftOK', Next, ~UNCHANGED vars
      PROVE  Lower(3, BootLeft', BootLeft)
  <2>. SUFFICES \/ Stage' < Stage
                \/ Stage' = Stage /\ Turns' < Turns
                \/ Stage' = Stage /\ Turns' = Turns /\ InnerTurns' < InnerTurns
    BY <1>1, LowerThree DEF BootLeft, BootLeftOK
  <2>1. CASE OpenDir \/ CannotOpenDir \/ EndRead \/ app_init \/ Linked
    BY <2>1 DEF OpenDir, CannotOpenDir, EndRead, app_init, register_mod, Linked, Stage
  <2>2. ASSUME NEW f \in Files, SkipEntry(f) \/ CannotOpenLib(f) \/ OpenLib(f)
        PROVE  Stage' < Stage \/ (Stage' = Stage /\ Turns' < Turns)
    <3>1. pc = "read" /\ f \in unread /\ unread' = unread \ {f} /\ pc' \in {"read", "undefined"}
      BY <2>2 DEF SkipEntry, CannotOpenLib, OpenLib, Reads
    <3>2. IsFiniteSet(unread)
      BY <1>1, FS_Subset DEF IInv, TypeOK
    <3>3. Cardinality(unread \ {f}) < Cardinality(unread) /\ Cardinality(unread) \in Nat
      <4>1. Cardinality(unread) \in Nat
        BY <3>2, FS_CardinalityType
      <4>2. Cardinality(unread \ {f}) = Cardinality(unread) - 1
        BY <3>1, <3>2, FS_RemoveElement
      <4>. QED  BY <4>1, <4>2
    <3>. QED  BY <3>1, <3>3 DEF Stage, Turns
  <2>3. CASE InitLib
    <3>1. pc = "init" /\ loop' = loop + 1 /\ hndl' = hndl /\ loop \in Nat /\ Len(hndl) \in Nat
      BY <1>1, <2>3 DEF InitLib, IInv, TypeOK
    <3>2. pc' = "init"
      BY <1>1, <2>3, InitRegisters DEF InitLib
    <3>. QED  BY <3>1, <3>2 DEF Stage, Turns
  <2>4. CASE proto_reg_func
    <3>1. /\ pc = "link" /\ pc' = "link" /\ loop' = loop + 1
          /\ UNCHANGED <<mods, proto_loop>>
      BY <1>1, <2>4, DeviceIsNew DEF proto_reg_func, register_dev
    <3>. QED  BY <1>1, <3>1, LinkFacts DEF Stage, Turns, InnerTurns, protocols, switches
  <2>5. CASE NextProto
    <3>1. pc = "link" /\ pc' = "link" /\ proto_loop' = proto_loop + 1 /\ mods' = mods
      BY <2>5 DEF NextProto
    <3>. QED  BY <1>1, <3>1, LinkFacts DEF Stage, Turns, protocols
  <2>. QED  BY <1>1, <2>1, <2>2, <2>3, <2>4, <2>5 DEF Next, Booted
<1>2. IInv /\ BootLeftOK /\ BootLeftOK' /\ [Next]_vars => [Lower(3, BootLeft', BootLeft)]_vars
  BY <1>1
<1>. QED  BY <1>0, <1>2, InvariantHolds, PTL DEF Spec, BootProgress

============================================================================
