---------------------------- MODULE StoreProofs ----------------------------
(***************************************************************************)
(* Proofs about the persistent store, for a disk and an index of any size, *)
(* any packages and any files: as long as reads do not fail, what was      *)
(* stored is whole, wherever the power goes and whichever writes fail, and *)
(* comes back, but for what a start has no room for.                       *)
(***************************************************************************)
EXTENDS PersistentStore, WellFoundedInduction, TLAPS

\* Of several entries with a file one was written last.
LEMMA LastOne ==
    ASSUME NEW n \in Nat, NEW S \in SUBSET (1 .. n), S # {}
    PROVE  \E i \in S : \A j \in S : j <= i
<1> DEFINE R == OpToRel(<, Nat)
           T == {n - i : i \in S}
<1>1. \A x, y \in Nat : y < x => <<y, x>> \in R
  BY DEF OpToRel
<1>2. IsWellFoundedOn(R, Nat)
  BY Zenon, NatLessThanWellFounded
<1> HIDE DEF R
<1>3. T \subseteq Nat /\ T # {}
  <2>1. PICK i \in S : TRUE
    BY Zenon
  <2>2. n - i \in T
    BY <2>1
  <2>3. T \subseteq Nat
    OBVIOUS
  <2> QED
    BY <2>2, <2>3
<1>4. PICK x \in T : \A y \in T : ~(<<y, x>> \in R)
  BY Zenon, <1>2, <1>3, WFMin
<1>5. PICK i \in S : x = n - i
  OBVIOUS
<1>6. \A j \in S : ~(n - j < n - i)
  BY Zenon, <1>1, <1>3, <1>4, <1>5
<1> QED
  BY <1>6

-----------------------------------------------------------------------------
(* Files written over files.                                               *)

\* The layers that have a file.
Having(layers, p) == {i \in DOMAIN layers : p \in DOMAIN layers[i]}

\* L has each path as the last layer with it has it, or as f does.
LastDecides(L, f, layers) ==
    /\ L = [p \in DOMAIN L |-> L[p]]
    /\ \A p : p \in DOMAIN L <=> p \in DOMAIN f \/ Having(layers, p) # {}
    /\ \A p \in DOMAIN f : Having(layers, p) = {} => L[p] = f[p]
    /\ \A p : Having(layers, p) # {} =>
         \E i \in Having(layers, p) :
           L[p] = layers[i][p] /\ \A j \in Having(layers, p) : j <= i

\* What writing layer after layer leaves.
LEMMA LayeredIs ==
    ASSUME NEW f, NEW layers, NEW n \in Nat, DOMAIN layers = 1 .. n
    PROVE  LastDecides(Layered(f, layers), f, layers)
<1> DEFINE L == Layered(f, layers)
           D == DOMAIN f \cup UNION {DOMAIN layers[i] : i \in DOMAIN layers}
           Latest(p) == CHOOSE i \in Having(layers, p) : \A j \in Having(layers, p) : j <= i
<1>1. L = [p \in D |-> IF Having(layers, p) = {} THEN f[p] ELSE layers[Latest(p)][p]]
  BY Zenon DEF Layered, Having
<1>2. \A p : p \in D <=> p \in DOMAIN f \/ Having(layers, p) # {}
  BY Zenon DEF Having
<1> HIDE DEF L, D
<1>3. DOMAIN L = D /\ L = [p \in DOMAIN L |-> L[p]]
  BY <1>1
<1>4. ASSUME NEW p, Having(layers, p) # {}
      PROVE  \E i \in Having(layers, p) :
               L[p] = layers[i][p] /\ \A j \in Having(layers, p) : j <= i
  <2>1. \E i \in Having(layers, p) : \A j \in Having(layers, p) : j <= i
    BY Zenon, <1>4, LastOne DEF Having
  <2>2. Latest(p) \in Having(layers, p) /\ \A j \in Having(layers, p) : j <= Latest(p)
    BY Zenon, <2>1
  <2> HIDE DEF Latest
  <2>3. L[p] = layers[Latest(p)][p]
    BY Zenon, <1>1, <1>2, <1>4
  <2> QED
    BY Zenon, <2>2, <2>3
<1>5. \A p \in DOMAIN f : Having(layers, p) = {} => L[p] = f[p]
  BY Zenon, <1>1, <1>2
<1> QED
  BY Zenon, <1>2, <1>3, <1>4, <1>5 DEF L, LastDecides

\* Files of one kind over others.
LEMMA OverIs ==
    ASSUME NEW f, NEW g
    PROVE  LET L == Layered(f, <<g>>)
           IN /\ L = [p \in DOMAIN L |-> L[p]]
              /\ DOMAIN L = DOMAIN f \cup DOMAIN g
              /\ \A p \in DOMAIN L : L[p] = IF p \in DOMAIN g THEN g[p] ELSE f[p]
<1> DEFINE layers == <<g>>
           L == Layered(f, layers)
<1>1. 1 \in Nat /\ DOMAIN layers = 1 .. 1 /\ layers[1] = g
  OBVIOUS
<1>2. \A p : Having(layers, p) = IF p \in DOMAIN g THEN {1} ELSE {}
  BY <1>1 DEF Having
<1> HIDE DEF layers
<1>3. /\ L = [p \in DOMAIN L |-> L[p]]
      /\ \A p : p \in DOMAIN L <=> p \in DOMAIN f \/ Having(layers, p) # {}
      /\ \A p \in DOMAIN f : Having(layers, p) = {} => L[p] = f[p]
      /\ \A p : Having(layers, p) # {} =>
           \E i \in Having(layers, p) :
             L[p] = layers[i][p] /\ \A j \in Having(layers, p) : j <= i
  <2>1. LastDecides(L, f, layers)
    BY Zenon, <1>1, LayeredIs
  <2> HIDE DEF L
  <2> QED
    BY Zenon, <2>1 DEF LastDecides
<1> HIDE DEF L
<1>4. DOMAIN L = DOMAIN f \cup DOMAIN g
  BY Zenon, <1>2, <1>3
<1>5. ASSUME NEW p, p \in DOMAIN g PROVE L[p] = g[p]
  <2>1. Having(layers, p) = {1}
    BY Zenon, <1>2, <1>5
  <2>2. PICK i \in Having(layers, p) : L[p] = layers[i][p]
    BY Zenon, <1>3, <2>1
  <2> QED
    BY Zenon, <1>1, <2>1, <2>2
<1> QED
  BY Zenon, <1>2, <1>3, <1>4, <1>5 DEF L, layers

\* Writing one record.
LEMMA WrittenOne ==
    ASSUME NEW f, NEW record
    PROVE  Written(f, <<record>>) =
             [p \in DOMAIN f \cup {record.path} |-> IF p = record.path THEN record.value ELSE f[p]]
<1>1. [i \in DOMAIN <<record>> |-> File(<<record>>[i])] = <<File(record)>>
  OBVIOUS
<1>2. DOMAIN File(record) = {record.path} /\ File(record)[record.path] = record.value
  BY DEF File
<1> DEFINE g == File(record)
           L == Layered(f, <<g>>)
<1>3. Written(f, <<record>>) = L
  BY Zenon, <1>1 DEF Written
<1>4. /\ L = [p \in DOMAIN L |-> L[p]]
      /\ DOMAIN L = DOMAIN f \cup DOMAIN g
      /\ \A p \in DOMAIN L : L[p] = IF p \in DOMAIN g THEN g[p] ELSE f[p]
  BY Zenon, OverIs
<1> HIDE DEF L, g
<1>5. DOMAIN g = {record.path} /\ g[record.path] = record.value
  BY <1>2 DEF g
<1>6. \A p \in DOMAIN L : L[p] = IF p = record.path THEN record.value ELSE f[p]
  BY <1>4, <1>5
<1> QED
  BY <1>3, <1>4, <1>5, <1>6

-----------------------------------------------------------------------------
(* The invariant.                                                          *)

\* Files: no path is the empty one, which marks the end of an entry's records.
IsFiles(f) == f = [p \in DOMAIN f |-> f[p]] /\ << >> \notin DOMAIN f

\* A marker has no contents.
MarkersEmpty(f) == \A p \in Markers \cap DOMAIN f : f[p] = ""

\* A package is there with its marker, or not at all.
WholeOrAbsent(f, p) ==
    IF Marker(p) \in DOMAIN f THEN Agrees(FilesOf[p], f)
    ELSE DOMAIN FilesOf[p] \cap DOMAIN f = {}

\* What is stored under a name: the files of that package, or a root file system
\* in which no package is there in part, unless a start has left some of it out.
Payload(name, f) ==
    /\ IsFiles(f) /\ DOMAIN f # {} /\ MarkersEmpty(f)
    /\ \/ name \in Known /\ f = FilesOf[name]
       \/ name = RootFs /\ \A p \in sound : WholeOrAbsent(f, p)

\* What n sectors of the disk d hold, from start on.
Contents(d, start, n) == {d[start + k - 1] : k \in 1 .. n}

Holds(d, start, n, f) == Contents(d, start, n) = RecordsOf(f)

\* Package p is in some entry of the index.
Indexed(p) ==
    \E i \in DOMAIN index : index[i].name = p \/ Marker(p) \in DOMAIN log[i]

Elements(s) == {s[i] : i \in DOMAIN s}

\* Files in which every package but perhaps one is stored and whole, or absent.
GoodBut(f, name) ==
    /\ IsFiles(f) /\ MarkersEmpty(f)
    /\ \A p \in sound \ {name} : WholeOrAbsent(f, p)
    /\ \A p \in Known : Marker(p) \in DOMAIN f => Indexed(p)

Good(f) == GoodBut(f, RootFs)

EntryInv(i) ==
    /\ index[i].start \in Sectors /\ index[i].sectors \in Nat \ {0}
    /\ index[i].start + index[i].sectors <= super.next
    /\ Holds(data, index[i].start, index[i].sectors, log[i])
    /\ Payload(index[i].name, log[i])

\* The disk: every entry is whole and lies below the superblock's next sector.
DiskInv ==
    /\ super \in {Blank} \cup [magic : {TRUE}, next : DataStart .. DiskEnd]
    /\ DOMAIN data = Sectors
    /\ index \in Seq(Elements(index)) /\ log \in Seq(Elements(log))
    /\ Len(log) = Len(index) /\ Len(index) <= IndexRoom
    /\ \A i \in DOMAIN index : EntryInv(i)

\* The superblock in memory is not behind the disk's.
RunInv ==
    /\ running \in {"kmain", "kmain64"} /\ sound \subseteq Known
    /\ job.at \in {"off", "none", "data", "index", "stored", "failed"}
    /\ job.at = "off" => job = Off
    /\ job.at = "none" => job = Idle
    /\ sb \in [magic : BOOLEAN, next : DataStart .. DiskEnd]
    /\ job.at # "off" => sb.magic /\ super.next <= sb.next
    /\ jobs \in 0 .. MaxJobs

Busy == job.at \in {"data", "index", "stored", "failed"}
Writing == job.at \in {"data", "index"}

\* The job under way: what it has written so far, above the index, and on behalf
\* of whom.
JobInv ==
    /\ Busy => /\ Payload(job.name, job.files)
               /\ IF running = "kmain" THEN job.name \in Known ELSE job.name = RootFs
    /\ Writing =>
         /\ job \in [at : {"data", "index"}, name : Known \cup {RootFs}, files : since,
                    left : SUBSET RecordsOf(job.files), done : Nat, start : DataStart .. DiskEnd]
         /\ job.start + job.done <= DiskEnd
         /\ Contents(data, job.start, job.done) = RecordsOf(job.files) \ job.left
    /\ job.at = "data" => job.start = sb.next
    /\ job.at = "index" => job.left = {} /\ sb = super /\ job.start + job.done = super.next
    /\ job.at = "stored" /\ job.name \in Known => Indexed(job.name)

\* The RAM file system: a package that is not being installed is whole and
\* stored, or absent; the one that is has its files and no marker.
FilesInv ==
    /\ todo \in Seq(Known)
    /\ IF Busy THEN GoodBut(files, job.name) ELSE Good(files)
    /\ Busy /\ job.name \in Known =>
         Marker(job.name) \notin DOMAIN files /\ Agrees(FilesOf[job.name], files)

\* The last entry of the index is the last payload reported stored, or a later one.
HistoryInv ==
    saved # NoFiles => Len(log) # 0 /\ log[Len(log)] \in {saved} \cup since

StoreInv == DiskInv /\ RunInv /\ JobInv /\ FilesInv /\ HistoryInv

-----------------------------------------------------------------------------
(* What an entry brings back.                                              *)

\* A file system without files.
LEMMA NoFilesIs == DOMAIN NoFiles = {} /\ IsFiles(NoFiles)
<1>1. DOMAIN << >> = {}
  OBVIOUS
<1>2. << >> = [p \in {} |-> << >>[p]]
  OBVIOUS
<1> QED
  BY <1>1, <1>2 DEF NoFiles, IsFiles

\* Sectors that hold the records of f are read as f.
LEMMA RecordsRead ==
    ASSUME NEW f, IsFiles(f), NEW n \in Nat, NEW raw, DOMAIN raw = 1 .. n,
           {raw[k] : k \in 1 .. n} = RecordsOf(f)
    PROVE  Written(NoFiles, raw) = f
<1> DEFINE layers == [i \in DOMAIN raw |-> File(raw[i])]
           L == Layered(NoFiles, layers)
<1>1. DOMAIN layers = 1 .. n
  OBVIOUS
<1>2. \A i \in 1 .. n : /\ raw[i].path \in DOMAIN f
                        /\ layers[i] = [p \in {raw[i].path} |-> f[raw[i].path]]
  <2> SUFFICES ASSUME NEW i \in 1 .. n
               PROVE  /\ raw[i].path \in DOMAIN f
                      /\ layers[i] = [p \in {raw[i].path} |-> f[raw[i].path]]
    BY Zenon
  <2>1. raw[i] \in RecordsOf(f)
    BY Zenon
  <2>2. PICK q \in DOMAIN f : raw[i] = [path |-> q, value |-> f[q]]
    BY Zenon, <2>1 DEF RecordsOf
  <2>3. raw[i].path = q /\ raw[i].value = f[q]
    BY <2>2
  <2> QED
    BY <2>3 DEF File
<1>3. \A p \in DOMAIN f : \E i \in 1 .. n : raw[i].path = p
  <2> SUFFICES ASSUME NEW p \in DOMAIN f
               PROVE  \E i \in 1 .. n : raw[i].path = p
    OBVIOUS
  <2>1. [path |-> p, value |-> f[p]] \in RecordsOf(f)
    BY Zenon DEF RecordsOf
  <2>2. PICK i \in 1 .. n : raw[i] = [path |-> p, value |-> f[p]]
    BY Zenon, <2>1
  <2> QED
    BY <2>2
<1>4. Written(NoFiles, raw) = L
  BY Zenon DEF Written
<1> HIDE DEF layers
<1>5. /\ L = [p \in DOMAIN L |-> L[p]]
      /\ \A p : p \in DOMAIN L <=> p \in DOMAIN NoFiles \/ Having(layers, p) # {}
      /\ \A p : Having(layers, p) # {} =>
           \E i \in Having(layers, p) :
             L[p] = layers[i][p] /\ \A j \in Having(layers, p) : j <= i
  <2>1. LastDecides(L, NoFiles, layers)
    BY Zenon, <1>1, LayeredIs
  <2> HIDE DEF L
  <2> QED
    BY Zenon, <2>1 DEF LastDecides
<1> HIDE DEF L
<1>6. \A p, i : i \in Having(layers, p) <=> i \in 1 .. n /\ p = raw[i].path
  <2>1. \A i \in 1 .. n : DOMAIN layers[i] = {raw[i].path}
    BY Zenon, <1>2
  <2> QED
    BY Zenon, <1>1, <2>1 DEF Having
<1>7. DOMAIN L = DOMAIN f
  <2>1. \A p : Having(layers, p) # {} <=> p \in DOMAIN f
    <3>1. ASSUME NEW p, NEW i \in Having(layers, p) PROVE p \in DOMAIN f
      <4>1. i \in 1 .. n /\ p = raw[i].path
        BY Zenon, <1>6, <3>1
      <4>2. raw[i].path \in DOMAIN f
        BY Zenon, <1>2, <4>1
      <4> QED
        BY Zenon, <4>1, <4>2
    <3>2. ASSUME NEW p \in DOMAIN f PROVE \E i : i \in Having(layers, p)
      BY Zenon, <1>3, <1>6
    <3> QED
      BY Zenon, <3>1, <3>2
  <2> QED
    BY Zenon, <1>5, <2>1, NoFilesIs
<1>8. ASSUME NEW p \in DOMAIN f PROVE L[p] = f[p]
  <2>1. Having(layers, p) # {}
    BY Zenon, <1>3, <1>6
  <2>2. PICK i \in Having(layers, p) : L[p] = layers[i][p]
    BY Zenon, <1>5, <2>1
  <2>3. i \in 1 .. n /\ p = raw[i].path
    BY Zenon, <1>6
  <2>4. layers[i] = [q \in {p} |-> f[p]]
    BY Zenon, <1>2, <2>3
  <2> QED
    BY <2>2, <2>4
<1>9. f = [p \in DOMAIN f |-> f[p]]
  BY DEF IsFiles
<1> QED
  BY <1>4, <1>5, <1>7, <1>8, <1>9

\* An entry is decoded to the end: no record of files is an empty one.
LEMMA DecodedIs ==
    ASSUME NEW f, IsFiles(f), NEW entry, entry.start \in Int, entry.sectors \in Nat,
           Holds(data, entry.start, entry.sectors, f)
    PROVE  Written(NoFiles, Decoded(entry)) = f
<1> DEFINE n == entry.sectors
           raw == [i \in 1 .. n |-> data[entry.start + i - 1]]
           valid == {k \in 0 .. n : \A i \in 1 .. k : raw[i] # NoRecord}
           full == CHOOSE k \in valid : \A j \in valid : j <= k
<1>1. {raw[k] : k \in 1 .. n} = RecordsOf(f)
  BY Zenon DEF Holds, Contents
<1>2. \A r \in RecordsOf(f) : r # NoRecord
  <2> SUFFICES ASSUME NEW r \in RecordsOf(f), r = NoRecord PROVE FALSE
    OBVIOUS
  <2>1. PICK p \in DOMAIN f : r = [path |-> p, value |-> f[p]]
    BY Zenon DEF RecordsOf
  <2>2. r.path = p
    BY <2>1
  <2>3. NoRecord.path = << >>
    BY Zenon DEF NoRecord
  <2> QED
    BY Zenon, <2>2, <2>3 DEF IsFiles
<1>3. \A i \in 1 .. n : raw[i] # NoRecord
  BY Zenon, <1>1, <1>2
<1> HIDE DEF raw
<1>4. n \in valid /\ \A j \in valid : j <= n
  <2>1. n \in 0 .. n /\ \A j \in 0 .. n : j <= n
    OBVIOUS
  <2> QED
    BY Zenon, <1>3, <2>1
<1>5. full = n
  BY <1>4
<1>6. Decoded(entry) = SubSeq(raw, 1, full)
  BY Zenon DEF Decoded, raw
<1>7. SubSeq(raw, 1, n) = raw
  BY DEF raw
<1>8. DOMAIN raw = 1 .. n
  BY DEF raw
<1> HIDE DEF full, valid
<1> QED
  BY Zenon, <1>1, <1>5, <1>6, <1>7, <1>8, RecordsRead

\* A marker is neither the empty path nor another name's.
LEMMA MarkerIs ==
    /\ \A name : Marker(name) # << >>
    /\ \A a, b : Marker(a) = Marker(b) => a = b
BY DEF Marker

\* Files with a marker.
LEMMA MarkedIs ==
    ASSUME NEW f, NEW name
    PROVE  LET L == WithMarker(f, name)
           IN /\ L = [p \in DOMAIN L |-> L[p]]
              /\ DOMAIN L = DOMAIN f \cup {Marker(name)}
              /\ \A p \in DOMAIN L : L[p] = IF p = Marker(name) THEN "" ELSE f[p]
<1> DEFINE r == [path |-> Marker(name), value |-> ""]
           L == Written(f, <<r>>)
<1>1. L = [p \in DOMAIN f \cup {r.path} |-> IF p = r.path THEN r.value ELSE f[p]]
  <2> HIDE DEF r
  <2> QED
    BY WrittenOne
<1>2. r.path = Marker(name) /\ r.value = "" /\ L = WithMarker(f, name)
  BY DEF WithMarker
<1> HIDE DEF r, L
<1>3. /\ L = [p \in DOMAIN L |-> L[p]]
      /\ DOMAIN L = DOMAIN f \cup {r.path}
      /\ \A p \in DOMAIN L : L[p] = IF p = r.path THEN r.value ELSE f[p]
  BY <1>1
<1> QED
  BY Zenon, <1>2, <1>3

\* An entry brings back the files it was written for and its marker.
LEMMA RestoredIs ==
    ASSUME NEW i \in DOMAIN index, EntryInv(i)
    PROVE  LET R == Restored(index[i])
           IN /\ DOMAIN R = DOMAIN log[i] \cup {Marker(index[i].name)}
              /\ \A p \in DOMAIN R :
                   R[p] = IF p = Marker(index[i].name) THEN "" ELSE log[i][p]
<1> DEFINE e == index[i]
<1>1. e.start \in Int /\ e.sectors \in Nat
  BY StorageAssumption DEF EntryInv, Sectors
<1>2. Holds(data, e.start, e.sectors, log[i]) /\ IsFiles(log[i])
  BY Zenon DEF EntryInv, Payload
<1> HIDE DEF e
<1>3. Written(NoFiles, Decoded(e)) = log[i]
  BY Zenon, <1>1, <1>2, DecodedIs
<1>4. Restored(e) = WithMarker(log[i], e.name)
  BY Zenon, <1>3 DEF Restored
<1>5. PICK f, name : f = log[i] /\ name = e.name
  BY Zenon
<1> DEFINE W == WithMarker(f, name)
<1>6. /\ DOMAIN W = DOMAIN f \cup {Marker(name)}
      /\ \A p \in DOMAIN W : W[p] = IF p = Marker(name) THEN "" ELSE f[p]
  BY Zenon, MarkedIs
<1>7. W = Restored(index[i])
  BY Zenon, <1>4, <1>5 DEF e
<1> HIDE DEF W
<1> QED
  BY Zenon, <1>5, <1>6, <1>7 DEF e

\* Entry i brings back path p.
Brings(i, p) == p \in DOMAIN log[i] \/ p = Marker(index[i].name)

\* What entry i was written with at path p.
Was(i, p) == IF p = Marker(index[i].name) THEN "" ELSE log[i][p]

\* Whatever goes wrong, an entry brings back no more than it was written for, and
\* the paths that are not missed as they were.
LEMMA KeptIs ==
    ASSUME NEW i \in DOMAIN index, EntryInv(i), NEW lost
    PROVE  /\ \A p \in DOMAIN Kept(i, lost) : Brings(i, p) /\ Kept(i, lost)[p] \in {"", Was(i, p)}
           /\ \A p : p \notin Missed(lost) =>
                /\ p \in DOMAIN Kept(i, lost) <=> Brings(i, p)
                /\ p \in DOMAIN Kept(i, lost) => Kept(i, lost)[p] = Was(i, p)
<1> DEFINE R == Restored(index[i])
           K == Kept(i, lost)
<1>1. /\ DOMAIN R = DOMAIN log[i] \cup {Marker(index[i].name)}
      /\ \A p \in DOMAIN R : R[p] = Was(i, p)
  BY Zenon, RestoredIs DEF Was
<1>2. /\ DOMAIN K = {p \in DOMAIN R : Skipped(i) \notin lost /\ Absent(i, p) \notin lost}
      /\ \A p \in DOMAIN K : K[p] = IF Emptied(i, p) \in lost THEN "" ELSE R[p]
  BY Zenon DEF Kept
<1>3. ASSUME NEW p \in DOMAIN R, p \notin Missed(lost)
      PROVE  Skipped(i) \notin lost /\ Absent(i, p) \notin lost /\ Emptied(i, p) \notin lost
  <2> DEFINE M(j) == {q \in DOMAIN Restored(index[j]) :
                         {Skipped(j), Absent(j, q), Emptied(j, q)} \cap lost # {}}
  <2>0. Missed(lost) = UNION {M(j) : j \in DOMAIN index} /\ i \in DOMAIN index
    BY Zenon DEF Missed
  <2>1. {Skipped(i), Absent(i, p), Emptied(i, p)} \cap lost = {}
    <3>1. p \notin M(i)
      <4> HIDE DEF M
      <4> QED
        BY Zenon, <1>3, <2>0
    <3> QED
      BY Zenon, <3>1
  <2> QED
    BY Zenon, <2>1
<1> HIDE DEF R, K
<1>4. \A p \in DOMAIN K : Brings(i, p) /\ K[p] \in {"", Was(i, p)}
  BY Zenon, <1>1, <1>2 DEF Brings
<1>5. ASSUME NEW p, p \notin Missed(lost)
      PROVE  (p \in DOMAIN K <=> Brings(i, p)) /\ (p \in DOMAIN K => K[p] = Was(i, p))
  BY Zenon, <1>1, <1>2, <1>3, <1>5 DEF Brings
<1> QED
  BY Zenon, <1>4, <1>5 DEF K

\* Of a path that is not missed, the last entry that brings it back decides; what
\* none does is as the kernel starts with it; and nothing else is there.
ReplayOf(L, lost) ==
    /\ L = [p \in DOMAIN L |-> L[p]]
    /\ \A p \in DOMAIN L :
         \/ p \in DOMAIN Seed /\ L[p] = Seed[p]
         \/ \E i \in DOMAIN index : Brings(i, p) /\ L[p] \in {"", Was(i, p)}
    /\ \A p : p \notin Missed(lost) =>
         (p \in DOMAIN L <=> p \in DOMAIN Seed \/ \E i \in DOMAIN index : Brings(i, p))
    /\ \A p : p \notin Missed(lost) /\ (\E i \in DOMAIN index : Brings(i, p)) =>
         \E i \in DOMAIN index :
           /\ Brings(i, p) /\ L[p] = Was(i, p)
           /\ \A j \in DOMAIN index : Brings(j, p) => j <= i

LEMMA ReplayIs ==
    ASSUME DiskInv, NEW lost
    PROVE  ReplayOf(Replay(lost), lost)
<1> DEFINE layers == [i \in DOMAIN index |-> Kept(i, lost)]
           L == Layered(Seed, layers)
<1>1. Len(index) \in Nat /\ DOMAIN index = 1 .. Len(index)
  BY DEF DiskInv
<1>2. DOMAIN layers = 1 .. Len(index) /\ \A i \in DOMAIN index : layers[i] = Kept(i, lost)
  BY <1>1
<1>3. Replay(lost) = L
  BY Zenon DEF Replay
<1> HIDE DEF layers
<1>4. ASSUME NEW i \in DOMAIN index
      PROVE  /\ \A p \in DOMAIN layers[i] : Brings(i, p) /\ layers[i][p] \in {"", Was(i, p)}
             /\ \A p : p \notin Missed(lost) =>
                  /\ p \in DOMAIN layers[i] <=> Brings(i, p)
                  /\ p \in DOMAIN layers[i] => layers[i][p] = Was(i, p)
  <2>1. EntryInv(i)
    BY Zenon DEF DiskInv
  <2> QED
    BY Zenon, <1>2, <2>1, KeptIs
<1>5. /\ \A p, i : i \in Having(layers, p) =>
           i \in DOMAIN index /\ Brings(i, p) /\ layers[i][p] \in {"", Was(i, p)}
      /\ \A p, i : p \notin Missed(lost) =>
           /\ i \in Having(layers, p) <=> i \in DOMAIN index /\ Brings(i, p)
           /\ i \in Having(layers, p) => layers[i][p] = Was(i, p)
  BY Zenon, <1>1, <1>2, <1>4 DEF Having
<1>6. /\ L = [p \in DOMAIN L |-> L[p]]
      /\ \A p : p \in DOMAIN L <=> p \in DOMAIN Seed \/ Having(layers, p) # {}
      /\ \A p \in DOMAIN Seed : Having(layers, p) = {} => L[p] = Seed[p]
      /\ \A p : Having(layers, p) # {} =>
           \E i \in Having(layers, p) :
             L[p] = layers[i][p] /\ \A j \in Having(layers, p) : j <= i
  <2>1. LastDecides(L, Seed, layers)
    BY Zenon, <1>1, <1>2, LayeredIs
  <2> HIDE DEF L
  <2> QED
    BY Zenon, <2>1 DEF LastDecides
<1> HIDE DEF L
<1>7. ASSUME NEW p \in DOMAIN L
      PROVE  \/ p \in DOMAIN Seed /\ L[p] = Seed[p]
             \/ \E i \in DOMAIN index : Brings(i, p) /\ L[p] \in {"", Was(i, p)}
  <2>1. CASE Having(layers, p) = {}
    BY Zenon, <1>6, <2>1
  <2>2. CASE Having(layers, p) # {}
    <3>1. PICK i \in Having(layers, p) : L[p] = layers[i][p]
      BY Zenon, <1>6, <2>2
    <3> QED
      BY Zenon, <1>5, <3>1
  <2> QED
    BY Zenon, <2>1, <2>2
<1>8. ASSUME NEW p, p \notin Missed(lost)
      PROVE  p \in DOMAIN L <=> p \in DOMAIN Seed \/ \E i \in DOMAIN index : Brings(i, p)
  BY Zenon, <1>5, <1>6, <1>8
<1>9. ASSUME NEW p, p \notin Missed(lost), \E i \in DOMAIN index : Brings(i, p)
      PROVE  \E i \in DOMAIN index :
               /\ Brings(i, p) /\ L[p] = Was(i, p)
               /\ \A j \in DOMAIN index : Brings(j, p) => j <= i
  <2>1. Having(layers, p) # {}
    BY Zenon, <1>5, <1>9
  <2>2. PICK i \in Having(layers, p) :
          L[p] = layers[i][p] /\ \A j \in Having(layers, p) : j <= i
    BY Zenon, <1>6, <2>1
  <2>3. i \in DOMAIN index /\ Brings(i, p) /\ layers[i][p] = Was(i, p)
    BY Zenon, <1>5, <1>9
  <2>4. \A j \in DOMAIN index : Brings(j, p) => j <= i
    BY Zenon, <1>5, <1>9, <2>2
  <2> QED
    BY Zenon, <2>2, <2>3, <2>4
<1> QED
  BY Zenon, <1>3, <1>6, <1>7, <1>8, <1>9 DEF ReplayOf

\* A replay in which nothing goes wrong misses nothing.
LEMMA NothingMissed == Missed({}) = {}
BY Zenon DEF Missed

\* A file of a package is of no other, is no marker, and is not written by others.
LEMMA OwnFiles ==
    ASSUME NEW p \in Known, NEW q \in DOMAIN FilesOf[p]
    PROVE  /\ q \notin Markers /\ q \notin DOMAIN Seed /\ q \notin WritePaths /\ q # << >>
           /\ \A other \in Known : q \in DOMAIN FilesOf[other] => other = p
<1>1. q \notin DOMAIN Seed \cup WritePaths \cup Markers \cup {<< >>}
  BY Zenon, StoreAssumption
<1>2. \A other \in Known : q \in DOMAIN FilesOf[other] => other = p
  BY Zenon, StoreAssumption
<1> QED
  BY Zenon, <1>1, <1>2

\* Every package and the root file system have a marker, and it is a path.
LEMMA MarkersAre ==
    /\ \A p \in Known : Marker(p) \in Markers
    /\ Marker(RootFs) \in Markers
    /\ << >> \notin Markers
    /\ \A p \in Known : p # RootFs
<1>1. \A p \in Known \cup {RootFs} : Marker(p) \in Markers
  BY Zenon DEF Markers
<1>2. << >> \notin Markers
  BY Zenon, MarkerIs DEF Markers
<1> QED
  BY Zenon, <1>1, <1>2, StoreAssumption

\* A payload has all files of a package or none: all when it is stored under the
\* package's name or has its marker.
LEMMA PayloadIs ==
    ASSUME NEW name, NEW f, Payload(name, f), NEW p \in Known, p \in sound
    PROVE  /\ name = p \/ Marker(p) \in DOMAIN f => Agrees(FilesOf[p], f)
           /\ \A q \in DOMAIN FilesOf[p] \cap DOMAIN f : name = p \/ Marker(p) \in DOMAIN f
<1>1. CASE name \in Known /\ f = FilesOf[name]
  <2>1. Marker(p) \notin DOMAIN f
    BY Zenon, <1>1, OwnFiles, MarkersAre
  <2>2. Agrees(FilesOf[name], f)
    BY Zenon, <1>1 DEF Agrees
  <2>3. \A q \in DOMAIN FilesOf[p] \cap DOMAIN f : name = p
    BY Zenon, <1>1, OwnFiles
  <2> QED
    BY Zenon, <2>1, <2>2, <2>3
<1>2. CASE name = RootFs /\ \A o \in sound : WholeOrAbsent(f, o)
  <2>1. name # p
    BY Zenon, <1>2, MarkersAre
  <2>2. WholeOrAbsent(f, p)
    BY Zenon, <1>2
  <2> QED
    BY Zenon, <2>1, <2>2 DEF WholeOrAbsent
<1> QED
  BY Zenon, <1>1, <1>2 DEF Payload

\* The paths of a package.
PathsOf(p) == DOMAIN FilesOf[p] \cup {Marker(p)}

\* What a start finds on the disk and brings back.
LEMMA ReplayedFiles ==
    ASSUME DiskInv, NEW lost
    PROVE  /\ IsFiles(Replay(lost)) /\ MarkersEmpty(Replay(lost))
           /\ \A p \in Known : Marker(p) \in DOMAIN Replay(lost) => Indexed(p)
           /\ \A p \in Known : p \in sound /\ PathsOf(p) \cap Missed(lost) = {} =>
                IF Indexed(p) THEN Agrees(FilesOf[p], Replay(lost)) /\ Marker(p) \in DOMAIN Replay(lost)
                ELSE PathsOf(p) \cap DOMAIN Replay(lost) = {}
           /\ Len(log) # 0 =>
                \A q \in DOMAIN log[Len(log)] \ Missed(lost) :
                  q \in DOMAIN Replay(lost) /\ Replay(lost)[q] = log[Len(log)][q]
<1> DEFINE L == Replay(lost)
<1>1. ReplayOf(L, lost)
  BY Zenon, ReplayIs
<1> HIDE DEF L
<1>2. \A i \in DOMAIN index : Payload(index[i].name, log[i])
  BY Zenon DEF DiskInv, EntryInv
<1>3. \A p \in DOMAIN Seed : p \notin Markers /\ p # << >>
  BY Zenon, StoreAssumption
<1>4. \A p \in Known : Indexed(p) <=> \E i \in DOMAIN index : Brings(i, Marker(p))
  BY Zenon, MarkerIs DEF Indexed, Brings
<1>5. IsFiles(L)
  <2>1. \A i \in DOMAIN index : ~Brings(i, << >>)
    BY Zenon, <1>2, MarkerIs DEF Brings, Payload, IsFiles
  <2> QED
    BY Zenon, <1>1, <1>3, <2>1 DEF IsFiles, ReplayOf
<1>6. MarkersEmpty(L)
  <2> SUFFICES ASSUME NEW m \in Markers, m \in DOMAIN L PROVE L[m] = ""
    BY Zenon DEF MarkersEmpty
  <2>1. PICK i \in DOMAIN index : Brings(i, m) /\ L[m] \in {"", Was(i, m)}
    BY Zenon, <1>1, <1>3 DEF ReplayOf
  <2>2. m # Marker(index[i].name) => log[i][m] = ""
    BY Zenon, <1>2, <2>1 DEF Brings, Payload, MarkersEmpty
  <2> QED
    BY Zenon, <2>1, <2>2 DEF Was
<1>7. \A p \in Known : Marker(p) \in DOMAIN L => Indexed(p)
  BY Zenon, <1>1, <1>3, <1>4, MarkersAre DEF ReplayOf
<1>8. ASSUME NEW p \in Known, p \in sound, NEW q \in DOMAIN FilesOf[p], q \notin Missed(lost)
      PROVE  /\ q \in DOMAIN L <=> Indexed(p)
             /\ q \in DOMAIN L => L[q] = FilesOf[p][q]
  <2>1. q \notin Markers /\ q \notin DOMAIN Seed
    BY Zenon, OwnFiles
  <2>2. \A i \in DOMAIN index : q # Marker(index[i].name)
    BY Zenon, <1>2, <2>1, MarkersAre DEF Payload
  <2>3. ASSUME NEW i \in DOMAIN index
        PROVE  /\ Brings(i, q) <=> index[i].name = p \/ Marker(p) \in DOMAIN log[i]
               /\ Brings(i, q) => Was(i, q) = FilesOf[p][q]
    <3>1. /\ index[i].name = p \/ Marker(p) \in DOMAIN log[i] => Agrees(FilesOf[p], log[i])
          /\ \A r \in DOMAIN FilesOf[p] \cap DOMAIN log[i] :
               index[i].name = p \/ Marker(p) \in DOMAIN log[i]
      BY Zenon, <1>2, <1>8, PayloadIs
    <3> QED
      BY Zenon, <2>2, <3>1 DEF Brings, Agrees, Was
  <2>4. q \in DOMAIN L <=> Indexed(p)
    BY Zenon, <1>1, <1>8, <2>1, <2>3 DEF Indexed, ReplayOf
  <2>5. ASSUME q \in DOMAIN L PROVE L[q] = FilesOf[p][q]
    <3>1. PICK i \in DOMAIN index : Brings(i, q) /\ L[q] = Was(i, q)
      BY Zenon, <1>1, <1>8, <2>1, <2>5 DEF ReplayOf
    <3> QED
      BY Zenon, <2>3, <3>1
  <2> QED
    BY Zenon, <2>4, <2>5
<1>9. ASSUME Len(log) # 0, NEW q \in DOMAIN log[Len(log)], q \notin Missed(lost)
      PROVE  q \in DOMAIN L /\ L[q] = log[Len(log)][q]
  <2> DEFINE n == Len(log)
  <2>1. n \in DOMAIN index /\ \A j \in DOMAIN index : n <= j => j = n
    BY <1>9 DEF DiskInv
  <2> HIDE DEF n
  <2>2. q \in DOMAIN log[n] /\ Brings(n, q)
    BY Zenon, <1>9 DEF Brings, n
  <2>3. PICK i \in DOMAIN index :
          L[q] = Was(i, q) /\ \A j \in DOMAIN index : Brings(j, q) => j <= i
    BY Zenon, <1>1, <1>9, <2>1, <2>2 DEF ReplayOf
  <2>4. i = n
    BY Zenon, <2>1, <2>2, <2>3
  <2>5. index[n].name \in Known \cup {RootFs} /\ MarkersEmpty(log[n])
    BY Zenon, <1>2, <2>1 DEF Payload
  <2>6. q = Marker(index[n].name) => log[n][q] = ""
    BY Zenon, <2>2, <2>5 DEF MarkersEmpty, Markers
  <2>7. q \in DOMAIN L
    BY Zenon, <1>1, <1>9, <2>1, <2>2 DEF ReplayOf
  <2> QED
    BY Zenon, <2>3, <2>4, <2>6, <2>7 DEF Was, n
<1>10. ASSUME NEW p \in Known, p \in sound, PathsOf(p) \cap Missed(lost) = {}
       PROVE  IF Indexed(p) THEN Agrees(FilesOf[p], L) /\ Marker(p) \in DOMAIN L
              ELSE PathsOf(p) \cap DOMAIN L = {}
  <2>1. \A q \in PathsOf(p) : q \notin Missed(lost)
    BY Zenon, <1>10
  <2>2. Marker(p) \in DOMAIN L <=> Indexed(p)
    BY Zenon, <1>1, <1>4, <1>7, <2>1 DEF ReplayOf, PathsOf
  <2>3. \A q \in DOMAIN FilesOf[p] :
          (q \in DOMAIN L <=> Indexed(p)) /\ (q \in DOMAIN L => L[q] = FilesOf[p][q])
    BY Zenon, <1>8, <1>10, <2>1 DEF PathsOf
  <2> QED
    BY Zenon, <2>2, <2>3 DEF Agrees, PathsOf
<1> QED
  BY Zenon, <1>5, <1>6, <1>7, <1>9, <1>10 DEF L

-----------------------------------------------------------------------------
(* What the invariant says.                                                *)

\* Entries that hold what they were written for are decoded to it.
LEMMA IntactFromInv == StoreInv => StoreIntact
<1> SUFFICES ASSUME StoreInv PROVE StoreIntact
  OBVIOUS
<1>1. DiskInv /\ RunInv
  BY Zenon DEF StoreInv
<1>2. \A i \in DOMAIN index : EntryInv(i)
  BY Zenon, <1>1 DEF DiskInv
<1>3. TypeOK
  <2>1. super.magic \in BOOLEAN /\ super.next \in {0} \cup DataStart .. DiskEnd
    <3>1. CASE super = Blank
      BY <3>1 DEF Blank
    <3>2. CASE super \in [magic : {TRUE}, next : DataStart .. DiskEnd]
      BY Zenon, <3>2
    <3> QED
      BY Zenon, <1>1, <3>1, <3>2 DEF DiskInv
  <2>2. \A i \in DOMAIN index : index[i].start \in Sectors
    BY Zenon, <1>2 DEF EntryInv
  <2> QED
    BY <1>1, <2>1, <2>2 DEF TypeOK, DiskInv, RunInv
<1>4. IndexIntact
  <2>1. ASSUME NEW i \in DOMAIN index PROVE Written(NoFiles, Decoded(index[i])) = log[i]
    <3>1. EntryInv(i)
      BY Zenon, <1>2
    <3>2. index[i].start \in Int /\ index[i].sectors \in Nat
      BY <3>1, StorageAssumption DEF EntryInv, Sectors
    <3>3. Holds(data, index[i].start, index[i].sectors, log[i]) /\ IsFiles(log[i])
      BY Zenon, <3>1 DEF EntryInv, Payload
    <3> QED
      BY Zenon, <3>2, <3>3, DecodedIs
  <2> QED
    BY Zenon, <1>1, <2>1 DEF IndexIntact, DiskInv
<1>5. LogAboveIndex
  BY Zenon, <1>2 DEF LogAboveIndex, EntryInv
<1> QED
  BY Zenon, <1>3, <1>4, <1>5 DEF StoreIntact

\* Without a job no package is there in part.
LEMMA WholeFromInv == StoreInv => AllOrNothing
<1> SUFFICES ASSUME StoreInv, job = Idle, NEW p \in sound PROVE WholeOrAbsent(files, p)
  BY Zenon DEF AllOrNothing, WholeOrAbsent, PackageInstalled
<1>1. ~Busy
  BY DEF Busy, Idle
<1> QED
  BY Zenon, <1>1, MarkersAre DEF StoreInv, RunInv, FilesInv, Good, GoodBut

\* A package with a marker is in the index, and replayed.
LEMMA StoredFromInv == StoreInv => InstalledIsStored
<1> SUFFICES ASSUME StoreInv, NEW p \in sound, PackageInstalled(p)
             PROVE  Agrees(FilesOf[p], Replay({}))
  BY Zenon DEF InstalledIsStored
<1>1. DiskInv /\ p \in Known
  BY Zenon DEF StoreInv, RunInv
<1>2. Indexed(p)
  BY Zenon, <1>1 DEF StoreInv, FilesInv, Good, GoodBut, PackageInstalled
<1>3. PICK lost : lost = {}
  OBVIOUS
<1>4. PathsOf(p) \cap Missed(lost) = {}
  BY Zenon, <1>3, NothingMissed
<1>5. Agrees(FilesOf[p], Replay(lost))
  BY Zenon, <1>1, <1>2, <1>4, ReplayedFiles
<1> QED
  BY Zenon, <1>3, <1>5

-----------------------------------------------------------------------------
(* The invariant holds at first.                                           *)

\* A blank disk and a machine that is off.
LEMMA StoreInitInv == StoreInit => StoreInv
<1> SUFFICES ASSUME StoreInit PROVE StoreInv
  OBVIOUS
<1> USE DEF StoreInit, Init
<1>1. DiskInv
  <2>1. super = Blank /\ super.next = 0
    BY DEF Blank
  <2>2. index = << >> /\ log = << >> /\ DOMAIN index = {} /\ DOMAIN log = {}
    OBVIOUS
  <2>3. index \in Seq(Elements(index)) /\ log \in Seq(Elements(log))
    BY <2>2
  <2>4. Len(log) = Len(index) /\ Len(index) <= IndexRoom
    BY StorageAssumption
  <2>5. DOMAIN data = Sectors
    OBVIOUS
  <2> QED
    BY <2>1, <2>2, <2>3, <2>4, <2>5 DEF DiskInv
<1>2. RunInv /\ job.at = "off"
  BY StorageAssumption DEF RunInv, Off, Empty
<1>3. ~Busy /\ ~Writing
  BY <1>2 DEF Busy, Writing
<1>4. JobInv
  BY <1>2, <1>3 DEF JobInv
<1>5. FilesInv
  <2>1. Good(files)
    BY Zenon, NoFilesIs DEF Good, GoodBut, MarkersEmpty, WholeOrAbsent
  <2> QED
    BY <1>3, <2>1 DEF FilesInv
<1>6. HistoryInv
  BY Zenon DEF HistoryInv
<1> QED
  BY Zenon, <1>1, <1>2, <1>4, <1>5, <1>6 DEF StoreInv

-----------------------------------------------------------------------------
(* Steps that leave the disk alone: the callers of storage.                *)

\* The disk is as whole as it was, and the same packages are on it.
LEMMA DiskKept ==
    ASSUME DiskInv, UNCHANGED <<disk, log, sound>>
    PROVE  DiskInv' /\ \A p : Indexed(p)' = Indexed(p)
BY Zenon DEF DiskInv, EntryInv, Payload, Indexed, disk

\* A caller hands its files to storage.
LEMMA StoreKeeps ==
    ASSUME StoreInv, job = Idle, NEW name, NEW f, Payload(name, f), Store(name, f),
           IF running = "kmain" THEN name \in Known ELSE name = RootFs,
           UNCHANGED <<disk, sb, running, sound>>
    PROVE  DiskInv' /\ RunInv' /\ JobInv' /\ HistoryInv' /\ Busy' /\ job'.name = name
<1>1. DiskInv' /\ \A p : Indexed(p)' = Indexed(p)
  BY Zenon, DiskKept DEF StoreInv, Store
<1>2. job.at = "none"
  BY DEF Idle
<1>3. job' = [at |-> "data", name |-> name, files |-> f,
              left |-> RecordsOf(f), done |-> 0, start |-> sb.next]
  BY Zenon DEF Store
<1>4. /\ job'.at = "data" /\ job'.name = name /\ job'.files = f
      /\ job'.left = RecordsOf(f) /\ job'.done = 0 /\ job'.start = sb.next
  BY <1>3
<1>5. Busy' /\ Writing'
  BY <1>4 DEF Busy, Writing
<1>6. RunInv'
  BY <1>2, <1>4, StorageAssumption DEF StoreInv, RunInv, Store, disk
<1>7. JobInv'
  <2>1. name \in Known \cup {RootFs} /\ f \in since'
    BY Zenon DEF Store
  <2>2. sb.next \in DataStart .. DiskEnd
    BY DEF StoreInv, RunInv
  <2>3. job' \in [at : {"data", "index"}, name : Known \cup {RootFs}, files : since',
                  left : SUBSET RecordsOf(f), done : Nat, start : DataStart .. DiskEnd]
    BY <1>3, <2>1, <2>2
  <2>4. sb.next + 0 <= DiskEnd
    BY <2>2, StorageAssumption
  <2>5. Contents(data', sb.next, 0) = RecordsOf(f) \ RecordsOf(f)
    BY DEF Contents
  <2>6. Payload(job.name, job.files)'
    BY Zenon, <1>4 DEF Payload
  <2> QED
    BY <1>4, <1>5, <2>1, <2>3, <2>4, <2>5, <2>6 DEF JobInv
<1>8. HistoryInv'
  BY Zenon DEF StoreInv, HistoryInv, Store
<1> QED
  BY Zenon, <1>1, <1>4, <1>5, <1>6, <1>7, <1>8

\* A caller without a job changes files only, or returns.
LEMMA IdleKeeps ==
    ASSUME StoreInv, UNCHANGED <<disk, sb, history, running, sound>>, job' = Idle, job # Off,
           Good(files'), todo' \in Seq(Known)
    PROVE  StoreInv'
<1>1. DiskInv' /\ \A p : Indexed(p)' = Indexed(p)
  BY Zenon, DiskKept DEF StoreInv, history
<1>2. job'.at = "none" /\ job.at # "off"
  BY DEF Idle, StoreInv, RunInv
<1>3. ~Busy' /\ ~Writing'
  BY <1>2 DEF Busy, Writing
<1>4. RunInv'
  BY <1>2 DEF StoreInv, RunInv, history, disk
<1>5. JobInv'
  BY <1>2, <1>3 DEF JobInv
<1>6. Good(files)'
  BY Zenon, <1>1 DEF Good, GoodBut
<1>7. FilesInv'
  BY Zenon, <1>3, <1>6 DEF FilesInv
<1>8. HistoryInv'
  BY Zenon DEF StoreInv, HistoryInv, history
<1> QED
  BY Zenon, <1>1, <1>4, <1>5, <1>7, <1>8 DEF StoreInv

\* Removing a package leaves the others as they were.
LEMMA RemovedIs ==
    ASSUME NEW p \in Known, NEW f, GoodBut(f, p), sound \subseteq Known
    PROVE  Good(RemovePackageFiles(f, p)) /\ Marker(p) \notin DOMAIN RemovePackageFiles(f, p)
<1> DEFINE g == RemovePackageFiles(f, p)
<1>1. /\ g = [q \in DOMAIN g |-> g[q]]
      /\ DOMAIN g = DOMAIN f \ (DOMAIN FilesOf[p] \cup {Marker(p)})
      /\ \A q \in DOMAIN g : g[q] = f[q]
  BY DEF RemovePackageFiles
<1> HIDE DEF g
<1>2. IsFiles(g) /\ MarkersEmpty(g)
  BY Zenon, <1>1 DEF GoodBut, IsFiles, MarkersEmpty
<1>3. WholeOrAbsent(g, p)
  BY Zenon, <1>1 DEF WholeOrAbsent
<1>4. ASSUME NEW o \in sound, o # p PROVE WholeOrAbsent(g, o)
  <2>0. o \in Known
    OBVIOUS
  <2>1. WholeOrAbsent(f, o)
    BY Zenon, <1>4 DEF GoodBut
  <2>2. Marker(o) # Marker(p) /\ Marker(o) \notin DOMAIN FilesOf[p]
    BY Zenon, <1>4, <2>0, MarkerIs, OwnFiles, MarkersAre
  <2>3. \A q \in DOMAIN FilesOf[o] : q \notin DOMAIN FilesOf[p] /\ q # Marker(p)
    BY Zenon, <1>4, <2>0, OwnFiles, MarkersAre
  <2> QED
    BY Zenon, <1>1, <2>1, <2>2, <2>3 DEF WholeOrAbsent, Agrees
<1> QED
  BY Zenon, <1>1, <1>2, <1>3, <1>4 DEF GoodBut, Good, g

\* The root file system is not a package: good files are good for all packages.
LEMMA GoodIs ==
    ASSUME NEW f, sound \subseteq Known
    PROVE  Good(f) <=> /\ IsFiles(f) /\ MarkersEmpty(f)
                       /\ \A p \in sound : WholeOrAbsent(f, p)
                       /\ \A p \in Known : Marker(p) \in DOMAIN f => Indexed(p)
BY Zenon, MarkersAre DEF Good, GoodBut

\* A package's files are what is stored under its name.
LEMMA PackagePayload ==
    ASSUME NEW p \in Known
    PROVE  Payload(p, FilesOf[p])
<1>1. IsFiles(FilesOf[p])
  <2>1. FilesOf[p] \in {FilesOf[o] : o \in Known}
    BY Zenon
  <2>2. FilesOf[p] = [q \in DOMAIN FilesOf[p] |-> FilesOf[p][q]]
    BY Zenon, <2>1, StoreAssumption
  <2> QED
    BY Zenon, <2>2, OwnFiles DEF IsFiles
<1>2. MarkersEmpty(FilesOf[p])
  BY Zenon, OwnFiles DEF MarkersEmpty
<1>3. DOMAIN FilesOf[p] # {}
  BY Zenon, StoreAssumption
<1> QED
  BY Zenon, <1>1, <1>2, <1>3 DEF Payload

\* install_package up to storage_write.
LEMMA InstallFromKeeps ==
    ASSUME StoreInv, running = "kmain", job = Idle, NEW p \in Known, NEW f,
           Good(f), Marker(p) \notin DOMAIN f, InstallFrom(f, p),
           UNCHANGED <<disk, sb, running, sound>>, todo' \in Seq(Known)
    PROVE  StoreInv'
<1>0. sound \subseteq Known
  BY Zenon DEF StoreInv, RunInv
<1>1. CASE files' = Layered(f, <<FilesOf[p]>>) /\ Store(p, FilesOf[p])
  <2> DEFINE g == Layered(f, <<FilesOf[p]>>)
  <2>1. /\ DiskInv' /\ RunInv' /\ JobInv' /\ HistoryInv' /\ Busy' /\ job'.name = p
    BY Zenon, <1>1, StoreKeeps, PackagePayload
  <2>2. \A o : Indexed(o)' = Indexed(o)
    BY Zenon, <1>1, DiskKept DEF StoreInv, Store
  <2>3. /\ g = [q \in DOMAIN g |-> g[q]]
        /\ DOMAIN g = DOMAIN f \cup DOMAIN FilesOf[p]
        /\ \A q \in DOMAIN g : g[q] = IF q \in DOMAIN FilesOf[p] THEN FilesOf[p][q] ELSE f[q]
    BY Zenon, OverIs
  <2> HIDE DEF g
  <2>4. IsFiles(g) /\ MarkersEmpty(g)
    <3>1. IsFiles(f) /\ MarkersEmpty(f)
      BY Zenon, <1>0, GoodIs
    <3> QED
      BY Zenon, <2>3, <3>1, OwnFiles DEF IsFiles, MarkersEmpty
  <2>5. \A o \in Known : Marker(o) \in DOMAIN g <=> Marker(o) \in DOMAIN f
    BY Zenon, <2>3, OwnFiles, MarkersAre
  <2>6. ASSUME NEW o \in sound, o # p PROVE WholeOrAbsent(g, o)
    <3>1. o \in Known /\ \A q \in DOMAIN FilesOf[o] : q \notin DOMAIN FilesOf[p]
      BY Zenon, <1>0, <2>6, OwnFiles
    <3>2. WholeOrAbsent(f, o)
      BY Zenon, <1>0, GoodIs
    <3> QED
      BY Zenon, <2>3, <2>5, <3>1, <3>2 DEF WholeOrAbsent, Agrees
  <2>7. Agrees(FilesOf[p], g)
    BY Zenon, <2>3 DEF Agrees
  <2>8. \A o \in Known : Marker(o) \in DOMAIN g => Indexed(o)
    BY Zenon, <1>0, <2>5, GoodIs
  <2>9. files' = g
    BY Zenon, <1>1 DEF g
  <2>10. GoodBut(files, p)'
    BY Zenon, <2>2, <2>4, <2>6, <2>8, <2>9 DEF GoodBut
  <2>11. FilesInv'
    BY Zenon, <2>1, <2>5, <2>7, <2>9, <2>10 DEF FilesInv
  <2> QED
    BY Zenon, <2>1, <2>11 DEF StoreInv
<1>2. CASE files' = RemovePackageFiles(f, p) /\ UNCHANGED <<job, history>>
  <2>1. Good(RemovePackageFiles(f, p))
    BY Zenon, <1>0, RemovedIs, GoodIs DEF GoodBut
  <2>2. job # Off
    BY DEF Idle, Off
  <2> QED
    BY Zenon, <1>2, <2>1, <2>2, IdleKeeps
<1> QED
  BY Zenon, <1>1, <1>2 DEF InstallFrom

\* Without a job the files are good.
LEMMA IdleGood ==
    StoreInv /\ job = Idle => Good(files) /\ todo \in Seq(Known) /\ job # Off /\ sound \subseteq Known
<1>1. job = Idle => ~Busy /\ job # Off
  BY DEF Idle, Busy, Off
<1> QED
  BY Zenon, <1>1 DEF StoreInv, RunInv, FilesInv

\* apt install, remove and upgrade (kernel/shell.cpp).
LEMMA ShellKeeps ==
    StoreInv /\ running = "kmain" /\ ShellStep /\ UNCHANGED <<running, sound>> => StoreInv'
<1> SUFFICES ASSUME StoreInv, running = "kmain", ShellStep, UNCHANGED <<running, sound>>
             PROVE  StoreInv'
  OBVIOUS
<1>0. sound \subseteq Known
  BY Zenon DEF StoreInv, RunInv
<1>1. ASSUME NEW p \in Known, InstallPackage(p) PROVE StoreInv'
  <2>1. PICK f : f = files
    OBVIOUS
  <2>2. Good(f) /\ Marker(p) \notin DOMAIN f /\ InstallFrom(f, p) /\ todo' \in Seq(Known)
    BY Zenon, <1>1, <2>1, IdleGood DEF InstallPackage, PackageInstalled
  <2> QED
    BY Zenon, <1>1, <2>2, InstallFromKeeps DEF InstallPackage
<1>2. ASSUME NEW p \in Known, RemovePackage(p) PROVE StoreInv'
  <2>1. PICK f : f = files
    OBVIOUS
  <2>2. Good(f) /\ todo' \in Seq(Known) /\ job # Off /\ job' = Idle
    BY Zenon, <1>2, <2>1, IdleGood DEF RemovePackage
  <2>3. Good(RemovePackageFiles(f, p))
    BY Zenon, <1>0, <2>2, RemovedIs, GoodIs DEF GoodBut
  <2> QED
    BY Zenon, <1>2, <2>1, <2>2, <2>3, IdleKeeps DEF RemovePackage
<1>3. CASE Upgrade
  <2>1. job' = Idle /\ job # Off /\ Good(files') /\ UNCHANGED <<disk, sb, history, running, sound>>
    BY Zenon, <1>3, IdleGood DEF Upgrade, vars
  <2>2. todo' \in Seq(Known)
    BY Zenon, <1>3, StoreAssumption DEF Upgrade
  <2> QED
    BY Zenon, <2>1, <2>2, IdleKeeps
<1>4. CASE UpgradeNext
  <2> DEFINE p == Head(todo)
  <2>1. Good(files) /\ job = Idle /\ job # Off /\ todo \in Seq(Known) /\ todo # << >>
    BY Zenon, <1>4, IdleGood DEF UpgradeNext
  <2>2. Head(todo) \in Known /\ Tail(todo) \in Seq(Known)
    BY <2>1
  <2>3. PICK f, q : f = files /\ q = Head(todo)
    OBVIOUS
  <2>4. CASE PackageInstalled(p)
    <3>1. Good(f) /\ q \in Known
      BY Zenon, <2>1, <2>2, <2>3
    <3>2. Good(RemovePackageFiles(f, q)) /\ Marker(q) \notin DOMAIN RemovePackageFiles(f, q)
      BY Zenon, <1>0, <3>1, RemovedIs, GoodIs DEF GoodBut
    <3>3. InstallFrom(RemovePackageFiles(f, q), q) /\ UNCHANGED <<disk, sb>> /\ todo' \in Seq(Known)
      BY Zenon, <1>4, <2>2, <2>3, <2>4 DEF UpgradeNext
    <3> QED
      BY Zenon, <2>1, <3>1, <3>2, <3>3, InstallFromKeeps
  <2>5. CASE ~PackageInstalled(p)
    <3>1. UNCHANGED <<files, job, history, disk, sb>> /\ todo' \in Seq(Known)
      BY Zenon, <1>4, <2>2, <2>5 DEF UpgradeNext
    <3> QED
      BY Zenon, <2>1, <3>1, IdleKeeps
  <2> QED
    BY Zenon, <2>4, <2>5
<1>5. CASE InstallReturn
  <2>1. job.at \in {"stored", "failed"}
    BY Zenon, <1>5 DEF InstallReturn
  <2>2. Busy /\ job # Off
    BY <2>1 DEF Busy, Off
  <2>3. PICK f, p : f = files /\ p = job.name
    OBVIOUS
  <2>4. /\ p \in Known /\ GoodBut(f, p) /\ Agrees(FilesOf[p], f) /\ todo \in Seq(Known)
        /\ job.at = "stored" => Indexed(p)
    BY Zenon, <2>2, <2>3 DEF StoreInv, JobInv, FilesInv
  <2>5. CASE job.at = "stored" /\ files' = WithMarker(f, p)
    <3> DEFINE g == WithMarker(f, p)
    <3>1. /\ g = [q \in DOMAIN g |-> g[q]]
          /\ DOMAIN g = DOMAIN f \cup {Marker(p)}
          /\ \A q \in DOMAIN g : g[q] = IF q = Marker(p) THEN "" ELSE f[q]
      BY Zenon, MarkedIs
    <3> HIDE DEF g
    <3>2. IsFiles(g) /\ MarkersEmpty(g)
      BY Zenon, <2>4, <3>1, MarkerIs DEF GoodBut, IsFiles, MarkersEmpty
    <3>3. \A o \in Known : Marker(o) \in DOMAIN g => Indexed(o)
      BY Zenon, <2>4, <2>5, <3>1, MarkerIs DEF GoodBut
    <3>4. \A o \in Known : \A q \in DOMAIN FilesOf[o] : q # Marker(p)
      BY Zenon, <2>4, OwnFiles, MarkersAre
    <3>5. WholeOrAbsent(g, p)
      BY Zenon, <2>4, <3>1, <3>4 DEF WholeOrAbsent, Agrees
    <3>6. ASSUME NEW o \in sound, o # p PROVE WholeOrAbsent(g, o)
      <4>1. o \in Known /\ WholeOrAbsent(f, o) /\ Marker(o) # Marker(p)
        BY Zenon, <1>0, <2>4, <3>6, MarkerIs DEF GoodBut
      <4> QED
        BY Zenon, <3>1, <3>4, <4>1 DEF WholeOrAbsent, Agrees
    <3>7. Good(g) /\ files' = g
      BY Zenon, <2>5, <3>2, <3>3, <3>5, <3>6 DEF Good, GoodBut, g
    <3> QED
      BY Zenon, <1>5, <2>2, <2>4, <3>7, IdleKeeps DEF InstallReturn
  <2>6. CASE files' = RemovePackageFiles(f, p)
    <3>1. Good(RemovePackageFiles(f, p))
      BY Zenon, <1>0, <2>4, RemovedIs
    <3> QED
      BY Zenon, <1>5, <2>2, <2>4, <2>6, <3>1, IdleKeeps DEF InstallReturn
  <2> QED
    BY Zenon, <1>5, <2>3, <2>5, <2>6 DEF InstallReturn, FailedInstall
<1> QED
  BY Zenon, <1>1, <1>2, <1>3, <1>4, <1>5 DEF ShellStep

\* The console's commands and its snapshots.
LEMMA ConsoleKeeps ==
    StoreInv /\ running = "kmain64" /\ ConsoleStep /\ UNCHANGED <<todo, running, sound>> => StoreInv'
<1> SUFFICES ASSUME StoreInv, running = "kmain64", ConsoleStep, UNCHANGED <<todo, running, sound>>
             PROVE  StoreInv'
  OBVIOUS
<1>0. sound \subseteq Known
  BY Zenon DEF StoreInv, RunInv
<1>1. todo' \in Seq(Known)
  BY Zenon DEF StoreInv, FilesInv
<1>2. \A q \in WritePaths : /\ q \notin Markers /\ q # << >>
                            /\ \A p \in Known : q \notin DOMAIN FilesOf[p]
  BY Zenon, StoreAssumption, OwnFiles
<1>3. PICK f : f = files
  OBVIOUS
<1>4. ASSUME job = Idle, NEW g, IsFiles(g), NEW q \in WritePaths,
             \A r : r # q => (r \in DOMAIN g <=> r \in DOMAIN f) /\ (r \in DOMAIN f => g[r] = f[r])
      PROVE  Good(g)
  <2>1. Good(f)
    BY Zenon, <1>3, <1>4, IdleGood
  <2>2. MarkersEmpty(g)
    BY Zenon, <1>0, <1>2, <1>4, <2>1, GoodIs DEF MarkersEmpty
  <2>3. \A p \in Known : Marker(p) \in DOMAIN g <=> Marker(p) \in DOMAIN f
    BY Zenon, <1>2, <1>4, MarkersAre
  <2>4. ASSUME NEW p \in sound PROVE WholeOrAbsent(g, p)
    <3>1. p \in Known /\ WholeOrAbsent(f, p)
      BY Zenon, <1>0, <2>1, GoodIs
    <3>2. \A r \in DOMAIN FilesOf[p] : (r \in DOMAIN g <=> r \in DOMAIN f) /\ (r \in DOMAIN f => g[r] = f[r])
      BY Zenon, <1>2, <1>4, <3>1
    <3> QED
      BY Zenon, <2>3, <3>1, <3>2 DEF WholeOrAbsent, Agrees
  <2>5. \A p \in Known : Marker(p) \in DOMAIN g => Indexed(p)
    BY Zenon, <1>0, <2>1, <2>3, GoodIs
  <2> QED
    BY Zenon, <1>0, <1>4, <2>2, <2>4, <2>5, GoodIs
<1>5. ASSUME NEW record \in Writes, WriteFile(record) PROVE StoreInv'
  <2>0. PICK q, value : q = record.path /\ files' = Written(f, <<[path |-> q, value |-> value]>>)
    BY Zenon, <1>3, <1>5 DEF WriteFile
  <2>1. q = record.path
    BY <2>0
  <2> DEFINE g == Written(f, <<[path |-> q, value |-> value]>>)
  <2>2. /\ g = [p \in DOMAIN g |-> g[p]]
        /\ DOMAIN g = DOMAIN f \cup {q}
        /\ \A p \in DOMAIN g : g[p] = IF p = q THEN value ELSE f[p]
    <3>0. PICK r : r = [path |-> q, value |-> value]
      OBVIOUS
    <3>1. Written(f, <<r>>) = [p \in DOMAIN f \cup {r.path} |-> IF p = r.path THEN r.value ELSE f[p]]
      BY WrittenOne
    <3>2. g = [p \in DOMAIN f \cup {q} |-> IF p = q THEN value ELSE f[p]]
      <4>1. r.path = q /\ r.value = value
        BY <3>0
      <4> QED
        BY Zenon, <3>0, <3>1, <4>1
    <3> HIDE DEF g
    <3> QED
      BY <3>2
  <2>3. files' = g /\ job = Idle
    BY Zenon, <1>5, <2>0 DEF WriteFile
  <2> HIDE DEF g
  <2>4. q \in WritePaths
    BY Zenon, <2>1 DEF WritePaths
  <2>5. IsFiles(f)
    BY Zenon, <1>0, <1>3, <2>3, IdleGood, GoodIs
  <2>6. IsFiles(g)
    BY Zenon, <1>2, <2>1, <2>2, <2>4, <2>5 DEF IsFiles
  <2>7. \A r : r # q => (r \in DOMAIN g <=> r \in DOMAIN f) /\ (r \in DOMAIN f => g[r] = f[r])
    BY Zenon, <2>1, <2>2
  <2>8. Good(g)
    BY Zenon, <1>4, <2>3, <2>4, <2>6, <2>7
  <2> QED
    BY Zenon, <1>1, <1>5, <2>3, <2>8, IdleGood, IdleKeeps DEF WriteFile
<1>6. ASSUME NEW record \in Writes, Unlink(record.path) PROVE StoreInv'
  <2>1. PICK q : q = record.path
    OBVIOUS
  <2> DEFINE g == [r \in DOMAIN f \ {q} |-> f[r]]
  <2>2. /\ g = [r \in DOMAIN g |-> g[r]]
        /\ DOMAIN g = DOMAIN f \ {q}
        /\ \A r \in DOMAIN g : g[r] = f[r]
    OBVIOUS
  <2>3. files' = g /\ job = Idle
    BY Zenon, <1>3, <1>6, <2>1 DEF Unlink
  <2> HIDE DEF g
  <2>4. q \in WritePaths
    BY Zenon, <2>1 DEF WritePaths
  <2>5. IsFiles(f)
    BY Zenon, <1>0, <1>3, <2>3, IdleGood, GoodIs
  <2>6. IsFiles(g)
    BY Zenon, <2>2, <2>5 DEF IsFiles
  <2>7. \A r : r # q => (r \in DOMAIN g <=> r \in DOMAIN f) /\ (r \in DOMAIN f => g[r] = f[r])
    BY Zenon, <2>2
  <2>8. Good(g)
    BY Zenon, <1>4, <2>3, <2>4, <2>6, <2>7
  <2> QED
    BY Zenon, <1>1, <1>6, <2>3, <2>8, IdleGood, IdleKeeps DEF Unlink
<1>7. CASE SnapshotSave
  <2>1. job = Idle /\ Good(f) /\ f # NoFiles /\ Store(RootFs, f) /\ UNCHANGED <<disk, sb, files>>
    BY Zenon, <1>3, <1>7, IdleGood DEF SnapshotSave
  <2>2. DOMAIN f # {}
    <3>1. f = [p \in DOMAIN f |-> f[p]] /\ NoFiles = [p \in DOMAIN NoFiles |-> NoFiles[p]]
      BY Zenon, <1>0, <2>1, GoodIs, NoFilesIs DEF IsFiles
    <3> QED
      BY <2>1, <3>1, NoFilesIs
  <2>3. Payload(RootFs, f)
    BY Zenon, <1>0, <2>1, <2>2, GoodIs DEF Payload
  <2>4. running # "kmain"
    OBVIOUS
  <2>5. DiskInv' /\ RunInv' /\ JobInv' /\ HistoryInv' /\ Busy' /\ job'.name = RootFs
    BY Zenon, <2>1, <2>3, <2>4, StoreKeeps
  <2>6. \A o : Indexed(o)' = Indexed(o)
    BY Zenon, <2>1, DiskKept DEF StoreInv, Store
  <2>7. GoodBut(files, RootFs)'
    BY Zenon, <1>3, <2>1, <2>6 DEF Good, GoodBut
  <2>8. FilesInv'
    BY Zenon, <1>1, <2>5, <2>7, MarkersAre DEF FilesInv
  <2> QED
    BY Zenon, <2>5, <2>8 DEF StoreInv
<1>8. CASE SnapshotReturn
  <2>1. job.at \in {"stored", "failed"}
    BY Zenon, <1>8 DEF SnapshotReturn
  <2>2. Busy /\ job # Off
    BY <2>1 DEF Busy, Off
  <2>3. job.name = RootFs
    BY <2>2 DEF StoreInv, JobInv
  <2>4. Good(files)
    BY Zenon, <2>2, <2>3 DEF StoreInv, FilesInv, Good
  <2> QED
    BY Zenon, <1>1, <1>8, <2>2, <2>4, IdleKeeps DEF SnapshotReturn
<1> QED
  BY Zenon, <1>5, <1>6, <1>7, <1>8 DEF ConsoleStep

-----------------------------------------------------------------------------
(* The power goes, and a kernel starts.                                    *)

\* All that is left is the disk.
LEMMA PowerCutKeeps ==
    StoreInv /\ PowerCut /\ todo' = << >> /\ UNCHANGED <<running, sound>> => StoreInv'
<1> SUFFICES ASSUME StoreInv, PowerCut, todo' = << >>, UNCHANGED <<running, sound>> PROVE StoreInv'
  OBVIOUS
<1>1. DiskInv' /\ \A p : Indexed(p)' = Indexed(p)
  BY Zenon, DiskKept DEF StoreInv, PowerCut, history
<1>2. job' = Off /\ job'.at = "off"
  BY DEF PowerCut, Off
<1>3. ~Busy' /\ ~Writing'
  BY <1>2 DEF Busy, Writing
<1>4. RunInv'
  BY <1>2, StorageAssumption DEF StoreInv, RunInv, PowerCut, Empty, history
<1>5. JobInv'
  BY <1>2, <1>3 DEF JobInv
<1>6. Good(files)'
  BY Zenon, NoFilesIs DEF PowerCut, Good, GoodBut, MarkersEmpty, WholeOrAbsent
<1>7. FilesInv'
  BY <1>3, <1>6 DEF FilesInv
<1>8. HistoryInv'
  BY Zenon DEF StoreInv, HistoryInv, PowerCut, history
<1> QED
  BY Zenon, <1>1, <1>4, <1>5, <1>7, <1>8 DEF StoreInv

\* storage_init formats only a disk without entries, and the files that are
\* replayed are those that were stored.
LEMMA StartKeeps == ~ReadFaults /\ StoreInv /\ Start => StoreInv'
<1> SUFFICES ASSUME ~ReadFaults, StoreInv, Start PROVE StoreInv'
  OBVIOUS
<1> USE DEF Start, Boot
<1>0. sound' \subseteq sound /\ sound \subseteq Known
  BY Zenon DEF StoreInv, RunInv
<1>1. DiskInv
  BY Zenon DEF StoreInv
<1>2. job' = Idle /\ job'.at = "none"
  BY DEF Idle
<1>3. ~Busy' /\ ~Writing'
  BY <1>2 DEF Busy, Writing
<1>4. \/ super.magic /\ super.next >= DataStart /\ sb' = super /\ super' = super
      \/ /\ ~(super.magic /\ super.next >= DataStart)
         /\ sb' = [magic |-> TRUE, next |-> DataStart]
         /\ super' \in {super, sb'}
  BY Zenon DEF StorageInit
<1>5. super = Blank \/ super \in [magic : {TRUE}, next : DataStart .. DiskEnd]
  BY Zenon, <1>1 DEF DiskInv
<1>6. /\ super' = super \/ super = Blank
      /\ super' \in {Blank} \cup [magic : {TRUE}, next : DataStart .. DiskEnd]
      /\ sb' \in [magic : BOOLEAN, next : DataStart .. DiskEnd]
      /\ sb'.magic /\ super'.next <= sb'.next
  <2>1. CASE super = Blank
    <3> DEFINE new == [magic |-> TRUE, next |-> DataStart]
    <3>1. ~Blank.magic /\ Blank.next = 0
      BY DEF Blank
    <3>2. sb' = new /\ super' \in {Blank, new}
      BY Zenon, <1>4, <2>1, <3>1
    <3>3. new \in [magic : {TRUE}, next : DataStart .. DiskEnd] /\ new.magic /\ new.next = DataStart
      BY StorageAssumption
    <3>4. new \in [magic : BOOLEAN, next : DataStart .. DiskEnd]
      BY StorageAssumption
    <3>5. 0 <= DataStart /\ DataStart <= DataStart
      BY StorageAssumption
    <3> HIDE DEF new
    <3> QED
      BY Zenon, <2>1, <3>1, <3>2, <3>3, <3>4, <3>5
  <2>2. CASE super \in [magic : {TRUE}, next : DataStart .. DiskEnd]
    <3>1. super.magic \in {TRUE} /\ super.next \in DataStart .. DiskEnd
      BY Zenon, <2>2
    <3>2. super.next >= DataStart /\ super.next <= super.next
      BY <3>1, StorageAssumption
    <3>3. super \in [magic : BOOLEAN, next : DataStart .. DiskEnd]
      BY Zenon, <2>2
    <3> QED
      BY Zenon, <1>4, <2>2, <3>1, <3>2, <3>3
  <2> QED
    BY Zenon, <1>5, <2>1, <2>2
<1>7. UNCHANGED <<index, data, log, saved, since, jobs>>
  BY Zenon DEF history
<1>8. \A i \in DOMAIN index : super # Blank
  <2> SUFFICES ASSUME NEW i \in DOMAIN index, super.next = 0 PROVE FALSE
    BY DEF Blank
  <2>1. EntryInv(i)
    BY Zenon, <1>1 DEF DiskInv
  <2> QED
    BY <2>1, StorageAssumption DEF EntryInv, Sectors
<1>9. \A i \in DOMAIN index : EntryInv(i)'
  <2> SUFFICES ASSUME NEW i \in DOMAIN index PROVE EntryInv(i)'
    OBVIOUS
  <2>1. EntryInv(i) /\ super' = super
    BY Zenon, <1>1, <1>6, <1>8 DEF DiskInv
  <2>2. \A name, f : Payload(name, f) => Payload(name, f)'
    BY Zenon, <1>0 DEF Payload
  <2> QED
    BY Zenon, <1>7, <2>1, <2>2 DEF EntryInv
<1>10. DiskInv'
  BY Zenon, <1>1, <1>6, <1>7, <1>9 DEF DiskInv
<1>11. RunInv'
  BY <1>0, <1>2, <1>6, <1>7 DEF StoreInv, RunInv
<1>12. JobInv'
  BY <1>2, <1>3 DEF JobInv
<1>13. PICK lost : files' = Replay(lost) /\ missed' = Missed(lost)
  BY Zenon
<1>14. \A p : Indexed(p)' = Indexed(p)
  BY Zenon, <1>7 DEF Indexed
<1>15. /\ IsFiles(files') /\ MarkersEmpty(files')
       /\ \A p \in sound' : WholeOrAbsent(files', p)
       /\ \A p \in Known : Marker(p) \in DOMAIN files' => Indexed(p)
  <2>1. /\ IsFiles(files') /\ MarkersEmpty(files')
        /\ \A p \in Known : Marker(p) \in DOMAIN files' => Indexed(p)
        /\ \A p \in Known : p \in sound /\ PathsOf(p) \cap missed' = {} =>
             IF Indexed(p) THEN Agrees(FilesOf[p], files') /\ Marker(p) \in DOMAIN files'
             ELSE PathsOf(p) \cap DOMAIN files' = {}
    BY Zenon, <1>1, <1>13, ReplayedFiles
  <2>2. \A p \in sound' : p \in Known /\ p \in sound /\ PathsOf(p) \cap missed' = {}
    BY Zenon, <1>0 DEF PathsOf
  <2>3. ASSUME NEW p \in sound' PROVE WholeOrAbsent(files', p)
    BY Zenon, <2>1, <2>2 DEF WholeOrAbsent, PathsOf
  <2> QED
    BY Zenon, <2>1, <2>3
<1>16. Good(files)'
  BY Zenon, <1>14, <1>15 DEF Good, GoodBut
<1>17. FilesInv'
  BY Zenon, <1>3, <1>16 DEF FilesInv, StoreInv
<1>18. HistoryInv'
  BY Zenon, <1>7 DEF StoreInv, HistoryInv
<1> QED
  BY Zenon, <1>10, <1>11, <1>12, <1>17, <1>18 DEF StoreInv

-----------------------------------------------------------------------------
(* storage_write and storage_add_index_entry.                              *)

\* A payload has records.
LEMMA HasRecords ==
    ASSUME NEW name, NEW f, Payload(name, f)
    PROVE  RecordsOf(f) # {}
BY Zenon DEF Payload, RecordsOf

\* Sectors elsewhere keep what they hold.
LEMMA HoldsKept ==
    ASSUME NEW d, NEW e, NEW start \in Int, NEW n \in Nat,
           \A x \in start .. start + n - 1 : e[x] = d[x]
    PROVE  Contents(e, start, n) = Contents(d, start, n)
<1>1. \A k \in 1 .. n : e[start + k - 1] = d[start + k - 1]
  <2> SUFFICES ASSUME NEW k \in 1 .. n PROVE e[start + k - 1] = d[start + k - 1]
    OBVIOUS
  <2>1. start + k - 1 \in start .. start + n - 1
    OBVIOUS
  <2> QED
    BY Zenon, <2>1
<1> QED
  BY Zenon, <1>1 DEF Contents

\* One sector more.
LEMMA HoldsMore ==
    ASSUME NEW d, NEW e, NEW start \in Int, NEW n \in Nat,
           \A x \in start .. start + n - 1 : e[x] = d[x]
    PROVE  Contents(e, start, n + 1) = Contents(d, start, n) \cup {e[start + n]}
<1>1. Contents(e, start, n) = Contents(d, start, n)
  BY Zenon, HoldsKept
<1>2. /\ \A k : k \in 1 .. n + 1 <=> k \in 1 .. n \/ k = n + 1
      /\ start + (n + 1) - 1 = start + n
  OBVIOUS
<1>3. Contents(e, start, n + 1) = Contents(e, start, n) \cup {e[start + n]}
  BY Zenon, <1>2 DEF Contents
<1> QED
  BY Zenon, <1>1, <1>3

\* A job that ends without an entry leaves the disk whole.
LEMMA FailKeeps ==
    ASSUME StoreInv, Writing, DiskInv', Return(FALSE), UNCHANGED <<files, todo, running, sound, saved, since, jobs>>,
           log' = log \/ (Len(log') # 0 /\ log'[Len(log')] = job.files),
           \A p : Indexed(p) => Indexed(p)',
           sb' \in [magic : BOOLEAN, next : DataStart .. DiskEnd], sb'.magic, super'.next <= sb'.next
    PROVE  StoreInv'
<1>1. job' = [at |-> "failed", name |-> job.name, files |-> job.files]
  BY Zenon DEF Return
<1>2. job'.at = "failed" /\ job'.name = job.name /\ job'.files = job.files
  BY <1>1
<1>3. Busy /\ Busy' /\ ~Writing'
  BY <1>2 DEF Busy, Writing
<1>4. RunInv'
  BY <1>2 DEF StoreInv, RunInv
<1>5. JobInv'
  <2>1. Payload(job.name, job.files) /\ IF running = "kmain" THEN job.name \in Known ELSE job.name = RootFs
    BY Zenon, <1>3 DEF StoreInv, JobInv
  <2>2. Payload(job.name, job.files)'
    BY Zenon, <1>2, <2>1 DEF Payload
  <2> QED
    BY <1>2, <1>3, <2>1, <2>2 DEF JobInv
<1>6. FilesInv'
  BY Zenon, <1>2, <1>3 DEF StoreInv, FilesInv, GoodBut
<1>7. HistoryInv'
  <2>1. job.files \in since
    BY DEF StoreInv, JobInv
  <2> QED
    BY Zenon, <2>1 DEF StoreInv, HistoryInv
<1> QED
  BY Zenon, <1>4, <1>5, <1>6, <1>7 DEF StoreInv

\* A data sector lies above all entries.
LEMMA WriteSectorKeeps ==
    StoreInv /\ WriteSector /\ UNCHANGED <<todo, running, sound>> => StoreInv'
<1> SUFFICES ASSUME StoreInv, WriteSector, UNCHANGED <<todo, running, sound>> PROVE StoreInv'
  OBVIOUS
<1> DEFINE lba == job.start + job.done
           record == CHOOSE r \in job.left : TRUE
           filled == IF lba \in Sectors THEN [data EXCEPT ![lba] = record] ELSE data
<1>1. /\ job.at = "data" /\ job.left # {}
      /\ \/ lba \in Sectors /\ data' = filled /\ job' = [job EXCEPT !.done = @ + 1, !.left = @ \ {record}]
         \/ data' \in {data, filled} /\ Return(FALSE)
      /\ UNCHANGED <<super, index, sb, files, log, saved, since, jobs>>
  BY Zenon DEF WriteSector, history
<1>2. record \in job.left
  BY Zenon, <1>1
<1>3. DiskInv /\ RunInv /\ JobInv
  BY Zenon DEF StoreInv
<1>4. Writing /\ Busy
  BY <1>1 DEF Writing, Busy
<1>5. /\ job \in [at : {"data", "index"}, name : Known \cup {RootFs}, files : since,
                  left : SUBSET RecordsOf(job.files), done : Nat, start : DataStart .. DiskEnd]
      /\ Contents(data, job.start, job.done) = RecordsOf(job.files) \ job.left
      /\ job.start = sb.next
  BY Zenon, <1>1, <1>3, <1>4 DEF JobInv
<1>6. job.done \in Nat /\ job.start \in Nat /\ job.left \subseteq RecordsOf(job.files)
  BY <1>5, StorageAssumption
<1>7. super.next <= sb.next /\ sb.magic /\ sb \in [magic : BOOLEAN, next : DataStart .. DiskEnd]
  BY Zenon, <1>1, <1>3 DEF RunInv
<1>8. DOMAIN data = Sectors /\ data' \in {data, filled}
  BY Zenon, <1>1, <1>3 DEF DiskInv
<1> HIDE DEF record
<1>9. DOMAIN data' = Sectors /\ \A x \in Sectors : x # lba => data'[x] = data[x]
  BY <1>8
<1>10. ASSUME lba \in Sectors, data' = filled PROVE data'[lba] = record
  BY <1>8, <1>10
<1> HIDE DEF filled
<1>11. \A i \in DOMAIN index : EntryInv(i)'
  <2> SUFFICES ASSUME NEW i \in DOMAIN index PROVE EntryInv(i)'
    OBVIOUS
  <2>1. EntryInv(i)
    BY Zenon, <1>3 DEF DiskInv
  <2>2. PICK start, n : start = index[i].start /\ n = index[i].sectors
    OBVIOUS
  <2>3. start \in Sectors /\ n \in Nat \ {0} /\ start + n <= super.next
    BY Zenon, <2>1, <2>2 DEF EntryInv
  <2>4. super.next \in {0} \cup DataStart .. DiskEnd
    BY Zenon, IntactFromInv DEF StoreIntact, TypeOK
  <2>5. \A x \in start .. start + n - 1 : x \in Sectors /\ x # lba
    BY <1>5, <1>6, <1>7, <2>3, <2>4, StorageAssumption DEF Sectors
  <2>6. start \in Int /\ n \in Nat /\ \A x \in start .. start + n - 1 : data'[x] = data[x]
    <3>1. start \in Int /\ n \in Nat
      BY <2>3, StorageAssumption DEF Sectors
    <3> QED
      BY Zenon, <1>9, <2>5, <3>1
  <2>7. Contents(data', start, n) = Contents(data, start, n)
    BY Zenon, <2>6, HoldsKept
  <2> QED
    BY Zenon, <1>1, <2>1, <2>2, <2>7 DEF EntryInv, Holds, Payload
<1>12. DiskInv' /\ \A p : Indexed(p)' = Indexed(p)
  BY Zenon, <1>1, <1>3, <1>9, <1>11 DEF DiskInv, Indexed
<1>13. CASE lba \in Sectors /\ data' = filled /\ job' = [job EXCEPT !.done = @ + 1, !.left = @ \ {record}]
  <2>1. /\ job'.at = "data" /\ job'.name = job.name /\ job'.files = job.files
        /\ job'.left = job.left \ {record} /\ job'.done = job.done + 1 /\ job'.start = job.start
        /\ job' \in [at : {"data", "index"}, name : Known \cup {RootFs}, files : since,
                     left : SUBSET RecordsOf(job.files), done : Nat, start : DataStart .. DiskEnd]
    <3>1. job.done + 1 \in Nat /\ job.left \ {record} \in SUBSET RecordsOf(job.files)
      BY <1>6
    <3>2. /\ job'.at = "data" /\ job'.name = job.name /\ job'.files = job.files
          /\ job'.left = job.left \ {record} /\ job'.done = job.done + 1 /\ job'.start = job.start
      BY <1>1, <1>5, <1>13
    <3>3. job' \in [at : {"data", "index"}, name : Known \cup {RootFs}, files : since,
                    left : SUBSET RecordsOf(job.files), done : Nat, start : DataStart .. DiskEnd]
      BY Zenon, <1>5, <1>13, <3>1
    <3> QED
      BY Zenon, <3>2, <3>3
  <2>2. Writing' /\ Busy'
    BY <2>1 DEF Writing, Busy
  <2>3. RunInv'
    BY <1>1, <1>3, <2>1 DEF RunInv
  <2>4. Contents(data', job.start, job.done + 1) = RecordsOf(job.files) \ (job.left \ {record})
    <3>1. PICK d, e, start, n, r :
            d = data /\ e = data' /\ start = job.start /\ n = job.done /\ r = record
      OBVIOUS
    <3>2. start \in Int /\ n \in Nat
      BY <1>6, <3>1
    <3>3. \A x \in start .. start + n - 1 : e[x] = d[x]
      BY <1>5, <1>6, <1>9, <1>13, <3>1, StorageAssumption DEF Sectors
    <3>4. e[start + n] = r
      BY Zenon, <1>10, <1>13, <3>1
    <3>5. Contents(e, start, n + 1) = Contents(d, start, n) \cup {e[start + n]}
      BY <3>2, <3>3, HoldsMore
    <3>6. Contents(data', job.start, job.done + 1) = (RecordsOf(job.files) \ job.left) \cup {record}
      BY Zenon, <1>5, <3>1, <3>4, <3>5
    <3> QED
      BY Zenon, <1>2, <1>6, <3>6
  <2>5. job.start + (job.done + 1) <= DiskEnd
    BY <1>6, <1>13, StorageAssumption DEF Sectors
  <2>6. JobInv'
    <3>1. Payload(job.name, job.files)'
      BY Zenon, <1>3, <1>4, <2>1 DEF JobInv, Payload
    <3> QED
      BY <1>1, <1>3, <1>4, <1>5, <2>1, <2>2, <2>4, <2>5, <3>1 DEF JobInv
  <2>7. FilesInv'
    BY Zenon, <1>1, <1>4, <1>12, <2>1, <2>2 DEF StoreInv, FilesInv, GoodBut
  <2>8. HistoryInv'
    BY Zenon, <1>1 DEF StoreInv, HistoryInv
  <2> QED
    BY Zenon, <1>12, <2>3, <2>6, <2>7, <2>8 DEF StoreInv
<1>14. CASE Return(FALSE)
  <2>1. /\ UNCHANGED <<files, todo, running, sound, saved, since, jobs>> /\ log' = log
        /\ sb' \in [magic : BOOLEAN, next : DataStart .. DiskEnd] /\ sb'.magic
        /\ super'.next <= sb'.next
    BY Zenon, <1>1, <1>7
  <2>2. \A p : Indexed(p) => Indexed(p)'
    BY Zenon, <1>12
  <2> QED
    BY Zenon, <1>4, <1>12, <1>14, <2>1, <2>2, FailKeeps
<1> QED
  BY Zenon, <1>1, <1>13, <1>14

\* The superblock is advanced past the sectors that were written.
LEMMA WriteSuperblockKeeps ==
    StoreInv /\ WriteSuperblock /\ UNCHANGED <<todo, running, sound>> => StoreInv'
<1> SUFFICES ASSUME StoreInv, WriteSuperblock, UNCHANGED <<todo, running, sound>> PROVE StoreInv'
  OBVIOUS
<1>1. /\ job.at = "data" /\ job.left = {}
      /\ sb' = [sb EXCEPT !.next = @ + job.done]
      /\ \/ super' = sb' /\ job' = [job EXCEPT !.at = "index"]
         \/ super' \in {super, sb'} /\ Return(FALSE)
      /\ UNCHANGED <<index, data, files, log, saved, since, jobs>>
  BY Zenon DEF WriteSuperblock, history
<1>2. DiskInv /\ RunInv /\ JobInv
  BY Zenon DEF StoreInv
<1>3. Writing /\ Busy
  BY <1>1 DEF Writing, Busy
<1>4. /\ job \in [at : {"data", "index"}, name : Known \cup {RootFs}, files : since,
                  left : SUBSET RecordsOf(job.files), done : Nat, start : DataStart .. DiskEnd]
      /\ job.start + job.done <= DiskEnd
      /\ Contents(data, job.start, job.done) = RecordsOf(job.files) \ job.left
      /\ job.start = sb.next
  BY Zenon, <1>1, <1>2, <1>3 DEF JobInv
<1>5. super.next <= sb.next /\ sb.magic /\ sb \in [magic : BOOLEAN, next : DataStart .. DiskEnd]
  BY Zenon, <1>1, <1>2 DEF RunInv
<1>6. /\ sb.magic \in BOOLEAN /\ job.done \in Nat /\ sb.next \in Nat
      /\ sb.next + job.done \in DataStart .. DiskEnd
      /\ sb = [magic |-> sb.magic, next |-> sb.next]
  BY <1>4, <1>5, StorageAssumption
<1>7. sb' = [magic |-> sb.magic, next |-> sb.next + job.done]
  BY <1>1, <1>6
<1>8. /\ sb'.magic /\ sb'.next = sb.next + job.done
      /\ sb' \in [magic : {TRUE}, next : DataStart .. DiskEnd]
      /\ sb' \in [magic : BOOLEAN, next : DataStart .. DiskEnd]
  BY <1>5, <1>6, <1>7
<1>9. super.next \in {0} \cup DataStart .. DiskEnd
  BY Zenon, IntactFromInv DEF StoreIntact, TypeOK
<1>10. super.next <= super'.next /\ super'.next <= sb'.next /\ super'.next \in Nat
  <2>1. super.next <= sb'.next /\ super.next \in Nat /\ sb'.next \in Nat
    BY <1>5, <1>6, <1>8, <1>9, StorageAssumption
  <2>2. super.next <= super.next /\ sb'.next <= sb'.next
    BY <2>1
  <2> QED
    BY Zenon, <1>1, <2>1, <2>2
<1>11. \A i \in DOMAIN index : EntryInv(i)'
  <2> SUFFICES ASSUME NEW i \in DOMAIN index PROVE EntryInv(i)'
    OBVIOUS
  <2>1. EntryInv(i)
    BY Zenon, <1>2 DEF DiskInv
  <2>2. index[i].start + index[i].sectors <= super'.next
    BY <1>9, <1>10, <2>1, StorageAssumption DEF EntryInv, Sectors
  <2> QED
    BY Zenon, <1>1, <2>1, <2>2 DEF EntryInv, Payload
<1>12. super' \in {Blank} \cup [magic : {TRUE}, next : DataStart .. DiskEnd]
  BY Zenon, <1>1, <1>2, <1>8 DEF DiskInv
<1>13. DiskInv' /\ \A p : Indexed(p)' = Indexed(p)
  BY Zenon, <1>1, <1>2, <1>11, <1>12 DEF DiskInv, Indexed
<1>14. CASE super' = sb' /\ job' = [job EXCEPT !.at = "index"]
  <2>1. /\ job'.at = "index" /\ job'.name = job.name /\ job'.files = job.files
        /\ job'.left = job.left /\ job'.done = job.done /\ job'.start = job.start
    BY <1>4, <1>14
  <2>2. job' \in [at : {"data", "index"}, name : Known \cup {RootFs}, files : since,
                  left : SUBSET RecordsOf(job.files), done : Nat, start : DataStart .. DiskEnd]
    BY Zenon, <1>4, <1>14
  <2>3. Writing' /\ Busy'
    BY <2>1 DEF Writing, Busy
  <2>4. RunInv'
    BY <1>1, <1>2, <1>8, <1>10, <2>1 DEF RunInv
  <2>5. JobInv'
    <3>1. Payload(job.name, job.files)'
      BY Zenon, <1>2, <1>3, <2>1 DEF JobInv, Payload
    <3> QED
      BY <1>1, <1>2, <1>3, <1>4, <1>8, <1>14, <2>1, <2>2, <2>3, <3>1 DEF JobInv
  <2>6. FilesInv'
    BY Zenon, <1>1, <1>3, <1>13, <2>1, <2>3 DEF StoreInv, FilesInv, GoodBut
  <2>7. HistoryInv'
    BY Zenon, <1>1 DEF StoreInv, HistoryInv
  <2> QED
    BY Zenon, <1>13, <2>4, <2>5, <2>6, <2>7 DEF StoreInv
<1>15. CASE Return(FALSE)
  <2>1. UNCHANGED <<files, todo, running, sound, saved, since, jobs>> /\ log' = log
    BY Zenon, <1>1
  <2>2. \A p : Indexed(p) => Indexed(p)'
    BY Zenon, <1>13
  <2> QED
    BY Zenon, <1>3, <1>8, <1>10, <1>13, <1>15, <2>1, <2>2, FailKeeps
<1> QED
  BY Zenon, <1>1, <1>14, <1>15

\* A new last element.
LEMMA AppendIs ==
    ASSUME NEW s, s \in Seq(Elements(s)), NEW e
    PROVE  LET t == Append(s, e)
           IN /\ t \in Seq(Elements(t)) /\ Len(t) = Len(s) + 1
              /\ DOMAIN t = DOMAIN s \cup {Len(s) + 1} /\ DOMAIN s = 1 .. Len(s) /\ Len(s) \in Nat
              /\ \A i \in DOMAIN s : t[i] = s[i]
              /\ t[Len(s) + 1] = e
<1> DEFINE t == Append(s, e)
<1>1. s \in Seq(Elements(s) \cup {e})
  OBVIOUS
<1>2. /\ Len(t) = Len(s) + 1 /\ Len(s) \in Nat
      /\ DOMAIN t = 1 .. Len(s) + 1 /\ DOMAIN s = 1 .. Len(s)
      /\ \A i \in 1 .. Len(s) : t[i] = s[i]
      /\ t[Len(s) + 1] = e
  BY <1>1
<1>3. t \in Seq(Elements(s) \cup {e})
  BY <1>1
<1> HIDE DEF t
<1>4. DOMAIN t = DOMAIN s \cup {Len(s) + 1}
  BY <1>2
<1>5. t \in Seq(Elements(t))
  <2>1. \A i \in 1 .. Len(t) : t[i] \in Elements(t)
    BY Zenon, <1>2 DEF Elements
  <2> QED
    BY <1>3, <2>1
<1> QED
  BY Zenon, <1>2, <1>4, <1>5 DEF t

\* The new entry is whole and lies below the superblock's next sector.
LEMMA EntryAppended ==
    ASSUME StoreInv, job.at = "index", ~Full(index), UNCHANGED <<super, data, sound>>,
           index' = Append(index, Entry), log' = Append(log, job.files)
    PROVE  /\ DiskInv' /\ \A p : Indexed(p) => Indexed(p)'
           /\ Len(log') # 0 /\ log'[Len(log')] = job.files
           /\ \A p : p = job.name => Indexed(p)'
<1>1. DiskInv /\ RunInv /\ JobInv /\ Writing /\ Busy
  BY DEF StoreInv, Writing, Busy
<1>2. PICK e, f, n : e = Entry /\ f = job.files /\ n = Len(index) + 1
  OBVIOUS
<1>3. /\ index' \in Seq(Elements(index')) /\ Len(index') = n
      /\ DOMAIN index' = DOMAIN index \cup {n} /\ DOMAIN index = 1 .. Len(index) /\ Len(index) \in Nat
      /\ \A i \in DOMAIN index : index'[i] = index[i]
      /\ index'[n] = e
  <2>1. PICK s : s = index
    OBVIOUS
  <2> DEFINE t == Append(s, e)
  <2>2. s \in Seq(Elements(s)) /\ index' = t
    BY Zenon, <1>1, <1>2, <2>1 DEF DiskInv
  <2>3. /\ t \in Seq(Elements(t)) /\ Len(t) = Len(s) + 1
        /\ DOMAIN t = DOMAIN s \cup {Len(s) + 1} /\ DOMAIN s = 1 .. Len(s) /\ Len(s) \in Nat
        /\ \A i \in DOMAIN s : t[i] = s[i]
        /\ t[Len(s) + 1] = e
    BY Zenon, <2>2, AppendIs
  <2> HIDE DEF t
  <2> QED
    BY Zenon, <1>2, <2>1, <2>2, <2>3
<1>4. /\ log' \in Seq(Elements(log')) /\ Len(log') = n
      /\ \A i \in DOMAIN index : log'[i] = log[i]
      /\ log'[n] = f
  <2>1. PICK s : s = log
    OBVIOUS
  <2> DEFINE t == Append(s, f)
  <2>2. s \in Seq(Elements(s)) /\ log' = t /\ Len(s) = Len(index)
    BY Zenon, <1>1, <1>2, <2>1 DEF DiskInv
  <2>3. /\ t \in Seq(Elements(t)) /\ Len(t) = Len(s) + 1
        /\ DOMAIN t = DOMAIN s \cup {Len(s) + 1} /\ DOMAIN s = 1 .. Len(s) /\ Len(s) \in Nat
        /\ \A i \in DOMAIN s : t[i] = s[i]
        /\ t[Len(s) + 1] = f
    BY Zenon, <2>2, AppendIs
  <2> HIDE DEF t
  <2> QED
    BY Zenon, <1>2, <1>3, <2>1, <2>2, <2>3
<1>5. e.name = job.name /\ e.start = job.start /\ e.sectors = job.done
  BY <1>2 DEF Entry
<1>6. /\ job \in [at : {"data", "index"}, name : Known \cup {RootFs}, files : since,
                  left : SUBSET RecordsOf(job.files), done : Nat, start : DataStart .. DiskEnd]
      /\ job.start + job.done <= DiskEnd
      /\ Contents(data, job.start, job.done) = RecordsOf(job.files) \ job.left
      /\ job.left = {} /\ job.start + job.done = super.next
      /\ Payload(job.name, job.files)
  BY Zenon, <1>1 DEF JobInv
<1>7. Holds(data', e.start, e.sectors, f) /\ Payload(e.name, f)
  <2>1. RecordsOf(f) \ {} = RecordsOf(f)
    OBVIOUS
  <2> QED
    BY Zenon, <1>2, <1>5, <1>6, <2>1 DEF Holds
<1>8. e.start \in Sectors /\ e.sectors \in Nat \ {0} /\ e.start + e.sectors <= super.next
  <2>1. job.done \in Nat /\ job.start \in DataStart .. DiskEnd
    BY <1>6
  <2>2. job.done # 0
    <3>1. RecordsOf(f) # {}
      BY Zenon, <1>7, HasRecords
    <3>2. Contents(data, job.start, 0) = {}
      BY DEF Contents
    <3> QED
      BY Zenon, <1>2, <1>5, <1>7, <3>1, <3>2 DEF Holds
  <2> QED
    BY <1>5, <1>6, <2>1, <2>2, StorageAssumption DEF Sectors
<1>9. EntryInv(n)'
  <2>1. \A k, g : Payload(k, g)' = Payload(k, g)
    BY Zenon DEF Payload
  <2> QED
    BY Zenon, <1>3, <1>4, <1>7, <1>8, <2>1 DEF EntryInv
<1>10. \A i \in DOMAIN index : EntryInv(i)'
  <2> SUFFICES ASSUME NEW i \in DOMAIN index PROVE EntryInv(i)'
    OBVIOUS
  <2>1. EntryInv(i) /\ index'[i] = index[i] /\ log'[i] = log[i]
    BY Zenon, <1>1, <1>3, <1>4 DEF DiskInv
  <2> QED
    BY Zenon, <2>1 DEF EntryInv, Payload
<1>11. Len(index') <= IndexRoom
  BY <1>1, <1>2, <1>3, StorageAssumption DEF DiskInv, Full
<1>12. DiskInv'
  <2>1. \A i \in DOMAIN index' : EntryInv(i)'
    BY Zenon, <1>3, <1>9, <1>10
  <2> QED
    BY Zenon, <1>1, <1>3, <1>4, <1>11, <2>1 DEF DiskInv
<1>13. \A p : Indexed(p) => Indexed(p)'
  BY Zenon, <1>3, <1>4 DEF Indexed
<1>14. ASSUME NEW p, p = job.name PROVE Indexed(p)'
  BY Zenon, <1>3, <1>5, <1>14 DEF Indexed
<1>15. n # 0
  BY <1>2, <1>3
<1> QED
  BY Zenon, <1>2, <1>4, <1>12, <1>13, <1>14, <1>15

\* storage_add_index_entry, when the index can be read.
LEMMA AddIndexEntryKeeps ==
    ~ReadFaults /\ StoreInv /\ AddIndexEntry /\ UNCHANGED <<todo, running, sound>> => StoreInv'
<1> SUFFICES ASSUME ~ReadFaults, StoreInv, AddIndexEntry, UNCHANGED <<todo, running, sound>>
             PROVE  StoreInv'
  OBVIOUS
<1> DEFINE Add == index' = Append(index, Entry) /\ log' = Append(log, job.files)
<1>1. /\ job.at = "index" /\ UNCHANGED <<super, data, sb, files>>
      /\ \/ Return(FALSE) /\ UNCHANGED <<index, history>>
         \/ /\ ~Full(index) /\ Add /\ saved' = job.files /\ since' = {} /\ UNCHANGED jobs
            /\ Return(TRUE)
         \/ ~Full(index) /\ (UNCHANGED <<index, log>> \/ Add) /\ Return(FALSE) /\ UNCHANGED <<saved, since, jobs>>
  <2>1. PICK kept \in {<<index, log>>} \cup (IF ReadFaults THEN {<<<< >>, << >>>>} ELSE {}) :
          LET new == Appended(kept[1], Entry)
          IN \/ /\ Full(kept[1])
                /\ Return(FALSE)
                /\ UNCHANGED <<index, history>>
             \/ /\ ~Full(kept[1])
                /\ index' = new /\ log' = Append(kept[2], job.files)
                /\ saved' = job.files /\ since' = {} /\ UNCHANGED jobs
                /\ Return(TRUE)
             \/ /\ ~Full(kept[1])
                /\ \/ UNCHANGED <<index, log>>
                   \/ index' = new /\ log' = Append(kept[2], job.files)
                /\ Return(FALSE)
                /\ UNCHANGED <<saved, since, jobs>>
    BY Zenon DEF AddIndexEntry
  <2>2. kept = <<index, log>>
    BY Zenon
  <2>3. kept[1] = index /\ kept[2] = log
    BY <2>2
  <2>4. job.at = "index" /\ UNCHANGED <<super, data, sb, files>>
    BY Zenon DEF AddIndexEntry
  <2> QED
    BY Zenon, <2>1, <2>3, <2>4 DEF Appended
<1> HIDE DEF Add
<1>2. Writing /\ Busy
  BY <1>1 DEF Writing, Busy
<1>3. super'.next <= sb'.next /\ sb'.magic /\ sb' \in [magic : BOOLEAN, next : DataStart .. DiskEnd]
  BY Zenon, <1>1 DEF StoreInv, RunInv
<1>4. ASSUME Add, ~Full(index)
      PROVE  /\ DiskInv' /\ \A p : Indexed(p) => Indexed(p)'
             /\ Len(log') # 0 /\ log'[Len(log')] = job.files
             /\ \A p : p = job.name => Indexed(p)'
  BY Zenon, <1>1, <1>4, EntryAppended DEF Add
<1>5. ASSUME UNCHANGED <<index, log>> PROVE DiskInv' /\ \A p : Indexed(p) => Indexed(p)'
  BY Zenon, <1>1, <1>5, DiskKept DEF StoreInv, disk
<1>6. ASSUME Return(FALSE), UNCHANGED <<index, log>>, UNCHANGED <<saved, since, jobs>> PROVE StoreInv'
  BY Zenon, <1>1, <1>2, <1>3, <1>5, <1>6, FailKeeps
<1>7. ASSUME Return(FALSE), Add, ~Full(index), UNCHANGED <<saved, since, jobs>> PROVE StoreInv'
  BY Zenon, <1>1, <1>2, <1>3, <1>4, <1>7, FailKeeps
<1>8. ASSUME Return(TRUE), Add, ~Full(index), saved' = job.files, since' = {}, UNCHANGED jobs
      PROVE  StoreInv'
  <2>1. job' = [at |-> "stored", name |-> job.name, files |-> job.files]
    BY Zenon, <1>8 DEF Return
  <2>2. job'.at = "stored" /\ job'.name = job.name /\ job'.files = job.files
    BY <2>1
  <2>3. Busy' /\ ~Writing'
    BY <2>2 DEF Busy, Writing
  <2>4. RunInv'
    BY <1>1, <1>3, <1>8, <2>2 DEF StoreInv, RunInv
  <2>5. JobInv'
    <3>1. Payload(job.name, job.files) /\ IF running = "kmain" THEN job.name \in Known ELSE job.name = RootFs
      BY Zenon, <1>2 DEF StoreInv, JobInv
    <3>2. Indexed(job.name)'
      BY Zenon, <1>4, <1>8, <2>2
    <3>3. Payload(job.name, job.files)'
      BY Zenon, <1>1, <2>2, <3>1 DEF Payload
    <3> QED
      BY <1>1, <2>2, <2>3, <3>1, <3>2, <3>3 DEF JobInv
  <2>6. FilesInv'
    BY Zenon, <1>1, <1>2, <1>4, <1>8, <2>2, <2>3 DEF StoreInv, FilesInv, GoodBut
  <2>7. HistoryInv'
    BY Zenon, <1>4, <1>8 DEF HistoryInv
  <2> QED
    BY Zenon, <1>4, <1>8, <2>4, <2>5, <2>6, <2>7 DEF StoreInv
<1>9. UNCHANGED history => UNCHANGED <<log, saved, since, jobs>>
  BY Zenon DEF history
<1> QED
  BY Zenon, <1>1, <1>6, <1>7, <1>8, <1>9

-----------------------------------------------------------------------------
(* The theorems.                                                           *)

\* A step that changes nothing.
LEMMA StutterKeeps == StoreInv /\ UNCHANGED storeVars => StoreInv'
<1> SUFFICES ASSUME StoreInv, UNCHANGED storeVars PROVE StoreInv'
  OBVIOUS
<1>1. UNCHANGED <<super, index, data, sb, files, job, log, saved, since, jobs, todo, running, sound>>
  BY Zenon DEF storeVars, vars, disk, history
<1>2. DiskInv' /\ \A p : Indexed(p)' = Indexed(p)
  BY Zenon, <1>1, DiskKept DEF StoreInv, disk
<1> QED
  BY Zenon, <1>1, <1>2 DEF StoreInv, RunInv, JobInv, FilesInv, HistoryInv,
     Payload, Good, GoodBut, Busy, Writing

\* Every step of the machine keeps the invariant, if reads do not fail.
LEMMA StoreNextKeeps == ~ReadFaults /\ StoreInv /\ [StoreNext]_storeVars => StoreInv'
<1> SUFFICES ASSUME ~ReadFaults, StoreInv, [StoreNext]_storeVars PROVE StoreInv'
  OBVIOUS
<1>1. CASE Start
  BY Zenon, <1>1, StartKeeps
<1>2. CASE PowerCut /\ todo' = << >> /\ UNCHANGED <<running, sound>>
  BY Zenon, <1>2, PowerCutKeeps
<1>3. CASE StorageStep /\ UNCHANGED <<todo, running, sound, missed>>
  BY Zenon, <1>3, WriteSectorKeeps, WriteSuperblockKeeps, AddIndexEntryKeeps DEF StorageStep
<1>4. CASE running = "kmain" /\ ShellStep /\ UNCHANGED <<running, sound, missed>>
  BY Zenon, <1>4, ShellKeeps
<1>5. CASE running = "kmain64" /\ ConsoleStep /\ UNCHANGED <<todo, running, sound, missed>>
  BY Zenon, <1>5, ConsoleKeeps
<1>6. CASE UNCHANGED storeVars
  BY Zenon, <1>6, StutterKeeps
<1> QED
  BY Zenon, <1>1, <1>2, <1>3, <1>4, <1>5, <1>6 DEF StoreNext

\* While reads do not fail, the disk, the job under way and the RAM file system
\* stay consistent with each other in every state of the machine.
THEOREM StoreInductive == ASSUME ~ReadFaults PROVE StoreSpec => []StoreInv
<1>1. StoreInv /\ [StoreNext]_storeVars => StoreInv'
  BY Zenon, StoreNextKeeps
<1> QED
  BY <1>1, StoreInitInv, PTL DEF StoreSpec

\* Wherever the power goes and whichever writes of storage_write and
\* storage_add_index_entry fail, and whatever storage_restore_packages has no room
\* for, every entry of the index is whole and lies below the sector from which the
\* next start goes on writing.
THEOREM StoreAlwaysIntact == ASSUME ~ReadFaults PROVE StoreSpec => []StoreIntact
BY StoreInductive, IntactFromInv, PTL

\* What storage reported as stored, or something that was stored later, comes
\* back with every run of storage_restore_packages, but for the paths that this
\* run had no memory or no inode for.
THEOREM SavedAlwaysSurvives == ASSUME ~ReadFaults PROVE StoreSpec => SavedSurvives
<1> DEFINE A == job = Off /\ job' = Idle /\ saved # NoFiles =>
                  \E f \in {saved} \cup since :
                    \A p \in DOMAIN f \ missed' : p \in DOMAIN files' /\ files'[p] = f[p]
<1>1. StoreInv /\ [StoreNext]_storeVars => [A]_storeVars
  <2> SUFFICES ASSUME StoreInv, StoreNext, job = Off, job' = Idle, saved # NoFiles
               PROVE  \E f \in {saved} \cup since :
                        \A p \in DOMAIN f \ missed' : p \in DOMAIN files' /\ files'[p] = f[p]
    BY Zenon
  <2>1. job.at = "off" /\ job # Idle
    BY DEF Off, Idle
  <2>2. Start
    <3>1. ~PowerCut
      BY Zenon DEF PowerCut
    <3>2. ~StorageStep
      BY <2>1 DEF StorageStep, WriteSector, WriteSuperblock, AddIndexEntry
    <3>3. ~InstallReturn /\ ~SnapshotReturn
      BY <2>1 DEF InstallReturn, SnapshotReturn
    <3>4. ~ShellStep /\ ~ConsoleStep
      BY Zenon, <2>1, <3>3 DEF ShellStep, InstallPackage, RemovePackage, Upgrade, UpgradeNext,
         ConsoleStep, WriteFile, Unlink, SnapshotSave
    <3> QED
      BY Zenon, <3>1, <3>2, <3>4 DEF StoreNext
  <2>3. PICK lost : files' = Replay(lost) /\ missed' = Missed(lost)
    BY Zenon, <2>2 DEF Start, Boot
  <2>4. Len(log) # 0 /\ log[Len(log)] \in {saved} \cup since /\ DiskInv
    BY Zenon DEF StoreInv, HistoryInv
  <2>5. \A q \in DOMAIN log[Len(log)] \ missed' : q \in DOMAIN files' /\ files'[q] = log[Len(log)][q]
    BY Zenon, <2>3, <2>4, ReplayedFiles
  <2> QED
    BY Zenon, <2>4, <2>5
<1>2. []StoreInv /\ [][StoreNext]_storeVars => [][A]_storeVars
  BY <1>1, PTL
<1> QED
  BY <1>2, StoreInductive, PTL DEF StoreSpec, SavedSurvives

\* Between the shell's commands a package of which storage_restore_packages has
\* left nothing out is whole or absent, after failed installs, upgrades and
\* restarts.
THEOREM PackagesAlwaysWhole == ASSUME ~ReadFaults PROVE StoreSpec => []AllOrNothing
BY StoreInductive, WholeFromInv, PTL

\* A package that has its marker, and of which storage_restore_packages has left
\* nothing out, is on the disk for the next start.
THEOREM InstalledAlwaysStored == ASSUME ~ReadFaults PROVE StoreSpec => []InstalledIsStored
BY StoreInductive, StoredFromInv, PTL

\* Every start restores a package with the files that were stored for it, if
\* storage_init and storage_restore_packages can read the disk and have room for
\* all that is on it.
THEOREM RestoredAlwaysAsStored ==
    ASSUME ~ReadFaults, MaxLost = 0 PROVE StoreSpec => RestoredAsStored
<1> DEFINE A == job = Off => \A p \in Known : Marker(p) \in DOMAIN files' => Agrees(FilesOf[p], files')
<1>1. StoreInit => sound = Known
  BY Zenon DEF StoreInit
<1>2. sound = Known /\ [StoreNext]_storeVars => sound' = Known
  <2> SUFFICES ASSUME Start PROVE sound' = sound
    BY Zenon DEF StoreNext, storeVars
  <2>1. \A S : Few(S) = {{}}
    <3> SUFFICES ASSUME NEW S PROVE Few(S) = {{}}
      OBVIOUS
    <3>1. 0 .. MaxLost = {0} /\ 1 .. 0 = {}
      OBVIOUS
    <3>2. [1 .. 0 -> S] # {}
      <4>1. [k \in 1 .. 0 |-> CHOOSE x \in S : TRUE] \in [1 .. 0 -> S]
        BY <3>1
      <4> QED
        BY Zenon, <4>1
    <3>3. \A g : {g[k] : k \in 1 .. 0} = {}
      BY Zenon, <3>1
    <3>4. Few(S) = UNION {{{} : g \in [1 .. 0 -> S]}}
      <4> DEFINE images(n) == {{g[k] : k \in 1 .. n} : g \in [1 .. n -> S]}
      <4>1. images(0) = {{} : g \in [1 .. 0 -> S]}
        BY Zenon, <3>3
      <4>2. Few(S) = UNION {images(n) : n \in {0}}
        BY Zenon, <3>1 DEF Few
      <4>3. {images(n) : n \in {0}} = {images(0)}
        <5> HIDE DEF images
        <5> QED
          BY Zenon
      <4> QED
        BY Zenon, <4>1, <4>2, <4>3
    <3> QED
      BY Zenon, <3>2, <3>4
  <2>2. missed' = Missed({})
    <3>1. PICK unread \in {{}}, few \in Few(Mishaps) : missed' = Missed(few \cup {Skipped(i) : i \in unread})
      BY Zenon DEF Start, Boot
    <3>2. few \cup {Skipped(i) : i \in unread} = {}
      BY Zenon, <2>1
    <3> QED
      BY Zenon, <3>1, <3>2
  <2> QED
    BY Zenon, <2>2, NothingMissed DEF Start
<1>3. StoreInv /\ sound = Known /\ [StoreNext]_storeVars => [A]_storeVars
  <2> SUFFICES ASSUME StoreInv', sound' = Known PROVE A
    BY Zenon, <1>2, StoreNextKeeps
  <2>1. (\A p \in Known : Marker(p) \in DOMAIN files => Agrees(FilesOf[p], files))'
    BY Zenon, MarkersAre DEF StoreInv, FilesInv, Good, GoodBut, WholeOrAbsent
  <2> QED
    BY Zenon, <2>1
<1>4. StoreSpec => [](sound = Known)
  <2> DEFINE J == sound = Known
  <2>1. StoreInit => J
    BY <1>1
  <2>2. J /\ [StoreNext]_storeVars => J'
    BY <1>2
  <2> QED
    BY <2>1, <2>2, PTL DEF StoreSpec
<1>5. []StoreInv /\ [](sound = Known) /\ [][StoreNext]_storeVars => [][A]_storeVars
  BY <1>3, PTL
<1> QED
  BY <1>4, <1>5, StoreInductive, PTL DEF StoreSpec, RestoredAsStored
=============================================================================
