---------------------------- MODULE UnitScanProofs ----------------------------
(***************************************************************************)
(* Proofs about UnitScan, for every search path, every content of its      *)
(* directories and every order in which directory_iterator returns it.     *)
(***************************************************************************)
EXTENDS UnitScan, TLAPS

Depth == Len(kUnitSearchPaths)
Path(k) == kUnitSearchPaths[k]

\* The loops have been past the file n of the k-th directory.
FileSeen(k, n) ==
  \/ pass > 1
  \/ k < d
  \/ k = d /\ \A e \in todo : e.name # n

\* They have been past the links n of its *.wants and *.requires.
LinkSeen(k, n) ==
  \/ pass > 2
  \/ pass = 2 /\ k < d
  \/ pass = 2 /\ k = d /\ \A e \in todo : e.name # n \/ ~LeadsToUnit(e.target)

\* The m-th directory is the first with a file n, or with an enabled link n.
FirstFile(m, n) ==
  n \in files[Path(m)] /\ \A j \in 1..(m - 1) : n \notin files[Path(j)]
FirstLink(m, n) ==
  n \in Enabled(Path(m)) /\ \A j \in 1..(m - 1) : n \notin Enabled(Path(j))

HasFile(n) == \E k \in 1..Depth : n \in files[Path(k)]

\* The loops, and where the entries they are at come from.
LoopInv ==
  /\ files \in [Dir -> SUBSET FileName]
  /\ links \in [Dir -> SUBSET Link]
  /\ pass \in 1..3 /\ d \in 0..Depth
  /\ pass = 3 \/ d = 0 => todo = {}
  /\ pass = 1 /\ todo # {} => \A e \in todo :
       /\ e.dir = Path(d) /\ e.sub = None
       /\ e.name \in files[Path(d)] /\ e.target = e.name
  /\ pass = 2 /\ todo # {} => \A e \in todo :
       /\ e.dir = Path(d)
       /\ \E l \in links[Path(d)] :
            l.sub = e.sub /\ l.name = e.name /\ l.target = e.target

\* What has been seen has its name taken, and a name is only taken by what
\* comes first.
NameOf(n) ==
  /\ \A k \in 1..Depth : n \in files[Path(k)] /\ FileSeen(k, n) => n \in discovered_names_
  /\ \A k \in 1..Depth : n \in Enabled(Path(k)) /\ LinkSeen(k, n) => n \in discovered_names_
  /\ n \in discovered_names_ /\ pass = 1 => HasFile(n)
  /\ n \in discovered_names_ /\ HasFile(n) =>
       \E k \in Found(n) : \E m \in 1..Depth :
         /\ FirstFile(m, n)
         /\ discovered_paths_[k] = [dir |-> Path(m), sub |-> None, name |-> n]
  /\ n \in discovered_names_ /\ ~HasFile(n) =>
       \/ \E k \in Found(n) : \E m \in 1..Depth :
            FirstLink(m, n) /\ discovered_paths_[k].dir = Path(m)
       \/ \E dir \in Dir : \E l \in links[dir] :
            ~is_supported[l.name] /\ l.target = n

\* No unit is in the list twice.
OnceOf(n) ==
  /\ \A j, k \in Found(n) : j = k
  /\ Found(n) # {} => n \in discovered_names_

Entry == [dir : Dir, sub : WantsDir \cup {None}, name : FileName]

ScanInv ==
  /\ LoopInv
  /\ discovered_paths_ \in Seq(Entry)
  /\ \A n \in FileName : is_supported[n] => NameOf(n) /\ OnceOf(n)

-------------------------------------------------------------------------------
\* Places on the search path are directories and the other way round.
LEMMA Places ==
  /\ Depth \in Nat
  /\ \A k \in 1..Depth : Path(k) \in Dir
  /\ \A dir \in Dir : \E k \in 1..Depth : dir = Path(k)
BY ScanAssumption DEF Depth, Path, Dir

\* The place CHOOSEn by First is the first one, where there is one.
LEMMA FirstOfFiles ==
  ASSUME NEW n, NEW m \in 1..Depth, FirstFile(m, n)
  PROVE  First(n, DirectFiles) = m
<1> DEFINE P(k) == /\ n \in DirectFiles(kUnitSearchPaths[k])
                   /\ \A j \in 1..(k - 1) : n \notin DirectFiles(kUnitSearchPaths[j])
<1>1. P(m)
  BY DEF FirstFile, DirectFiles, Path
<1>2. ASSUME NEW k \in 1..Depth, P(k) PROVE k = m
  <2>1. ~(k < m) /\ ~(m < k)
    BY <1>1, <1>2, Places
  <2> QED
    BY <2>1, Places
<1>3. First(n, DirectFiles) = CHOOSE k \in 1..Depth : P(k)
  BY DEF First, Depth
<1> HIDE DEF P
<1> QED
  BY <1>1, <1>2, <1>3

\* The same for the links that enable a unit.
LEMMA FirstOfLinks ==
  ASSUME NEW n, NEW m \in 1..Depth, FirstLink(m, n)
  PROVE  First(n, Enabled) = m
<1> DEFINE P(k) == /\ n \in Enabled(kUnitSearchPaths[k])
                   /\ \A j \in 1..(k - 1) : n \notin Enabled(kUnitSearchPaths[j])
<1>1. P(m)
  BY DEF FirstLink, Path
<1>2. ASSUME NEW k \in 1..Depth, P(k) PROVE k = m
  <2>1. ~(k < m) /\ ~(m < k)
    BY <1>1, <1>2, Places
  <2> QED
    BY <2>1, Places
<1>3. First(n, Enabled) = CHOOSE k \in 1..Depth : P(k)
  BY DEF First, Depth
<1> HIDE DEF P
<1> QED
  BY <1>1, <1>2, <1>3

\* The entries of a directory that OpenDirectory puts before the loop.
LEMMA Opened ==
  ASSUME ScanInv, OpenDirectory
  PROVE  /\ d' \in 1..Depth
         /\ pass = 1 => todo' = { [dir |-> Path(d'), sub |-> None, name |-> n,
                                   target |-> n] : n \in files[Path(d')] }
         /\ pass = 2 => todo' = { [dir |-> Path(d'), sub |-> l.sub, name |-> l.name,
                                   target |-> l.target] : l \in links[Path(d')] }
BY Places DEF OpenDirectory, ScanInv, LoopInv, NextDir, Path, Depth

\* The loops go on as the code has them.
LEMMA LoopStep ==
  ASSUME ScanInv, [Next]_vars
  PROVE  LoopInv'
<1> USE DEF disk
<1>a. LoopInv
  BY DEF ScanInv
<1>1. CASE OpenDirectory
  <2>1. UNCHANGED <<files, links, pass>> /\ pass \in {1, 2}
    BY <1>1 DEF OpenDirectory
  <2>2. pass = 1 => \A e \in todo' :
          /\ e.dir = Path(d') /\ e.sub = None
          /\ e.name \in files[Path(d')] /\ e.target = e.name
    BY <1>1, Opened
  <2>3. pass = 2 => \A e \in todo' :
          /\ e.dir = Path(d')
          /\ \E l \in links[Path(d')] :
               l.sub = e.sub /\ l.name = e.name /\ l.target = e.target
    BY <1>1, Opened
  <2>4. d' \in 1..Depth /\ d' # 0
    BY <1>1, Opened
  <2> QED
    BY <1>a, <2>1, <2>2, <2>3, <2>4 DEF LoopInv, Depth, Path, Dir, Link
<1>2. ASSUME NEW e \in todo, PassOver(e) \/ Discover(e)
      PROVE  LoopInv'
  <2>1. UNCHANGED <<files, links, pass, d>> /\ todo' \subseteq todo
    BY <1>2 DEF PassOver, Discover
  <2> QED
    BY <1>a, <2>1 DEF LoopInv, Depth, Path, Dir, Link
<1>3. CASE EndOfPass
  <2>1. /\ UNCHANGED <<files, links>> /\ todo' = {} /\ pass' = pass + 1 /\ d' = 0
        /\ pass \in {1, 2}
    BY <1>3 DEF EndOfPass
  <2> QED
    BY <1>a, <2>1, Places DEF LoopInv, Depth, Dir, Link
<1>4. CASE UNCHANGED vars
  BY <1>a, <1>4 DEF vars, LoopInv, Depth, Path, Dir, Link
<1> QED
  BY <1>1, <1>2, <1>3, <1>4 DEF Next, Finished

\* Steps that record nothing.
LEMMA NothingRecorded ==
  ASSUME NEW n \in FileName, NameOf(n), OnceOf(n),
         UNCHANGED <<disk, discovered_names_, discovered_paths_>>,
         pass' = 1 => pass = 1,
         \A k \in 1..Depth : n \in files[Path(k)] /\ FileSeen(k, n)' =>
           FileSeen(k, n) \/ n \in discovered_names_,
         \A k \in 1..Depth : n \in Enabled(Path(k)) /\ LinkSeen(k, n)' =>
           LinkSeen(k, n) \/ n \in discovered_names_
  PROVE  NameOf(n)' /\ OnceOf(n)'
<1>1. UNCHANGED <<files, links>>
  BY DEF disk
<1>2. /\ Found(n)' = Found(n) /\ HasFile(n)' = HasFile(n)
      /\ \A k : Enabled(Path(k))' = Enabled(Path(k))
      /\ \A m : FirstFile(m, n)' <=> FirstFile(m, n)
      /\ \A m : FirstLink(m, n)' <=> FirstLink(m, n)
  BY <1>1 DEF Found, HasFile, Enabled, FirstFile, FirstLink, Depth, Path
<1>3. OnceOf(n)'
  BY <1>2 DEF OnceOf
<1>4. NameOf(n)'
  BY <1>1, <1>2 DEF NameOf, Depth, Path, Dir
<1> QED
  BY <1>3, <1>4

\* A unit that is recorded, seen from another unit n.
LEMMA OtherRecorded ==
  ASSUME ScanInv, NEW n \in FileName, is_supported[n], NEW e \in todo, Discover(e),
         n # UnitName(e)
  PROVE  NameOf(n)' /\ OnceOf(n)'
<1>a. NameOf(n) /\ OnceOf(n) /\ discovered_paths_ \in Seq(Entry)
  BY DEF ScanInv
<1>1. e.name # n
  BY DEF UnitName
<1>2. /\ UNCHANGED <<files, links, pass, d>> /\ todo' = todo \ {e}
      /\ discovered_names_' = discovered_names_ \cup {UnitName(e)}
      /\ discovered_paths_' = Append(discovered_paths_,
           [dir |-> e.dir, sub |-> e.sub, name |-> e.name])
  BY DEF Discover, disk
<1>3. /\ Len(discovered_paths_') = Len(discovered_paths_) + 1
      /\ discovered_paths_'[Len(discovered_paths_) + 1] =
           [dir |-> e.dir, sub |-> e.sub, name |-> e.name]
      /\ \A k \in 1..Len(discovered_paths_) :
           discovered_paths_'[k] = discovered_paths_[k]
      /\ Len(discovered_paths_) \in Nat
  BY <1>a, <1>2
<1>4. Found(n)' = Found(n) /\ Found(n) \subseteq 1..Len(discovered_paths_)
  BY <1>1, <1>3 DEF Found
<1>5. /\ HasFile(n)' = HasFile(n)
      /\ \A k : Enabled(Path(k))' = Enabled(Path(k))
      /\ \A m : FirstFile(m, n)' <=> FirstFile(m, n)
      /\ \A m : FirstLink(m, n)' <=> FirstLink(m, n)
  BY <1>2 DEF HasFile, Enabled, FirstFile, FirstLink, Depth, Path
<1>6. n \in discovered_names_' <=> n \in discovered_names_
  BY <1>2
<1>7. \A k : FileSeen(k, n)' => FileSeen(k, n)
  BY <1>1, <1>2 DEF FileSeen
<1>8. \A k : LinkSeen(k, n)' => LinkSeen(k, n)
  BY <1>1, <1>2 DEF LinkSeen
<1>9. OnceOf(n)'
  BY <1>a, <1>4, <1>6 DEF OnceOf
<1>10. n \in discovered_names_ /\ HasFile(n) =>
         \E k \in Found(n) : \E m \in 1..Depth :
           /\ FirstFile(m, n)
           /\ discovered_paths_'[k] = [dir |-> Path(m), sub |-> None, name |-> n]
  BY <1>a, <1>3, <1>4 DEF NameOf
<1>11. n \in discovered_names_ /\ ~HasFile(n) =>
         \/ \E k \in Found(n) : \E m \in 1..Depth :
              FirstLink(m, n) /\ discovered_paths_'[k].dir = Path(m)
         \/ \E dir \in Dir : \E l \in links[dir] :
              ~is_supported[l.name] /\ l.target = n
  BY <1>a, <1>3, <1>4 DEF NameOf
<1>12. /\ \A k \in 1..Depth :
           n \in files[Path(k)] /\ FileSeen(k, n)' => n \in discovered_names_
       /\ \A k \in 1..Depth :
           n \in Enabled(Path(k)) /\ LinkSeen(k, n)' => n \in discovered_names_
       /\ n \in discovered_names_ /\ pass = 1 => HasFile(n)
  BY <1>a, <1>7, <1>8 DEF NameOf
<1>13. NameOf(n)'
  BY <1>2, <1>4, <1>5, <1>6, <1>10, <1>11, <1>12 DEF NameOf, Depth, Path, Dir
<1> QED
  BY <1>9, <1>13

\* A unit that is recorded, itself: what is seen for the first time comes
\* first on the search path.
LEMMA ItselfRecorded ==
  ASSUME ScanInv, NEW n \in FileName, is_supported[n], NEW e \in todo, Discover(e),
         n = UnitName(e)
  PROVE  NameOf(n)' /\ OnceOf(n)'
<1>a. NameOf(n) /\ OnceOf(n) /\ LoopInv /\ discovered_paths_ \in Seq(Entry)
  BY DEF ScanInv
<1>1. n \notin discovered_names_ /\ LeadsToUnit(e.target)
  BY DEF Discover, NameTaken
<1>2. /\ UNCHANGED <<files, links, pass, d>>
      /\ n \in discovered_names_'
      /\ discovered_paths_' = Append(discovered_paths_,
           [dir |-> e.dir, sub |-> e.sub, name |-> e.name])
  BY DEF Discover, disk
<1>3. /\ Len(discovered_paths_') = Len(discovered_paths_) + 1
      /\ discovered_paths_'[Len(discovered_paths_) + 1] =
           [dir |-> e.dir, sub |-> e.sub, name |-> e.name]
      /\ \A k \in 1..Len(discovered_paths_) :
           discovered_paths_'[k] = discovered_paths_[k]
      /\ Len(discovered_paths_) \in Nat
  BY <1>a, <1>2
<1> DEFINE last == Len(discovered_paths_) + 1
<1>4. Found(n) = {}
  BY <1>a, <1>1 DEF OnceOf
<1>5. Found(n)' = IF e.name = n THEN {last} ELSE {}
  BY <1>3, <1>4 DEF Found
<1>6. OnceOf(n)'
  BY <1>2, <1>5 DEF OnceOf
<1>7. /\ HasFile(n)' = HasFile(n)
      /\ \A m : FirstFile(m, n)' <=> FirstFile(m, n)
      /\ \A m : FirstLink(m, n)' <=> FirstLink(m, n)
  BY <1>2 DEF HasFile, Enabled, FirstFile, FirstLink, Depth, Path
<1>8. d \in 1..Depth /\ pass \in {1, 2} /\ e.dir = Path(d)
  BY <1>a, Places DEF LoopInv
<1>9. CASE pass = 1
  <2>1. /\ e.name \in files[Path(d)] /\ e.name = n /\ e.sub = None
    BY <1>a, <1>9 DEF LoopInv, UnitName
  <2>2. FirstFile(d, n)
    <3>1. ASSUME NEW j \in 1..(d - 1) PROVE n \notin files[Path(j)]
      <4>1. j \in 1..Depth /\ FileSeen(j, n)
        BY <1>8, Places DEF FileSeen
      <4> QED
        BY <4>1, <1>a, <1>1 DEF NameOf
    <3> QED
      BY <2>1, <3>1 DEF FirstFile
  <2>3. HasFile(n)
    BY <2>1, <1>8 DEF HasFile
  <2>4. \E k \in Found(n)' : \E m \in 1..Depth :
          /\ FirstFile(m, n)
          /\ discovered_paths_'[k] = [dir |-> Path(m), sub |-> None, name |-> n]
    BY <2>1, <2>2, <1>3, <1>5, <1>8
  <2> QED
    BY <2>3, <2>4, <1>2, <1>6, <1>7 DEF NameOf, Depth, Path
<1>10. CASE pass = 2
  <2>1. PICK l \in links[Path(d)] : l.name = e.name /\ l.target = e.target
    BY <1>a, <1>10 DEF LoopInv
  <2>2. ~HasFile(n)
    BY <1>a, <1>1, <1>10 DEF HasFile, NameOf, FileSeen
  <2>3. CASE e.name = n
    <3>1. n \in Enabled(Path(d))
      BY <2>1, <2>3, <1>1 DEF Enabled
    <3>2. FirstLink(d, n)
      <4>1. ASSUME NEW j \in 1..(d - 1) PROVE n \notin Enabled(Path(j))
        <5>1. j \in 1..Depth /\ LinkSeen(j, n)
          BY <1>8, <1>10, Places DEF LinkSeen
        <5> QED
          BY <5>1, <1>a, <1>1 DEF NameOf
      <4> QED
        BY <3>1, <4>1 DEF FirstLink
    <3>3. \E k \in Found(n)' : \E m \in 1..Depth :
            FirstLink(m, n) /\ discovered_paths_'[k].dir = Path(m)
      BY <2>3, <3>2, <1>3, <1>5, <1>8
    <3>4. (\E k \in Found(n) : \E m \in 1..Depth :
             FirstLink(m, n) /\ discovered_paths_[k].dir = Path(m))'
      BY <3>3, <1>7 DEF Depth, Path
    <3> QED
      <4>1. n \in discovered_names_' /\ pass' # 1 /\ ~HasFile(n)'
        BY <2>2, <1>2, <1>7, <1>10
      <4> QED
        BY <3>4, <4>1, <1>6, Zenon DEF NameOf
  <2>4. CASE e.name # n
    <3>1. ~is_supported[e.name] /\ e.target = n
      BY <2>4 DEF UnitName
    <3>2. \E dir \in Dir : \E x \in links[dir] : ~is_supported[x.name] /\ x.target = n
      BY <3>1, <2>1, <1>8, Places
    <3> QED
      BY <2>2, <3>2, <1>2, <1>6, <1>7, <1>10 DEF NameOf, Dir
  <2> QED
    BY <2>3, <2>4
<1> QED
  BY <1>8, <1>9, <1>10

\* Every step keeps the invariant.
LEMMA ScanStep ==
  ASSUME ScanInv, [Next]_vars
  PROVE  ScanInv'
<1>a. LoopInv'
  BY LoopStep
<1>b. LoopInv /\ discovered_paths_ \in Seq(Entry)
  BY DEF ScanInv
<1>c. Entry' = Entry
  BY DEF Entry, Dir
<1>d. ASSUME NEW n \in FileName, is_supported[n] PROVE NameOf(n) /\ OnceOf(n)
  BY <1>d DEF ScanInv
<1>1. CASE OpenDirectory
  <2>1. /\ UNCHANGED <<disk, pass, discovered_names_, discovered_paths_>>
        /\ d' = d + 1 /\ todo = {} /\ pass \in {1, 2}
    BY <1>1 DEF OpenDirectory
  <2>2. ASSUME NEW n \in FileName, is_supported[n]
        PROVE  NameOf(n)' /\ OnceOf(n)'
    <3>1. ASSUME NEW k \in 1..Depth, n \in files[Path(k)], FileSeen(k, n)'
          PROVE  FileSeen(k, n)
      <4>1. CASE pass = 2
        BY <4>1 DEF FileSeen
      <4>2. CASE pass = 1
        <5>1. k < d' \/ (k = d' /\ \A e \in todo' : e.name # n)
          BY <3>1, <4>2, <2>1 DEF FileSeen
        <5>2. n \in files[Path(d')] => \E e \in todo' : e.name = n
          <6>1. n \in files[Path(d')] =>
                  [dir |-> Path(d'), sub |-> None, name |-> n, target |-> n] \in todo'
            BY <1>1, <4>2, Opened
          <6> QED
            BY <6>1
        <5>3. k < d \/ k = d
          BY <5>1, <5>2, <3>1, <2>1, <1>b, Places DEF LoopInv
        <5> QED
          BY <5>3, <2>1 DEF FileSeen
      <4> QED
        BY <4>1, <4>2, <2>1
    <3>2. ASSUME NEW k \in 1..Depth, n \in Enabled(Path(k)), LinkSeen(k, n)'
          PROVE  LinkSeen(k, n)
      <4>1. pass = 2
        BY <3>2, <2>1 DEF LinkSeen
      <4>2. k < d' \/ (k = d' /\ \A e \in todo' : e.name # n \/ ~LeadsToUnit(e.target))
        BY <3>2, <4>1, <2>1 DEF LinkSeen
      <4>3. n \in Enabled(Path(d')) =>
              \E e \in todo' : e.name = n /\ LeadsToUnit(e.target)
        <5>1. ASSUME NEW l \in links[Path(d')]
              PROVE  [dir |-> Path(d'), sub |-> l.sub, name |-> l.name,
                      target |-> l.target] \in todo'
          BY <1>1, <4>1, Opened
        <5>2. ASSUME NEW l \in links[Path(d')]
              PROVE  \E e \in todo' : e.name = l.name /\ e.target = l.target
          BY <5>1
        <5> QED
          BY <5>2 DEF Enabled
      <4>4. k < d \/ k = d
        BY <4>2, <4>3, <3>2, <2>1, <1>b, Places DEF LoopInv
      <4> QED
        BY <4>1, <4>4, <2>1 DEF LinkSeen
    <3> QED
      BY <3>1, <3>2, <2>1, <2>2, <1>d, NothingRecorded
  <2> QED
    BY <2>1, <2>2, <1>a, <1>b, <1>c DEF ScanInv
<1>2. ASSUME NEW e \in todo, PassOver(e)
      PROVE  ScanInv'
  <2>1. /\ UNCHANGED <<disk, pass, d, discovered_names_, discovered_paths_>>
        /\ todo' = todo \ {e}
        /\ ~LeadsToUnit(e.target) \/ UnitName(e) \in discovered_names_
    BY <1>2 DEF PassOver, NameTaken
  <2>2. ASSUME NEW n \in FileName, is_supported[n]
        PROVE  NameOf(n)' /\ OnceOf(n)'
    <3>1. e.name = n => UnitName(e) = n
      BY <2>2 DEF UnitName
    <3>2. pass = 1 /\ e.name = n => LeadsToUnit(e.target)
      BY <2>2, <1>b, ScanAssumption DEF LoopInv, LeadsToUnit
    <3>3. ASSUME NEW k \in 1..Depth, FileSeen(k, n)'
          PROVE  FileSeen(k, n) \/ n \in discovered_names_
      <4>1. CASE pass # 1
        BY <4>1, <1>b DEF FileSeen, LoopInv
      <4>2. CASE pass = 1
        BY <4>2, <3>1, <3>2, <3>3, <2>1 DEF FileSeen
      <4> QED
        BY <4>1, <4>2
    <3>4. ASSUME NEW k \in 1..Depth, LinkSeen(k, n)'
          PROVE  LinkSeen(k, n) \/ n \in discovered_names_
      BY <3>1, <3>4, <2>1 DEF LinkSeen
    <3> QED
      BY <3>3, <3>4, <2>1, <2>2, <1>d, NothingRecorded
  <2> QED
    BY <2>1, <2>2, <1>a, <1>b, <1>c DEF ScanInv
<1>3. ASSUME NEW e \in todo, Discover(e)
      PROVE  ScanInv'
  <2>1. ASSUME NEW n \in FileName, is_supported[n]
        PROVE  NameOf(n)' /\ OnceOf(n)'
    BY <1>3, <2>1, OtherRecorded, ItselfRecorded
  <2>2. [dir |-> e.dir, sub |-> e.sub, name |-> e.name] \in Entry
    <3>1. d \in 1..Depth /\ pass \in {1, 2}
      BY <1>b, Places DEF LoopInv
    <3>2. Path(d) \in Dir
      BY <3>1, Places
    <3>3. CASE pass = 1
      BY <3>2, <3>3, <1>b DEF LoopInv, Entry
    <3>4. CASE pass = 2
      <4>1. PICK l \in links[Path(d)] : l.sub = e.sub /\ l.name = e.name
        BY <3>4, <1>b DEF LoopInv
      <4>2. l \in Link /\ e.dir = Path(d)
        BY <4>1, <3>2, <3>4, <1>b DEF LoopInv
      <4> QED
        BY <4>1, <4>2, <3>2 DEF Link, Entry
    <3> QED
      BY <3>1, <3>3, <3>4
  <2>3. discovered_paths_' \in Seq(Entry)
    BY <1>3, <2>2, <1>b DEF Discover
  <2> QED
    BY <2>1, <2>3, <1>a, <1>c DEF ScanInv
<1>4. CASE EndOfPass
  <2>1. /\ UNCHANGED <<disk, discovered_names_, discovered_paths_>>
        /\ pass \in {1, 2} /\ pass' = pass + 1 /\ d = Depth /\ d' = 0 /\ todo = {}
    BY <1>4 DEF EndOfPass, Depth
  <2>2. ASSUME NEW n \in FileName, is_supported[n]
        PROVE  NameOf(n)' /\ OnceOf(n)'
    <3>1. \A k \in 1..Depth : FileSeen(k, n)
      BY <2>1, Places DEF FileSeen
    <3>2. ASSUME NEW k \in 1..Depth, LinkSeen(k, n)'
          PROVE  LinkSeen(k, n)
      BY <3>2, <2>1, Places DEF LinkSeen
    <3>3. pass' # 1
      BY <2>1
    <3> QED
      BY <3>1, <3>2, <3>3, <2>1, <2>2, <1>d, NothingRecorded
  <2> QED
    BY <2>1, <2>2, <1>a, <1>b, <1>c DEF ScanInv
<1>5. CASE UNCHANGED vars
  <2>1. ASSUME NEW n \in FileName, is_supported[n]
        PROVE  NameOf(n)' /\ OnceOf(n)'
    <3>1. UNCHANGED <<disk, pass, d, todo, discovered_names_, discovered_paths_>>
      BY <1>5 DEF vars
    <3>2. \A k : (FileSeen(k, n)' => FileSeen(k, n)) /\ (LinkSeen(k, n)' => LinkSeen(k, n))
      BY <3>1 DEF FileSeen, LinkSeen
    <3> QED
      BY <3>1, <3>2, <2>1, <1>d, NothingRecorded
  <2> QED
    BY <2>1, <1>5, <1>a, <1>b, <1>c DEF ScanInv, vars
<1> QED
  BY <1>1, <1>2, <1>3, <1>4, <1>5 DEF Next, Finished

\* What the scan has recorded at any time is what comes first.
LEMMA ScanInvariant == Spec => []ScanInv
<1>1. Init => ScanInv
  <2> SUFFICES ASSUME Init PROVE ScanInv
    OBVIOUS
  <2>1. LoopInv
    BY Places DEF Init, LoopInv
  <2>2. ASSUME NEW n \in FileName PROVE NameOf(n) /\ OnceOf(n)
    <3>1. Found(n) = {} /\ n \notin discovered_names_ /\ pass = 1 /\ d = 0
      BY DEF Init, Found
    <3>2. \A k \in 1..Depth : ~FileSeen(k, n) /\ ~LinkSeen(k, n)
      BY <3>1, Places DEF FileSeen, LinkSeen
    <3> QED
      BY <3>1, <3>2 DEF NameOf, OnceOf
  <2>3. discovered_paths_ \in Seq(Entry)
    BY DEF Init
  <2> QED
    BY <2>1, <2>2, <2>3 DEF ScanInv
<1>2. ScanInv /\ [Next]_vars => ScanInv'
  BY ScanStep
<1> QED
  BY <1>1, <1>2, PTL DEF Spec

-------------------------------------------------------------------------------
\* A unit is read once, from its file in the directory of the highest
\* priority, whatever links of the same name there are.
THEOREM PriorityOfDirectories == Spec => []HighestPriorityWins
<1>1. ScanInv => HighestPriorityWins
  <2> SUFFICES ASSUME ScanInv, pass = 3, NEW n \in FileName, is_supported[n]
               PROVE  /\ \A j, k \in Found(n) : j = k
                      /\ (\E dir \in Dir : n \in files[dir]) =>
                           \E k \in Found(n) : discovered_paths_[k] =
                             [dir |-> kUnitSearchPaths[First(n, DirectFiles)],
                              sub |-> None, name |-> n]
    BY DEF HighestPriorityWins
  <2>1. NameOf(n) /\ OnceOf(n)
    BY DEF ScanInv
  <2>2. ASSUME NEW dir \in Dir, n \in files[dir]
        PROVE  \E k \in Found(n) : discovered_paths_[k] =
                 [dir |-> kUnitSearchPaths[First(n, DirectFiles)],
                  sub |-> None, name |-> n]
    <3>1. PICK p \in 1..Depth : dir = Path(p)
      BY Places
    <3>2. HasFile(n) /\ n \in discovered_names_
      BY <3>1, <2>1, <2>2 DEF HasFile, NameOf, FileSeen
    <3>3. PICK k \in Found(n), m \in 1..Depth :
            /\ FirstFile(m, n)
            /\ discovered_paths_[k] = [dir |-> Path(m), sub |-> None, name |-> n]
      BY <2>1, <3>2 DEF NameOf
    <3>4. First(n, DirectFiles) = m
      BY <3>3, FirstOfFiles
    <3> QED
      BY <3>3, <3>4 DEF Path
  <2> QED
    BY <2>1, <2>2 DEF OnceOf
<1> QED
  BY <1>1, ScanInvariant, PTL

\* A unit that is enabled and has no file of its own is found in the first
\* directory that enables it, unless a link of another name took its own.
THEOREM EnabledAreFound == Spec => []EnabledUnitsFound
<1>1. ScanInv => EnabledUnitsFound
  <2> SUFFICES ASSUME ScanInv, pass = 3, NEW n \in FileName, is_supported[n],
                      \A dir \in Dir : n \notin files[dir],
                      NEW dir \in Dir, n \in Enabled(dir)
               PROVE  \/ \E k \in Found(n) : discovered_paths_[k].dir =
                           kUnitSearchPaths[First(n, Enabled)]
                      \/ \E y \in Dir : \E l \in links[y] :
                           ~is_supported[l.name] /\ l.target = n
    BY DEF EnabledUnitsFound
  <2>1. NameOf(n)
    BY DEF ScanInv
  <2>2. ~HasFile(n)
    BY Places DEF HasFile
  <2>3. PICK p \in 1..Depth : dir = Path(p)
    BY Places
  <2>4. n \in discovered_names_
    BY <2>1, <2>3 DEF NameOf, LinkSeen
  <2>5. CASE \E k \in Found(n) : \E m \in 1..Depth :
               FirstLink(m, n) /\ discovered_paths_[k].dir = Path(m)
    <3>1. PICK k \in Found(n), m \in 1..Depth :
            FirstLink(m, n) /\ discovered_paths_[k].dir = Path(m)
      BY <2>5
    <3>2. First(n, Enabled) = m
      BY <3>1, FirstOfLinks
    <3> QED
      BY <3>1, <3>2 DEF Path
  <2> QED
    BY <2>1, <2>2, <2>4, <2>5 DEF NameOf
<1> QED
  BY <1>1, ScanInvariant, PTL
===============================================================================
