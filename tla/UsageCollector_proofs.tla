------------------------ MODULE UsageCollector_proofs ------------------------
(***************************************************************************)
(* Theorems about UsageCollector, for every number of sessions and every   *)
(* value of the bounds.                                                    *)
(***************************************************************************)
EXTENDS UsageCollector, TLAPS

-----------------------------------------------------------------------------
(* Type correctness *)

(* Every line took a write, which is what bounds the lines. *)
LinesAreWritten == \A s \in Sessions : files[s].lines <= files[s].modified

(* Files, sizes, times and empty entries are of the right kind. *)
LEMMA ZeroTypes ==
    /\ NewFile \in File
    /\ NewFile.lines = 0 /\ NewFile.modified = 0
    /\ NoEntry.tokens = 0 /\ NoEntry.info.modified = 0
    /\ \A file \in File : InfoOf(file) \in Info
    /\ NoInfo \in Info
    /\ NoEntry \notin Entry
    /\ EmptyIndex \in Index
    /\ IdleScan \in Scanning
<1>1. NewFile \in File
  BY CollectorAssumption DEF NewFile, File, Lines, Writes
<1>2. \A file \in File : InfoOf(file) \in Info
  BY DEF File, InfoOf, Info
<1>3. NoInfo \in Info
  BY <1>1, <1>2 DEF NoInfo
<1>4. NoEntry \notin Entry
  BY DEF NoEntry, Entry
<1>5. EmptyIndex \in Index
  BY DEF EmptyIndex, Index
<1>6. IdleScan \in Scanning
  BY <1>3 DEF IdleScan, Scanning, Roots
<1>7. NewFile.lines = 0 /\ NewFile.modified = 0
  BY DEF NewFile
<1>8. NoEntry.tokens = 0 /\ NoEntry.info.modified = 0
  BY <1>7 DEF NoEntry, NoInfo, InfoOf
<1> QED
  BY <1>1, <1>2, <1>3, <1>4, <1>5, <1>6, <1>7, <1>8

(* Initially every variable has its type, and no file has a line. *)
LEMMA InitTypeOK == Init => TypeOK /\ LinesAreWritten
<1> SUFFICES ASSUME Init PROVE TypeOK /\ LinesAreWritten
  OBVIOUS
<1>1. faults \in 0 .. MaxFaults /\ stops \in 0 .. MaxStops
  BY CollectorAssumption DEF Init
<1>2. TypeOK
  <2>1. moves \in [Sessions -> 0 .. MaxMoves]
    BY CollectorAssumption DEF Init
  <2>2. files \in [Sessions -> File]
    BY ZeroTypes DEF Init
  <2>3. /\ sources \in Index /\ usageSources \in Index /\ stored \in Index
        /\ scan \in Scanning /\ up \in BOOLEAN
    BY ZeroTypes DEF Init
  <2> QED
    BY <1>1, <2>1, <2>2, <2>3 DEF TypeOK
<1>3. LinesAreWritten
  <2> SUFFICES ASSUME NEW s \in Sessions
               PROVE  files[s].lines <= files[s].modified
    BY DEF LinesAreWritten
  <2>1. files[s] = NewFile
    BY DEF Init
  <2> QED
    BY <2>1, ZeroTypes
<1> QED
  BY <1>2, <1>3

(* The fields of a transcript, its lines bounded by its writes. *)
LEMMA FileFields ==
    ASSUME TypeOK, NEW s \in Sessions
    PROVE  /\ files[s] \in File
           /\ files[s].at \in Roots \cup {"nowhere"}
           /\ files[s].lines \in Nat /\ files[s].lines <= MaxWrites
           /\ files[s].modified \in Nat /\ files[s].modified <= MaxWrites
           /\ files[s].torn \in BOOLEAN
  BY CollectorAssumption DEF TypeOK, File, Lines, Writes

(* A write leaves the file of its kind, adds at most a line, and one write. *)
LEMMA WriteType ==
    ASSUME TypeOK, LinesAreWritten, NEW s \in Sessions, Write(s)
    PROVE  /\ files' \in [Sessions -> File]
           /\ LinesAreWritten'
           /\ \A t \in Sessions : /\ files'[t].lines >= files[t].lines
                                  /\ files'[t].modified >= files[t].modified
<1>1. PICK torn \in BOOLEAN :
         files' = [files EXCEPT ![s] =
                     [at |-> IF @.at = "nowhere" THEN "sessions" ELSE @.at,
                      torn |-> torn,
                      lines |-> IF torn THEN @.lines ELSE @.lines + 1,
                      modified |-> @.modified + 1]]
  BY DEF Write
<1> DEFINE file == [at |-> IF files[s].at = "nowhere" THEN "sessions"
                           ELSE files[s].at,
                    torn |-> torn,
                    lines |-> IF torn THEN files[s].lines
                              ELSE files[s].lines + 1,
                    modified |-> files[s].modified + 1]
<1>2. files[s].modified < MaxWrites /\ files[s].lines <= files[s].modified
  BY DEF Write, LinesAreWritten
<1>3. files[s].modified + 1 \in Writes
  BY <1>2, FileFields, CollectorAssumption DEF Writes
<1>4. (IF torn THEN files[s].lines ELSE files[s].lines + 1) \in Lines
  BY <1>2, FileFields, CollectorAssumption DEF Lines
<1>5. file \in File
  BY <1>3, <1>4, FileFields DEF File, Roots
<1>6. /\ file.lines >= files[s].lines
      /\ file.modified >= files[s].modified
      /\ file.lines <= file.modified
  BY <1>2, FileFields
<1> HIDE DEF file
<1>7. files' = [files EXCEPT ![s] = file]
  BY <1>1 DEF file
<1>8. files' \in [Sessions -> File]
  BY <1>5, <1>7 DEF TypeOK
<1>9. \A t \in Sessions : /\ t = s => files'[t] = file
                          /\ t # s => files'[t] = files[t]
  BY <1>7 DEF TypeOK
<1>10. \A t \in Sessions : /\ files'[t].lines >= files[t].lines
                           /\ files'[t].modified >= files[t].modified
  <2> TAKE t \in Sessions
  <2> QED
    BY <1>6, <1>9, FileFields
<1>11. LinesAreWritten'
  BY <1>6, <1>9 DEF LinesAreWritten
<1> QED
  BY <1>8, <1>10, <1>11

(* A move changes neither what a file holds nor its time. *)
LEMMA MoveType ==
    ASSUME TypeOK, LinesAreWritten, NEW s \in Sessions,
           NEW to \in Roots \cup {"nowhere"}, Move(s, to)
    PROVE  /\ files' \in [Sessions -> File]
           /\ moves' \in [Sessions -> 0 .. MaxMoves]
           /\ LinesAreWritten'
           /\ \A t \in Sessions : /\ files'[t].lines = files[t].lines
                                  /\ files'[t].modified = files[t].modified
<1>1. [files[s] EXCEPT !.at = to] \in File
  BY FileFields DEF File
<1>2. files' = [files EXCEPT ![s] = [files[s] EXCEPT !.at = to]]
  BY DEF Move
<1>3. files' \in [Sessions -> File]
  BY <1>1, <1>2 DEF TypeOK
<1>4. \A t \in Sessions : /\ files'[t].lines = files[t].lines
                          /\ files'[t].modified = files[t].modified
  BY <1>2 DEF TypeOK, File
<1>5. LinesAreWritten'
  BY <1>4 DEF LinesAreWritten
<1>6. moves' \in [Sessions -> 0 .. MaxMoves]
  BY CollectorAssumption DEF Move, TypeOK
<1> QED
  BY <1>3, <1>4, <1>5, <1>6

(* What parsing a file makes of its entry: the old one, or one with all    *)
(* the lines the file has by now and the time Stat saw.                    *)
LEMMA ParsedType ==
    ASSUME TypeOK, NEW s \in Sessions
    PROVE  \/ Parsed(s) = sources[<<scan.root, s>>]
           \/ /\ Parsed(s) \in Entry
              /\ Parsed(s).tokens = files[s].lines
              /\ Parsed(s).info = scan.info
<1>1. scan.info \in Info
  BY DEF TypeOK, Scanning
<1>2. files[s].lines # 0 => files[s].lines \in 1 .. MaxWrites
  BY FileFields
<1> QED
  BY <1>1, <1>2 DEF Parsed, Entry

(* Every step keeps every variable in its type. *)
LEMMA NextTypeOK ==
    TypeOK /\ LinesAreWritten /\ [Next]_vars => TypeOK' /\ LinesAreWritten'
<1> SUFFICES ASSUME TypeOK, LinesAreWritten, [Next]_vars
             PROVE  TypeOK' /\ LinesAreWritten'
  OBVIOUS
<1> USE DEF TypeOK, agents
<1>1. ASSUME NEW s \in Sessions, Write(s) PROVE TypeOK' /\ LinesAreWritten'
  BY <1>1, WriteType DEF Write
<1>2. ASSUME NEW s \in Sessions, NEW to \in Roots \cup {"nowhere"}, Move(s, to)
      PROVE  TypeOK' /\ LinesAreWritten'
  BY <1>2, MoveType DEF Move
<1>3. files' = files => LinesAreWritten'
  BY DEF LinesAreWritten
<1>4. CASE List
  <2>1. scan' \in Scanning
    BY <1>4 DEF List, Scanning, FilesIn
  <2> QED
    BY <1>3, <1>4, <2>1 DEF List
<1>5. ASSUME NEW s \in Sessions, Stat(s) PROVE TypeOK' /\ LinesAreWritten'
  <2>1. InfoOf(files[s]) \in Info
    BY ZeroTypes
  <2>2. scan' \in Scanning
    BY <1>5, <2>1 DEF Stat, Scanning
  <2> QED
    BY <1>3, <1>5, <2>2 DEF Stat
<1>6. ASSUME NEW s \in Sessions, Parse(s) PROVE TypeOK' /\ LinesAreWritten'
  <2>1. <<scan.root, s>> \in Paths
    BY DEF Scanning, Paths
  <2>2. sources' \in Index
    BY <1>6, <2>1, ParsedType DEF Parse, Index
  <2>3. scan' \in Scanning
    BY <1>6, ZeroTypes DEF Parse, Scanning
  <2> QED
    BY <1>3, <1>6, <2>2, <2>3 DEF Parse
<1>7. CASE EndOfRoot
  <2>1. scan' \in Scanning
    BY <1>7, ZeroTypes DEF EndOfRoot, Scanning, IdleScan, Roots
  <2> QED
    BY <1>3, <1>7, <2>1 DEF EndOfRoot
<1>8. CASE Fail
  <2>1. scan' \in Scanning
    BY <1>8, ZeroTypes DEF Fail, Scanning
  <2>2. faults' \in 0 .. MaxFaults
    BY <1>8, CollectorAssumption DEF Fail
  <2> QED
    BY <1>3, <1>8, <2>1, <2>2 DEF Fail
<1>9. CASE PutUsageSources
  <2>1. scan' \in Scanning
    BY <1>9 DEF PutUsageSources, Scanning
  <2>2. faults' \in 0 .. MaxFaults
    BY <1>9, CollectorAssumption DEF PutUsageSources
  <2> QED
    BY <1>3, <1>9, <2>1, <2>2 DEF PutUsageSources
<1>10. CASE Publish
  BY <1>3, <1>10, ZeroTypes DEF Publish
<1>11. CASE Stop
  <2>1. stops' \in 0 .. MaxStops
    BY <1>11, CollectorAssumption DEF Stop
  <2> QED
    BY <1>3, <1>11, <2>1, ZeroTypes DEF Stop
<1>12. CASE New
  BY <1>3, <1>12 DEF New
<1>13. CASE UNCHANGED vars
  BY <1>3, <1>13 DEF vars
<1> QED
  BY <1>1, <1>2, <1>4, <1>5, <1>6, <1>7, <1>8, <1>9, <1>10, <1>11, <1>12,
     <1>13
     DEF Next, RefreshUsage

(* Type correctness: whatever the agents do to their transcripts while     *)
(* Scan walks, every variable keeps a value of its kind.                   *)
THEOREM TypeCorrect == Spec => []TypeOK
<1>1. Init => TypeOK /\ LinesAreWritten
  BY InitTypeOK
<1>2. TypeOK /\ LinesAreWritten /\ [Next]_vars => TypeOK' /\ LinesAreWritten'
  BY NextTypeOK
<1> QED
  BY <1>1, <1>2, PTL DEF Spec

-----------------------------------------------------------------------------
(* Counting *)

(* No entry, read in whatever moment of the walk, has more tokens than the *)
(* transcript has lines, or a later time than the transcript.              *)
WithinFile(index) ==
    \A root \in Roots, s \in Sessions :
        /\ index[<<root, s>>].tokens <= files[s].lines
        /\ index[<<root, s>>].info.modified <= files[s].modified

EntriesWithinFiles ==
    WithinFile(sources) /\ WithinFile(usageSources) /\ WithinFile(stored)

(* What Stat saw is at least as new as the entry that Parse will replace.  *)
StatIsNewer ==
    scan.pc = "parse" =>
        \A s \in scan.reading :
            /\ scan.info.modified >= sources[<<scan.root, s>>].info.modified
            /\ scan.info.modified <= files[s].modified

(* Nothing is scanned while the daemon is down. *)
DownIsIdle == ~ up => scan.pc = "idle"

(* The index of a Scan counts no less for a session than what was          *)
(* published before it.                                                    *)
ScanCountsNoLess ==
    \A s \in Sessions : Counted(sources, s) >= Counted(usageSources, s)

CountInv ==
    /\ TypeOK
    /\ EntriesWithinFiles
    /\ StatIsNewer
    /\ DownIsIdle
    /\ ScanCountsNoLess

(* An entry's tokens and time, and those of none, are numbers. *)
LEMMA EntryFields ==
    ASSUME NEW index \in Index, NEW root \in Roots, NEW s \in Sessions
    PROVE  /\ index[<<root, s>>].tokens \in Nat
           /\ index[<<root, s>>].info.modified \in Nat
           /\ index[<<root, s>>] # NoEntry => index[<<root, s>>] \in Entry
<1>1. <<root, s>> \in Paths
  BY DEF Paths
<1>2. index[<<root, s>>] \in Entry \cup {NoEntry}
  BY <1>1 DEF Index
<1>3. \A e \in Entry : e.tokens \in Nat /\ e.info.modified \in Nat
  BY CollectorAssumption DEF Entry, Info, Writes
<1> QED
  BY <1>2, <1>3, ZeroTypes

(* Of the two entries of a session one counts. *)
LEMMA CountedIsAnEntry ==
    ASSUME NEW index, NEW s \in Sessions
    PROVE  \E root \in Roots : Counted(index, s) = index[<<root, s>>].tokens
  BY DEF Counted, Roots

(* The empty index is within any files. *)
LEMMA EmptyWithinFiles == TypeOK => WithinFile(EmptyIndex)
<1> SUFFICES ASSUME TypeOK, NEW root \in Roots, NEW s \in Sessions
             PROVE  /\ EmptyIndex[<<root, s>>].tokens <= files[s].lines
                    /\ EmptyIndex[<<root, s>>].info.modified
                          <= files[s].modified
  BY DEF WithinFile
<1>1. EmptyIndex[<<root, s>>] = NoEntry
  BY DEF EmptyIndex, Paths
<1> QED
  BY <1>1, ZeroTypes, FileFields

(* Initially all indexes are empty. *)
LEMMA InitCount == Init => CountInv
<1> SUFFICES ASSUME Init PROVE CountInv
  OBVIOUS
<1>1. TypeOK
  BY InitTypeOK
<1>2. EntriesWithinFiles
  <2>1. WithinFile(EmptyIndex)
    BY <1>1, EmptyWithinFiles
  <2> QED
    BY <2>1 DEF Init, EntriesWithinFiles
<1>3. StatIsNewer
  BY DEF Init, StatIsNewer, IdleScan
<1>4. DownIsIdle
  BY DEF Init, DownIsIdle
<1>5. ScanCountsNoLess
  <2> SUFFICES ASSUME NEW s \in Sessions
               PROVE  Counted(EmptyIndex, s) >= Counted(EmptyIndex, s)
    BY DEF Init, ScanCountsNoLess
  <2>1. Counted(EmptyIndex, s) \in Nat
    BY ZeroTypes, EntryFields, CountedIsAnEntry
  <2> QED
    BY <2>1
<1> QED
  BY <1>1, <1>2, <1>3, <1>4, <1>5 DEF CountInv

(* Parsing replaces an entry by one that is newer and counts all there is, *)
(* which leaves no session counting for less: the entry that counted still *)
(* does, or the new one does instead.                                      *)
LEMMA ParseStep ==
    ASSUME CountInv, NEW s \in Sessions, Parse(s)
    PROVE  CountInv'
<1>1. TypeOK /\ EntriesWithinFiles /\ StatIsNewer /\ DownIsIdle
      /\ ScanCountsNoLess
  BY DEF CountInv
<1>2. scan.root \in Roots /\ <<scan.root, s>> \in Paths
  BY <1>1 DEF TypeOK, Scanning, Paths
<1>3. /\ UNCHANGED <<files, usageSources, stored>>
      /\ sources' = [sources EXCEPT ![<<scan.root, s>>] = Parsed(s)]
      /\ scan'.pc = "stat"
  BY <1>1 DEF Parse, agents, TypeOK, Scanning
<1>4. \/ Parsed(s) = sources[<<scan.root, s>>]
      \/ /\ Parsed(s) \in Entry
         /\ Parsed(s).tokens = files[s].lines
         /\ Parsed(s).info = scan.info
  BY <1>1, ParsedType
<1>5. /\ scan.info.modified >= sources[<<scan.root, s>>].info.modified
      /\ scan.info.modified <= files[s].modified
      /\ scan.info.modified \in Nat
  BY <1>1 DEF Parse, StatIsNewer, TypeOK, Scanning, Info, Writes
<1>6. sources \in Index /\ usageSources \in Index /\ sources' \in Index
  <2>1. sources' \in Index
    BY <1>1, <1>2, <1>3, <1>4 DEF TypeOK, Index
  <2> QED
    BY <1>1, <2>1 DEF TypeOK
<1>7. \A root \in Roots, t \in Sessions :
         <<root, t>> # <<scan.root, s>> =>
             sources'[<<root, t>>] = sources[<<root, t>>]
  BY <1>3, <1>6 DEF Index, Paths
<1>8. sources'[<<scan.root, s>>] = Parsed(s)
  BY <1>2, <1>3, <1>6 DEF Index
<1>9. TypeOK'
  <2>1. scan' \in Scanning
    BY <1>1, ZeroTypes DEF Parse, TypeOK, Scanning
  <2> QED
    BY <1>1, <1>6, <2>1 DEF Parse, TypeOK, agents
<1>10. EntriesWithinFiles'
  <2>1. WithinFile(sources)'
    <3> SUFFICES ASSUME NEW root \in Roots, NEW t \in Sessions
                 PROVE  /\ sources'[<<root, t>>].tokens <= files[t].lines
                        /\ sources'[<<root, t>>].info.modified
                              <= files[t].modified
      BY <1>3 DEF WithinFile
    <3>1. /\ sources[<<root, t>>].tokens <= files[t].lines
          /\ sources[<<root, t>>].info.modified <= files[t].modified
      BY <1>1 DEF EntriesWithinFiles, WithinFile
    <3>2. CASE <<root, t>> # <<scan.root, s>>
      BY <1>7, <3>1, <3>2
    <3>3. CASE root = scan.root /\ t = s
      BY <1>1, <1>4, <1>5, <1>8, <3>1, <3>3, FileFields
    <3> QED
      BY <3>2, <3>3
  <2> QED
    BY <1>1, <1>3, <2>1 DEF EntriesWithinFiles, WithinFile
<1>11. StatIsNewer' /\ DownIsIdle'
  BY <1>1, <1>3 DEF StatIsNewer, DownIsIdle, Parse
<1>12. ScanCountsNoLess'
  <2> SUFFICES ASSUME NEW t \in Sessions
               PROVE  Counted(sources', t) >= Counted(usageSources, t)
    BY <1>3 DEF ScanCountsNoLess
  <2> DEFINE live == sources[<<"sessions", t>>]
             archived == sources[<<"archived_sessions", t>>]
             live2 == sources'[<<"sessions", t>>]
             archived2 == sources'[<<"archived_sessions", t>>]
  <2>1. /\ Counted(sources, t) >= Counted(usageSources, t)
        /\ Counted(sources, t) \in Nat /\ Counted(usageSources, t) \in Nat
        /\ Counted(usageSources, t) <= files[t].lines
    BY <1>1, <1>6, EntryFields, CountedIsAnEntry
       DEF ScanCountsNoLess, EntriesWithinFiles, WithinFile
  <2>2. "sessions" \in Roots /\ "archived_sessions" \in Roots
    BY DEF Roots
  <2>3. CASE t # s \/ Parsed(s) = sources[<<scan.root, s>>]
    <3>1. live2 = live /\ archived2 = archived
      BY <1>7, <1>8, <2>2, <2>3
    <3> QED
      BY <2>1, <3>1 DEF Counted
  <2>4. CASE t = s /\ Parsed(s) # sources[<<scan.root, s>>]
    <3>1. /\ Parsed(s).tokens = files[s].lines
          /\ Parsed(s).info.modified = scan.info.modified
          /\ Parsed(s) # NoEntry
      BY <1>4, <2>4, ZeroTypes
    <3>2. /\ live.info.modified \in Nat /\ archived.info.modified \in Nat
          /\ live.tokens \in Nat /\ archived.tokens \in Nat
          /\ files[s].lines \in Nat
      BY <1>1, <1>6, <2>2, EntryFields, FileFields
    <3>3. CASE scan.root = "sessions"
      <4>1. live2 = Parsed(s) /\ archived2 = archived
        BY <1>7, <1>8, <2>2, <2>4, <3>3
      <4>2. live2.info.modified >= live.info.modified
            /\ live2.info.modified \in Nat
        BY <1>5, <2>4, <3>1, <3>3, <4>1
      <4>3. \/ Counted(sources', t) = live2.tokens
            \/ Counted(sources', t) = Counted(sources, t)
        BY <3>2, <4>1, <4>2 DEF Counted
      <4> QED
        BY <2>1, <2>4, <3>1, <4>1, <4>3
    <3>4. CASE scan.root = "archived_sessions"
      <4>1. archived2 = Parsed(s) /\ live2 = live
        BY <1>7, <1>8, <2>2, <2>4, <3>4
      <4>2. archived2.info.modified >= archived.info.modified
            /\ archived2.info.modified \in Nat
        BY <1>5, <2>4, <3>1, <3>4, <4>1
      <4>3. \/ Counted(sources', t) = archived2.tokens
            \/ Counted(sources', t) = Counted(sources, t)
        BY <3>1, <3>2, <4>1, <4>2 DEF Counted
      <4> QED
        BY <2>1, <2>4, <3>1, <4>1, <4>3
    <3> QED
      BY <1>2, <3>3, <3>4 DEF Roots
  <2> QED
    BY <2>3, <2>4
<1> QED
  BY <1>9, <1>10, <1>11, <1>12 DEF CountInv

(* A step of an agent, which only adds to its files. *)
LEMMA AgentStep ==
    ASSUME CountInv,
           UNCHANGED <<up, sources, scan, usageSources, stored>>,
           \A t \in Sessions : /\ files'[t].lines >= files[t].lines
                               /\ files'[t].modified >= files[t].modified,
           TypeOK'
    PROVE  CountInv'
<1>1. TypeOK /\ EntriesWithinFiles /\ StatIsNewer /\ DownIsIdle
      /\ ScanCountsNoLess
  BY DEF CountInv
<1>2. \A t \in Sessions : /\ files[t].lines \in Nat /\ files'[t].lines \in Nat
                          /\ files[t].modified \in Nat
                          /\ files'[t].modified \in Nat
  BY <1>1, CollectorAssumption DEF TypeOK, File, Lines, Writes
<1>3. ASSUME NEW index \in Index, WithinFile(index) PROVE WithinFile(index)'
  <2> SUFFICES ASSUME NEW root \in Roots, NEW t \in Sessions
               PROVE  /\ index[<<root, t>>].tokens <= files'[t].lines
                      /\ index[<<root, t>>].info.modified <= files'[t].modified
    BY DEF WithinFile
  <2>1. /\ index[<<root, t>>].tokens <= files[t].lines
        /\ index[<<root, t>>].info.modified <= files[t].modified
    BY <1>3 DEF WithinFile
  <2> QED
    BY <1>2, <2>1, EntryFields
<1>4. EntriesWithinFiles'
  BY <1>1, <1>3 DEF EntriesWithinFiles, TypeOK, WithinFile
<1>5. StatIsNewer'
  <2>1. scan.info.modified \in Nat /\ scan.reading \subseteq Sessions
    BY <1>1, CollectorAssumption DEF TypeOK, Scanning, Info, Writes
  <2> QED
    BY <1>1, <1>2, <2>1 DEF StatIsNewer
<1>6. ScanCountsNoLess' /\ DownIsIdle'
  BY <1>1 DEF ScanCountsNoLess, Counted, DownIsIdle
<1> QED
  BY <1>4, <1>5, <1>6 DEF CountInv

(* A step that leaves the files and the indexes alone, and parses nothing  *)
(* that Stat did not look at.                                              *)
LEMMA WalkStep ==
    ASSUME CountInv, UNCHANGED <<files, sources, usageSources, stored>>,
           StatIsNewer', DownIsIdle', TypeOK'
    PROVE  CountInv'
  BY DEF CountInv, EntriesWithinFiles, WithinFile, ScanCountsNoLess, Counted

(* Every step keeps what counting relies on. *)
LEMMA NextCount == CountInv /\ LinesAreWritten /\ [Next]_vars => CountInv'
<1> SUFFICES ASSUME CountInv, LinesAreWritten, [Next]_vars PROVE CountInv'
  OBVIOUS
<1>1. TypeOK /\ EntriesWithinFiles /\ StatIsNewer /\ DownIsIdle
      /\ ScanCountsNoLess
  BY DEF CountInv
<1>2. TypeOK'
  BY <1>1, NextTypeOK
<1>3. ASSUME NEW s \in Sessions, Write(s) PROVE CountInv'
  BY <1>1, <1>2, <1>3, WriteType, AgentStep DEF Write
<1>4. ASSUME NEW s \in Sessions, NEW to \in Roots \cup {"nowhere"}, Move(s, to)
      PROVE  CountInv'
  <2>1. \A t \in Sessions : /\ files'[t].lines >= files[t].lines
                            /\ files'[t].modified >= files[t].modified
    BY <1>1, <1>4, MoveType, FileFields
  <2> QED
    BY <1>2, <1>4, <2>1, AgentStep DEF Move
<1>5. ASSUME NEW s \in Sessions, Stat(s) PROVE CountInv'
  <2>1. StatIsNewer'
    <3> SUFFICES ASSUME scan'.pc = "parse", NEW t \in scan'.reading
                 PROVE  /\ scan'.info.modified
                             >= sources'[<<scan'.root, t>>].info.modified
                        /\ scan'.info.modified <= files'[t].modified
      BY DEF StatIsNewer
    <3>1. /\ scan' = [scan EXCEPT !.pc = "parse", !.list = @ \ {s},
                                  !.reading = {s}, !.info = InfoOf(files[s])]
          /\ UNCHANGED <<files, sources>>
      <4>1. [scan EXCEPT !.list = @ \ {s}].pc # "parse"
        BY <1>1, <1>5 DEF Stat, TypeOK, Scanning
      <4> QED
        BY <1>5, <4>1 DEF Stat, agents
    <3>2. /\ t = s /\ scan'.root = scan.root /\ scan.root \in Roots
          /\ scan'.info = InfoOf(files[s])
      BY <1>1, <3>1 DEF TypeOK, Scanning
    <3>3. scan'.info.modified = files[s].modified
      BY <3>2 DEF InfoOf
    <3>4. /\ sources[<<scan.root, s>>].info.modified <= files[s].modified
          /\ sources[<<scan.root, s>>].info.modified \in Nat
      BY <1>1, <3>2, EntryFields DEF EntriesWithinFiles, WithinFile, TypeOK
    <3> QED
      BY <1>1, <3>1, <3>2, <3>3, <3>4, FileFields
  <2>2. DownIsIdle'
    BY <1>1, <1>5 DEF Stat, DownIsIdle
  <2> QED
    BY <1>2, <1>5, <2>1, <2>2, WalkStep DEF Stat, agents
<1>6. CASE List \/ EndOfRoot \/ Fail
  <2>1. StatIsNewer'
    <3>1. CASE List
      BY <1>1, <3>1 DEF List, TypeOK, Scanning, StatIsNewer
    <3>2. CASE EndOfRoot
      BY <3>2 DEF EndOfRoot, IdleScan, StatIsNewer
    <3>3. CASE Fail
      <4>1. scan'.pc \in {"stat", "idle"}
        BY <1>1, <3>3 DEF Fail, IdleScan, TypeOK, Scanning
      <4> QED
        BY <4>1 DEF StatIsNewer
    <3> QED
      BY <1>6, <3>1, <3>2, <3>3
  <2>2. DownIsIdle'
    BY <1>1, <1>6 DEF List, EndOfRoot, Fail, DownIsIdle
  <2>3. UNCHANGED <<files, sources, usageSources, stored>>
    BY <1>6 DEF List, EndOfRoot, Fail, agents
  <2> QED
    BY <1>2, <2>1, <2>2, <2>3, WalkStep
<1>7. ASSUME NEW s \in Sessions, Parse(s) PROVE CountInv'
  BY <1>7, ParseStep
<1>8. CASE PutUsageSources
  <2>1. /\ scan'.pc = "publish"
        /\ UNCHANGED <<files, sources, usageSources>>
        /\ stored' \in {stored, sources}
    BY <1>1, <1>8 DEF PutUsageSources, TypeOK, Scanning, agents
  <2>2. EntriesWithinFiles' /\ StatIsNewer' /\ ScanCountsNoLess'
    BY <1>1, <2>1 DEF EntriesWithinFiles, WithinFile, StatIsNewer,
                      ScanCountsNoLess, Counted
  <2>3. DownIsIdle'
    BY <1>1, <1>8 DEF PutUsageSources, DownIsIdle
  <2> QED
    BY <1>2, <2>2, <2>3 DEF CountInv
<1>9. CASE Publish \/ Stop \/ New
  <2>1. /\ files' = files
        /\ scan'.pc = "idle"
        /\ sources' = usageSources'
        /\ \/ sources' = EmptyIndex /\ stored' = stored
           \/ sources' \in {sources, stored} /\ stored' = stored
    BY <1>1, <1>9 DEF Publish, Stop, New, DownIsIdle, IdleScan, agents
  <2>2. WithinFile(EmptyIndex)
    BY <1>1, EmptyWithinFiles
  <2>3. EntriesWithinFiles'
    BY <1>1, <2>1, <2>2 DEF EntriesWithinFiles, WithinFile
  <2>4. ScanCountsNoLess'
    <3> SUFFICES ASSUME NEW s \in Sessions
                 PROVE  Counted(sources', s) >= Counted(sources', s)
      BY <2>1 DEF ScanCountsNoLess, Counted
    <3>1. sources' \in Index
      BY <1>2 DEF TypeOK
    <3>2. PICK root \in Roots : Counted(sources', s) = sources'[<<root, s>>].tokens
      BY CountedIsAnEntry
    <3> QED
      BY <3>1, <3>2, EntryFields
  <2>5. StatIsNewer' /\ DownIsIdle'
    BY <2>1 DEF StatIsNewer, DownIsIdle
  <2> QED
    BY <1>2, <2>3, <2>4, <2>5 DEF CountInv
<1>10. CASE UNCHANGED vars
  BY <1>1, <1>2, <1>10, WalkStep DEF vars, StatIsNewer, DownIsIdle
<1> QED
  BY <1>3, <1>4, <1>5, <1>6, <1>7, <1>8, <1>9, <1>10 DEF Next, RefreshUsage

(* It is an invariant. *)
LEMMA CountIsKept == Spec => [](CountInv /\ LinesAreWritten)
<1>1. Init => CountInv /\ LinesAreWritten
  BY InitCount, InitTypeOK
<1>2. CountInv /\ LinesAreWritten /\ [Next]_vars
         => CountInv' /\ LinesAreWritten'
  BY NextCount, NextTypeOK DEF CountInv
<1> QED
  BY <1>1, <1>2, PTL DEF Spec

(* A session never counts for more than its agent wrote, in what the       *)
(* dashboard counts and in what a restart will start from, whenever Scan   *)
(* meets the transcript in the middle of a write or a move.                *)
THEOREM NothingCountsTwice == Spec => []NothingIsCountedTwice
<1>1. CountInv => NothingIsCountedTwice
  <2> SUFFICES ASSUME CountInv, NEW s \in Sessions,
                      NEW index \in {usageSources, stored}
               PROVE  Counted(index, s) <= files[s].lines
    BY DEF NothingIsCountedTwice
  <2>1. WithinFile(index)
    BY DEF CountInv, EntriesWithinFiles
  <2> QED
    BY <2>1, CountedIsAnEntry DEF WithinFile
<1> QED
  BY <1>1, CountIsKept, PTL

(* While the daemon runs, what is shown for a session never goes down: a   *)
(* Scan replaces entries by newer ones only, and never moves the choice    *)
(* between the two directories to an entry that counts for less.           *)
THEOREM CountOnlyGrows == Spec => CountNeverDecreases
<1>1. ASSUME CountInv, CountInv', Next, up, up', NEW s \in Sessions
      PROVE  Counted(usageSources', s) >= Counted(usageSources, s)
  <2>1. Counted(sources, s) >= Counted(usageSources, s)
    BY <1>1 DEF CountInv, ScanCountsNoLess
  <2>2. usageSources \in Index
    BY <1>1 DEF CountInv, TypeOK
  <2>3. PICK root \in Roots :
           Counted(usageSources, s) = usageSources[<<root, s>>].tokens
    BY CountedIsAnEntry
  <2>4. Counted(usageSources, s) >= Counted(usageSources, s)
    BY <2>2, <2>3, EntryFields
  <2>5. usageSources' \in {usageSources, sources}
    BY <1>1 DEF Next, RefreshUsage, Write, Move, List, Stat, Parse, EndOfRoot,
                Fail, PutUsageSources, Publish, Stop, New
  <2> QED
    BY <2>1, <2>4, <2>5
<1>2. CountInv /\ CountInv' /\ [Next]_vars =>
         [up /\ up' => \A s \in Sessions :
             Counted(usageSources', s) >= Counted(usageSources, s)]_vars
  BY <1>1
<1> QED
  BY <1>2, CountIsKept, PTL DEF Spec, CountNeverDecreases
=============================================================================
