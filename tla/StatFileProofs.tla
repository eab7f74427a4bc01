---------------------------- MODULE StatFileProofs ----------------------------
(***************************************************************************)
(* For any number of threads that save through one StatFile object, and    *)
(* any number of saves: once they are over the stat file holds a complete  *)
(* session, one of those the threads saved last.                           *)
(***************************************************************************)
EXTENDS StatFile, FiniteSetTheorems, TLAPS

FileTypeOK ==
    /\ made \in File /\ stat_file \in 1..made
    /\ linked \in [Name -> {None} \union 1..made]
    /\ DOMAIN data = File
    /\ temp_file \in {None} \union Name

SaverTypeOK ==
    /\ pc \in [Saver -> {"idle", "copy", "open", "write", "put"}]
    /\ DOMAIN path = Saver /\ DOMAIN fd = Saver /\ DOMAIN new = Saver
    /\ \A s \in Saver :
          /\ pc[s] # "idle" => temp_file \in Name
          /\ pc[s] = "open" => path[s] \in Name
          /\ pc[s] = "write" => fd[s] \in 1..made

(* Room for the files that the saves in progress may still make.           *)
In(state) == {s \in Saver : pc[s] = state}
Enough ==
    made + Cardinality(In("copy")) + Cardinality(In("copy") \union In("open"))
        <= MaxFile + 2 * Cardinality(Saver)

(* No file has two names, the stat file's among them. *)
NamesApart ==
    /\ \A m, n \in Name : linked[m] = linked[n] /\ linked[n] # None => m = n
    /\ \A n \in Name : linked[n] # stat_file

(* The file that is or will be the stat file when all saves in progress    *)
(* are over, if none of them comes to open the name in the attribute.      *)
Current == IF Bound(temp_file) # None THEN Bound(temp_file) ELSE stat_file
OpensIt(s) == pc[s] = "copy" \/ (pc[s] = "open" /\ path[s] = temp_file)
Fills(s, f) == \/ pc[s] = "write" /\ fd[s] = f
               \/ pc[s] \in {"idle", "put"} /\ data[f] = new[s]
CurrentFilled == failed \/ (\E s \in Saver : OpensIt(s)) \/ \E s \in Saver : Fills(s, Current)

(* The last save to end leaves no temporary file behind under that name.   *)
NothingLeft == failed \/ ~AllIdle \/ Bound(temp_file) = None

StatInv == FileTypeOK /\ SaverTypeOK /\ Enough /\ NamesApart /\ CurrentFilled /\ NothingLeft

LEMMA Counted == Cardinality(Saver) \in Nat
  BY FS_CardinalityType, StatFileAssumption

LEMMA FileNumbers == /\ File \subseteq Nat /\ Name = File /\ 1 \in File
                     /\ \A f \in Nat : f >= 1 /\ f <= MaxFile + 2 * Cardinality(Saver) => f \in File
                     /\ None \notin File
  BY Counted, StatFileAssumption DEF File, Name

LEMMA MadeAreFiles == FileTypeOK => 1..made \subseteq File
  BY Counted, StatFileAssumption DEF FileTypeOK, File

LEMMA InitSaves == Init => StatInv
<1> SUFFICES ASSUME Init PROVE StatInv
  OBVIOUS
<1> USE Counted, FileNumbers, StatFileAssumption
<1>1. FileTypeOK
  BY DEF Init, FileTypeOK
<1>2. SaverTypeOK
  BY DEF Init, SaverTypeOK
<1>3. Enough
  <2>1. In("copy") = {} /\ In("open") = {} /\ In("copy") \union In("open") = {}
    BY DEF Init, In
  <2> QED
    <3>1. Cardinality(In("copy")) = 0 /\ Cardinality(In("copy") \union In("open")) = 0
      BY <2>1, FS_EmptySet
    <3>2. made = 1
      BY DEF Init
    <3> QED
      BY <3>1, <3>2 DEF Enough
<1>4. NamesApart
  BY DEF Init, NamesApart
<1>5. CurrentFilled
  <2>1. Current = 1
    BY DEF Init, Current, Bound
  <2>2. PICK s \in Saver : TRUE
    OBVIOUS
  <2>3. Fills(s, Current)
    BY <2>1 DEF Init, Fills
  <2> QED
    BY <2>3 DEF CurrentFilled
<1>6. NothingLeft
  BY DEF Init, NothingLeft, Bound
<1> QED
  BY <1>1, <1>2, <1>3, <1>4, <1>5, <1>6 DEF StatInv

------------------------------------------------------------------------------
(* Room for files: one saver moves from one place to the next.             *)
LEMMA SubsetCounts ==
  ASSUME NEW S \in SUBSET Saver
  PROVE  Cardinality(S) \in Nat /\ Cardinality(S) <= Cardinality(Saver)
  BY FS_Subset, FS_CardinalityType, StatFileAssumption

LEMMA OneLess ==
  ASSUME NEW S \in SUBSET Saver, NEW s \in S
  PROVE  Cardinality(S \ {s}) = Cardinality(S) - 1
<1>1. IsFiniteSet(S)
  BY FS_Subset, StatFileAssumption
<1> QED
  BY <1>1, FS_RemoveElement

LEMMA RoomIsLeft ==
  ASSUME Enough, FileTypeOK, NEW s \in Saver, pc[s] \in {"copy", "open"}
  PROVE  made + 1 \in File
<1>1. s \in In("copy") \union In("open") /\ In("copy") \union In("open") \in SUBSET Saver
      /\ In("copy") \in SUBSET Saver
  BY DEF In
<1>2. Cardinality(In("copy") \union In("open")) >= 1
  <2>1. Cardinality((In("copy") \union In("open")) \ {s}) \in Nat
    BY <1>1, SubsetCounts
  <2> QED
    BY <1>1, <2>1, OneLess, SubsetCounts
<1>3. Cardinality(In("copy")) \in Nat
  BY <1>1, SubsetCounts
<1>4. Cardinality(In("copy") \union In("open")) \in Nat /\ made \in Nat /\ made >= 1
  BY <1>1, SubsetCounts, FileNumbers DEF FileTypeOK, File
<1> QED
  BY <1>2, <1>3, <1>4, Counted, FileNumbers, StatFileAssumption DEF Enough

LEMMA EnoughStays ==
  ASSUME StatInv, NEW s \in Saver,
         MakeTemp(s) \/ CopyToTemp(s) \/ Open(s) \/ Write(s) \/ SaveFails(s) \/ PutFile(s)
  PROVE  Enough'
<1> DEFINE C == In("copy")  O == In("open")  B == C \union O
<1>0. /\ C \in SUBSET Saver /\ O \in SUBSET Saver /\ B \in SUBSET Saver
      /\ made \in Nat /\ Cardinality(C) \in Nat /\ Cardinality(B) \in Nat
      /\ made + Cardinality(C) + Cardinality(B) <= MaxFile + 2 * Cardinality(Saver)
      /\ C' \in SUBSET Saver /\ B' \in SUBSET Saver
  BY SubsetCounts, FileNumbers DEF In, StatInv, FileTypeOK, Enough
<1>1. Cardinality(C') \in Nat /\ Cardinality(B') \in Nat
      /\ Cardinality(C') <= Cardinality(Saver) /\ Cardinality(B') <= Cardinality(Saver)
  BY <1>0, SubsetCounts
<1>p. pc \in [Saver -> {"idle", "copy", "open", "write", "put"}]
  BY DEF StatInv, SaverTypeOK
<1>2. CASE MakeTemp(s)
  <2>1. made' <= MaxFile /\ made' \in Nat
    BY <1>0, <1>2, StatFileAssumption DEF MakeTemp
  <2> QED
    BY <1>1, <2>1, Counted, StatFileAssumption DEF Enough
<1>3. CASE CopyToTemp(s)
  <2>1. made' \in {made, made + 1}
    BY <1>3 DEF CopyToTemp, Opens
  <2>2. s \in C /\ C' = C \ {s} /\ B' = B
    BY <1>3, <1>p DEF CopyToTemp, At, In
  <2> HIDE DEF C, O, B
  <2>3. Cardinality(C') = Cardinality(C) - 1
    BY <1>0, <2>2, OneLess
  <2> QED
    <3>1. Cardinality(B') = Cardinality(B)
      BY <2>2
    <3>2. made + (Cardinality(C) - 1) + Cardinality(B) + 1 <= MaxFile + 2 * Cardinality(Saver)
      BY <1>0, Counted, StatFileAssumption
    <3>3. made' + Cardinality(C') + Cardinality(B') <= MaxFile + 2 * Cardinality(Saver)
      BY <1>0, <2>1, <2>3, <3>1, <3>2, Counted, StatFileAssumption
    <3> QED
      BY <3>3 DEF Enough, C, O, B
<1>4. CASE Open(s)
  <2>1. made' \in {made, made + 1}
    BY <1>4 DEF Open, Opens
  <2>2. s \in B /\ C' = C /\ B' = B \ {s}
    BY <1>4, <1>p DEF Open, At, In
  <2> HIDE DEF C, O, B
  <2>3. Cardinality(B') = Cardinality(B) - 1
    BY <1>0, <2>2, OneLess
  <2> QED
    <3>1. Cardinality(C') = Cardinality(C)
      BY <2>2
    <3>2. made + Cardinality(C) + (Cardinality(B) - 1) + 1 <= MaxFile + 2 * Cardinality(Saver)
      BY <1>0, Counted, StatFileAssumption
    <3>3. made' + Cardinality(C') + Cardinality(B') <= MaxFile + 2 * Cardinality(Saver)
      BY <1>0, <2>1, <2>3, <3>1, <3>2, Counted, StatFileAssumption
    <3> QED
      BY <3>3 DEF Enough, C, O, B
<1>5. CASE Write(s) \/ PutFile(s)
  <2>1. made' = made /\ C' = C /\ B' = B
    BY <1>5, <1>p DEF Write, PutFile, At, In
  <2> QED
    BY <1>0, <2>1 DEF Enough
<1>6. CASE SaveFails(s)
  <2>1. made' = made
    BY <1>6 DEF SaveFails, object
  <2>2. s \in B /\ C' = C /\ B' = B \ {s}
    BY <1>6, <1>p DEF SaveFails, At, In
  <2> HIDE DEF C, O, B
  <2>3. Cardinality(B') = Cardinality(B) - 1
    BY <1>0, <2>2, OneLess
  <2> QED
    <3>1. Cardinality(C') = Cardinality(C)
      BY <2>2
    <3>2. made + Cardinality(C) + (Cardinality(B) - 1) <= MaxFile + 2 * Cardinality(Saver)
      BY <1>0, Counted, StatFileAssumption
    <3>3. made' + Cardinality(C') + Cardinality(B') <= MaxFile + 2 * Cardinality(Saver)
      BY <2>1, <2>3, <3>1, <3>2
    <3> QED
      BY <3>3 DEF Enough, C, O, B
<1> QED
  BY <1>2, <1>3, <1>4, <1>5, <1>6

------------------------------------------------------------------------------
(* Opening a name keeps the names of files apart, and changes what is in   *)
(* the file that gets the name, and in no other that has been made.        *)
LEMMA OpensEffect ==
  ASSUME FileTypeOK, NamesApart, made + 1 \in File, NEW n \in Name, NEW v, Opens(n, v),
         UNCHANGED <<stat_file, temp_file>>
  PROVE  /\ FileTypeOK' /\ NamesApart'
         /\ linked'[n] \in 1..made' /\ made' >= made /\ made' \in Nat
         /\ \A m \in Name \ {n} : linked'[m] = linked[m]
         /\ \A f \in 1..made : f # linked'[n] => data'[f] = data[f]
<1> USE FileNumbers
<1>0. made \in Nat /\ made >= 1
  BY DEF FileTypeOK, File
<1>1. CASE linked[n] # None
  <2>1. data' = [data EXCEPT ![linked[n]] = v] /\ linked' = linked /\ made' = made
    BY <1>1 DEF Opens
  <2>2. FileTypeOK' /\ linked'[n] \in 1..made'
    BY <1>1, <2>1 DEF FileTypeOK
  <2>3. NamesApart'
    BY <2>1 DEF NamesApart
  <2>4. \A f \in 1..made : f # linked'[n] => data'[f] = data[f]
    BY <2>1, MadeAreFiles DEF FileTypeOK
  <2> QED
    BY <1>0, <2>1, <2>2, <2>3, <2>4
<1>2. CASE linked[n] = None
  <2>1. /\ made' = made + 1 /\ linked' = [linked EXCEPT ![n] = made'] /\ data' = [data EXCEPT ![made'] = v]
    BY <1>2 DEF Opens
  <2>2. linked'[n] = made' /\ \A m \in Name \ {n} : linked'[m] = linked[m]
    BY <2>1 DEF FileTypeOK
  <2>3. FileTypeOK'
    BY <1>0, <2>1 DEF FileTypeOK
  <2>4. \A m \in Name : linked[m] # made' /\ stat_file # made'
    BY <1>0, <2>1 DEF FileTypeOK
  <2>5. NamesApart'
    BY <2>2, <2>4 DEF NamesApart
  <2> QED
    BY <1>0, <2>1, <2>2, <2>3, <2>5
<1> QED
  BY <1>1, <1>2

(* Names keep apart when one is moved onto the stat file. *)
LEMMA MoveEffect ==
  ASSUME FileTypeOK, NamesApart, temp_file \in Name, Move(temp_file), UNCHANGED <<data, made, temp_file>>
  PROVE  /\ FileTypeOK' /\ NamesApart'
         /\ Current' = Current /\ Bound(temp_file)' = None
<1> USE FileNumbers
<1>0. made \in Nat /\ made >= 1 /\ temp_file # None
  BY DEF FileTypeOK, File
<1>1. /\ linked' = [linked EXCEPT ![temp_file] = None]
      /\ stat_file' = IF linked[temp_file] = None THEN stat_file ELSE linked[temp_file]
  BY <1>0 DEF Move, Bound
<1>2. FileTypeOK'
  BY <1>1 DEF FileTypeOK
<1>3. linked'[temp_file] = None /\ \A m \in Name \ {temp_file} : linked'[m] = linked[m]
  BY <1>1 DEF FileTypeOK
<1>4. NamesApart'
  <2>1. \A m, n \in Name : linked'[m] = linked'[n] /\ linked'[n] # None => m = n
    BY <1>3 DEF NamesApart
  <2>2. stat_file \in 1..made /\ None \notin 1..made
    BY <1>0, StatFileAssumption DEF FileTypeOK
  <2>3. \A n \in Name : linked'[n] # stat_file'
    BY <1>1, <1>3, <2>2 DEF NamesApart
  <2> QED
    BY <2>1, <2>3 DEF NamesApart
<1>5. Current' = Current /\ Bound(temp_file)' = None
  BY <1>0, <1>1, <1>3 DEF Current, Bound
<1> QED
  BY <1>2, <1>4, <1>5

------------------------------------------------------------------------------
(* The steps of a save *)

LEMMA MakeTempKeeps ==
  ASSUME StatInv, NEW s \in Saver, MakeTemp(s)
  PROVE  StatInv'
<1> USE FileNumbers DEF StatInv
<1>0. /\ made' = made + 1 /\ linked' = [linked EXCEPT ![made'] = made'] /\ temp_file' = made'
      /\ UNCHANGED <<stat_file, data, path, fd, new, time, failed>>
      /\ pc' = [pc EXCEPT ![s] = "copy"] /\ made \in Nat /\ made >= 1
  BY DEF MakeTemp, At, FileTypeOK, File
<1>1. made' \in File
  BY <1>0, Counted, StatFileAssumption DEF MakeTemp
<1>2. FileTypeOK'
  BY <1>0, <1>1 DEF FileTypeOK
<1>3. SaverTypeOK'
  <2>1. \A t \in Saver : t # s => pc'[t] = pc[t]
    BY <1>0 DEF SaverTypeOK
  <2> QED
    BY <1>0, <1>1, <2>1 DEF SaverTypeOK
<1>4. NamesApart'
  <2>1. linked'[made'] = made' /\ \A m \in Name \ {made'} : linked'[m] = linked[m]
    BY <1>0, <1>1 DEF FileTypeOK
  <2>2. \A m \in Name : linked[m] # made' /\ stat_file # made'
    <3>1. made' \in Nat /\ made' # None /\ made' \notin 1..made
      BY <1>0, StatFileAssumption
    <3> QED
      BY <3>1 DEF FileTypeOK
  <2> QED
    BY <1>0, <2>1, <2>2 DEF NamesApart
<1>5. pc'[s] = "copy"
  BY <1>0 DEF SaverTypeOK
<1>6. CurrentFilled' /\ NothingLeft'
  BY <1>5 DEF CurrentFilled, OpensIt, NothingLeft, AllIdle
<1> QED
  BY <1>2, <1>3, <1>4, <1>6, EnoughStays

(* A step of s that is not its end leaves somebody busy. *)
LEMMA BusyIsFine ==
  ASSUME NEW s \in Saver, pc'[s] # "idle"
  PROVE  NothingLeft'
  BY DEF NothingLeft, AllIdle

LEMMA CopyToTempKeeps ==
  ASSUME StatInv, NEW s \in Saver, CopyToTemp(s)
  PROVE  StatInv'
<1> USE FileNumbers DEF StatInv
<1>0. /\ pc[s] = "copy" /\ pc' = [pc EXCEPT ![s] = "open"] /\ temp_file \in Name /\ temp_file' = temp_file
      /\ path' = [path EXCEPT ![s] = temp_file] /\ UNCHANGED <<stat_file, fd, new>>
  BY DEF CopyToTemp, At, SaverTypeOK
<1>1. made + 1 \in File
  BY <1>0, RoomIsLeft
<1>2. FileTypeOK' /\ NamesApart' /\ made' >= made /\ made' \in Nat /\ made \in Nat
  BY <1>0, <1>1, OpensEffect DEF CopyToTemp, FileTypeOK
<1>3. /\ pc'[s] = "open" /\ path'[s] = temp_file
      /\ \A t \in Saver : t # s => pc'[t] = pc[t] /\ path'[t] = path[t]
  BY <1>0 DEF SaverTypeOK
<1>4. SaverTypeOK'
  BY <1>0, <1>2, <1>3 DEF SaverTypeOK
<1>5. CurrentFilled'
  BY <1>0, <1>3 DEF CurrentFilled, OpensIt
<1> QED
  BY <1>2, <1>3, <1>4, <1>5, EnoughStays, BusyIsFine

(* The file s opens is the current one, if its path is the name in the     *)
(* attribute, and otherwise one that is neither the current one nor the    *)
(* stat file.                                                              *)
LEMMA OpenKeeps ==
  ASSUME StatInv, NEW s \in Saver, Open(s)
  PROVE  StatInv'
<1> USE FileNumbers DEF StatInv
<1>0. /\ pc[s] = "open" /\ pc' = [pc EXCEPT ![s] = "write"] /\ path[s] \in Name
      /\ temp_file \in Name /\ temp_file # None
      /\ fd' = [fd EXCEPT ![s] = linked'[path[s]]] /\ UNCHANGED <<stat_file, temp_file, path, new, failed>>
  BY DEF Open, At, SaverTypeOK
<1>1. made + 1 \in File
  BY <1>0, RoomIsLeft
<1>2. /\ FileTypeOK' /\ NamesApart' /\ made' >= made /\ made' \in Nat /\ made \in Nat
      /\ linked'[path[s]] \in 1..made'
      /\ \A m \in Name \ {path[s]} : linked'[m] = linked[m]
      /\ \A f \in 1..made : f # linked'[path[s]] => data'[f] = data[f]
  BY <1>0, <1>1, OpensEffect DEF Open, FileTypeOK
<1>3. /\ pc'[s] = "write" /\ fd'[s] = linked'[path[s]]
      /\ \A t \in Saver : t # s => pc'[t] = pc[t] /\ fd'[t] = fd[t]
  BY <1>0 DEF SaverTypeOK
<1>4. SaverTypeOK'
  BY <1>0, <1>2, <1>3 DEF SaverTypeOK
<1>5. CurrentFilled'
  <2>1. CASE path[s] = temp_file
    <3>1. Current' = fd'[s]
      BY <1>0, <1>2, <1>3, <2>1, StatFileAssumption DEF Current, Bound
    <3> QED
      BY <1>3, <3>1 DEF CurrentFilled, Fills
  <2>2. ASSUME path[s] # temp_file, NEW t \in Saver, OpensIt(t) PROVE CurrentFilled'
    BY <1>0, <1>3, <2>2 DEF CurrentFilled, OpensIt
  <2>3. ASSUME path[s] # temp_file, NEW t \in Saver, Fills(t, Current) PROVE CurrentFilled'
    <3>1. Bound(temp_file)' = Bound(temp_file) /\ Current' = Current
      BY <1>0, <1>2, <2>3 DEF Current, Bound
    <3>2. Current \in 1..made
      BY <1>0 DEF Current, Bound, FileTypeOK
    <3>3. Current # linked'[path[s]]
      <4>1. CASE linked[temp_file] = None
        <5>1. Current' = stat_file'
          BY <1>0, <3>1, <4>1 DEF Current, Bound
        <5> QED
          BY <1>0, <1>2, <3>1, <5>1 DEF NamesApart
      <4>2. CASE linked[temp_file] # None
        <5>1. Current = linked'[temp_file]
          BY <1>0, <1>2, <2>3, <4>2 DEF Current, Bound
        <5> QED
          BY <1>0, <1>2, <2>3, <4>2, <5>1 DEF NamesApart
      <4> QED
        BY <4>1, <4>2
    <3>4. data'[Current] = data[Current]
      BY <1>2, <3>2, <3>3
    <3>5. t # s
      BY <1>0, <2>3 DEF Fills
    <3>6. Fills(t, Current)'
      BY <1>0, <1>3, <2>3, <3>1, <3>4, <3>5 DEF Fills
    <3> QED
      BY <3>6 DEF CurrentFilled
  <2>4. CASE failed
    BY <1>0, <2>4 DEF CurrentFilled
  <2> QED
    BY <2>1, <2>2, <2>3, <2>4 DEF CurrentFilled
<1> QED
  BY <1>2, <1>3, <1>4, <1>5, EnoughStays, BusyIsFine

LEMMA WriteKeeps ==
  ASSUME StatInv, NEW s \in Saver, Write(s)
  PROVE  StatInv'
<1> USE FileNumbers DEF StatInv
<1>0. /\ pc[s] = "write" /\ pc' = [pc EXCEPT ![s] = "put"]
      /\ new' = [new EXCEPT ![s] = time'] /\ data' = [data EXCEPT ![fd[s]] = time']
      /\ UNCHANGED <<stat_file, linked, made, temp_file, path, fd, failed>>
      /\ fd[s] \in 1..made
  BY DEF Write, At, SaverTypeOK
<1>1. FileTypeOK' /\ NamesApart' /\ Current' = Current
  BY <1>0 DEF FileTypeOK, NamesApart, Current, Bound
<1>2. /\ pc'[s] = "put" /\ new'[s] = time'
      /\ \A t \in Saver : t # s => pc'[t] = pc[t] /\ new'[t] = new[t]
  BY <1>0 DEF SaverTypeOK
<1>3. SaverTypeOK'
  BY <1>0, <1>2 DEF SaverTypeOK
<1>f. fd[s] \in File
  BY <1>0, MadeAreFiles
<1>4. data'[fd[s]] = time' /\ \A f : f \in File /\ f # fd[s] => data'[f] = data[f]
  BY <1>0, <1>f DEF FileTypeOK
<1>c. Current \in File
  <2>1. Current \in 1..made
    BY <1>0 DEF Current, Bound, FileTypeOK
  <2> QED
    BY <2>1, MadeAreFiles
<1>5. CurrentFilled'
  <2>1. CASE fd[s] = Current
    BY <1>1, <1>2, <1>4, <2>1 DEF CurrentFilled, Fills
  <2>2. ASSUME NEW t \in Saver, OpensIt(t) PROVE CurrentFilled'
    BY <1>0, <1>2, <2>2 DEF CurrentFilled, OpensIt
  <2>3. ASSUME NEW t \in Saver, Fills(t, Current), fd[s] # Current PROVE CurrentFilled'
    <3>1. t # s
      BY <1>0, <2>3 DEF Fills
    <3>2. data'[Current] = data[Current]
      BY <1>4, <1>c, <2>3
    <3>3. Fills(t, Current)'
      BY <1>0, <1>1, <1>2, <2>3, <3>1, <3>2 DEF Fills
    <3> QED
      BY <3>3 DEF CurrentFilled
  <2>4. CASE failed
    BY <1>0, <2>4 DEF CurrentFilled
  <2> QED
    BY <2>1, <2>2, <2>3, <2>4 DEF CurrentFilled
<1> QED
  BY <1>1, <1>2, <1>3, <1>5, EnoughStays, BusyIsFine

LEMMA SaveFailsKeeps ==
  ASSUME StatInv, NEW s \in Saver, SaveFails(s)
  PROVE  StatInv'
<1> USE DEF StatInv
<1>0. pc' = [pc EXCEPT ![s] = "idle"] /\ failed' = TRUE /\ UNCHANGED <<object, path, fd, new>>
  BY DEF SaveFails, At
<1>1. FileTypeOK' /\ NamesApart'
  BY <1>0 DEF object, FileTypeOK, NamesApart
<1>2. SaverTypeOK'
  BY <1>0 DEF object, SaverTypeOK
<1>3. CurrentFilled' /\ NothingLeft'
  BY <1>0 DEF CurrentFilled, NothingLeft
<1> QED
  BY <1>1, <1>2, <1>3, EnoughStays

(* Moving the current file makes it the stat file. *)
LEMMA PutFileKeeps ==
  ASSUME StatInv, NEW s \in Saver, PutFile(s)
  PROVE  StatInv'
<1> USE DEF StatInv
<1>0. /\ pc[s] = "put" /\ pc' = [pc EXCEPT ![s] = "idle"] /\ temp_file \in Name
      /\ Move(temp_file) /\ UNCHANGED <<data, made, temp_file, path, fd, new, failed>>
  BY DEF PutFile, At, SaverTypeOK
<1>1. FileTypeOK' /\ NamesApart' /\ Current' = Current /\ Bound(temp_file)' = None
  BY <1>0, MoveEffect
<1>2. pc'[s] = "idle" /\ \A t \in Saver : t # s => pc'[t] = pc[t]
  BY <1>0 DEF SaverTypeOK
<1>3. SaverTypeOK'
  BY <1>0, <1>2 DEF SaverTypeOK
<1>4. NothingLeft'
  BY <1>0, <1>1 DEF NothingLeft
<1>5. ASSUME NEW t \in Saver, OpensIt(t) PROVE CurrentFilled'
  BY <1>0, <1>2, <1>5 DEF CurrentFilled, OpensIt
<1>6. ASSUME NEW t \in Saver, Fills(t, Current) PROVE CurrentFilled'
  <2>1. Fills(t, Current)'
    BY <1>0, <1>1, <1>2, <1>6 DEF Fills
  <2> QED
    BY <2>1 DEF CurrentFilled
<1>7. CASE failed
  BY <1>0, <1>7, <1>1, <1>3, <1>4, EnoughStays DEF CurrentFilled
<1> QED
  BY <1>1, <1>3, <1>4, <1>5, <1>6, <1>7, EnoughStays DEF CurrentFilled

LEMMA StatInvInductive == StatInv /\ [Next]_vars => StatInv'
<1> SUFFICES ASSUME StatInv, [Next]_vars PROVE StatInv'
  OBVIOUS
<1>1. CASE Next
  BY <1>1, MakeTempKeeps, CopyToTempKeeps, OpenKeeps, WriteKeeps, SaveFailsKeeps, PutFileKeeps DEF Next
<1>2. CASE UNCHANGED vars
  <2>1. UNCHANGED <<stat_file, linked, data, made, temp_file, pc, path, fd, new, failed>>
    BY <1>2 DEF vars, object, saver
  <2> QED
    BY <2>1 DEF StatInv, FileTypeOK, SaverTypeOK, Enough, In, NamesApart, CurrentFilled, OpensIt, Fills,
       Current, Bound, NothingLeft, AllIdle
<1> QED
  BY <1>1, <1>2

(* StatFile: for any number of threads and saves, once the saves are over  *)
(* and no plugin has failed the stat file is there and holds a session     *)
(* that some thread saved last, although they share the name of the        *)
(* temporary file and may move each other's.                               *)
THEOREM SavesSettle == Spec => []SettlesOnASession
<1>1. StatInv => SettlesOnASession
  <2> SUFFICES ASSUME StatInv, AllIdle, ~failed
               PROVE  stat_file # None /\ \E s \in Saver : data[stat_file] = new[s]
    BY DEF SettlesOnASession
  <2>1. Current = stat_file
    BY DEF StatInv, NothingLeft, Current
  <2>2. PICK s \in Saver : Fills(s, Current)
    BY DEF StatInv, CurrentFilled, OpensIt, AllIdle
  <2>3. stat_file # None
    BY StatFileAssumption, FileNumbers DEF StatInv, FileTypeOK
  <2> QED
    BY <2>1, <2>2, <2>3 DEF Fills, AllIdle
<1> QED
  BY <1>1, InitSaves, StatInvInductive, PTL DEF Spec
==============================================================================
