---------------------------- MODULE IntakeProofs ----------------------------
(***************************************************************************)
(* No file is taken before it has settled: for every set of files, every   *)
(* settling time, every sizes of their contents and every order of edits,  *)
(* events, rescans and polls.                                              *)
(***************************************************************************)
EXTENDS Intake, TLAPS

Entry == [size : Sizes, age : Nat]
Events == [op : {"note", "forget"}, file : Files]
Visible == Files \ Hidden
Seen == [file : Visible, size : Sizes]

DiskTyped ==
  /\ edits \in Nat /\ disk \in [Files -> {Absent} \cup Contents]
  /\ still \in [Files -> Nat] /\ had \in [Files -> [Sizes -> Nat \cup {NoTime}]]

WatchTyped ==
  /\ tracker \in [Files -> {Untracked} \cup Entry]
  /\ \A f \in Hidden : tracker[f] = Untracked
  /\ noting \in [Threads -> {Nothing} \cup Seen]
  /\ events \in Seq(Events)

(* Who tracks anything is observed, or its poller is dead and takes no more. *)
Tended ==
  /\ kind = "folder_watch" => main = "down" \/ watching \/ (poller = "dead" /\ main = "up")
  /\ poller # "off" => kind = "folder_watch" /\ main = "up"
  /\ main = "down" \/ kind # "folder_watch" => \A f \in Files : tracker[f] = Untracked
  /\ kind = "folder_watch" /\ main = "down" =>
       ~watching /\ events = <<>> /\ noting = [th \in Threads |-> Nothing]

(* A size that a thread, the tracker or the disk knows is one the file has   *)
(* had, for as long as the tracker thinks.                                   *)
Known ==
  /\ \A f \in Files : disk[f] # Absent => had[f][SizeOf[disk[f]]] >= 0
  /\ \A th \in Threads : noting[th] # Nothing => had[noting[th].file][noting[th].size] >= 0
  /\ \A f \in Files : tracker[f] # Untracked => had[f][tracker[f].size] >= tracker[f].age

(* What is tracked, and has no change that the observer is late for, has     *)
(* been as it is for as long as the tracker thinks.                          *)
Aged ==
  \A f \in Files :
    disk[f] # Absent /\ tracker[f] # Untracked /\ poller # "dead" /\ ~Unnoticed(f)
      => still[f] >= tracker[f].age

IInv == DiskTyped /\ WatchTyped /\ Tended /\ Known /\ Aged

(* Sizes are positive: nothing that is tracked or read looks like nothing.   *)
LEMMA SizesTyped ==
  /\ \A c \in Contents : c # Absent /\ SizeOf[c] \in Sizes
  /\ \A z \in Sizes : z \in Nat /\ z # Absent
  /\ \A n \in Seen : n # Nothing
  /\ \A r \in Entry : r # Untracked
<1>1. \A c \in Contents : c # Absent /\ SizeOf[c] \in Sizes
  BY IntakeAssumption DEF Contents, Sizes, Absent
<1>2. \A z \in Sizes : z \in Nat /\ z # Absent
  BY IntakeAssumption DEF Contents, Sizes, Absent
<1>3. \A n \in Seen : n.size \in Sizes
  BY DEF Seen
<1>4. \A r \in Entry : r.size \in Sizes
  BY DEF Entry
<1>5. Nothing.size = Absent /\ Untracked.size = Absent
  BY DEF Nothing, Untracked
<1>6. QED  BY <1>1, <1>2, <1>3, <1>4, <1>5

LEMMA InitIInv == Init => IInv
<1> SUFFICES ASSUME Init PROVE IInv
  OBVIOUS
<1>1. DiskTyped
  BY DEF Init, DiskTyped, NoTime
<1>2. WatchTyped
  BY IntakeAssumption DEF Init, WatchTyped
<1>3. Tended
  BY DEF Init, Tended
<1>4. Known
  BY DEF Init, Known
<1>5. Aged
  BY DEF Init, Aged
<1>6. QED  BY <1>1, <1>2, <1>3, <1>4, <1>5 DEF IInv

LEMMA OlderGrows ==
  ASSUME NEW age \in Int
  PROVE  /\ Older(age) \in Int /\ Older(age) >= age
         /\ age \in Nat => Older(age) \in Nat
         /\ \A younger \in Int : age >= younger => Older(age) >= Older(younger)
  BY IntakeAssumption DEF Older

LEMMA EventTyped ==
  ASSUME NEW f \in Files, NEW op \in {"note", "forget"}
  PROVE  /\ Event(op, f) \in Seq(Events) /\ Len(Event(op, f)) = 1
         /\ Event(op, f)[1] = [op |-> op, file |-> f]
<1>1. [op |-> op, file |-> f] \in Events
  BY DEF Events
<1>2. QED  BY <1>1 DEF Event

(* A write tells of the file; a rename of its source, then its destination.  *)
LEMMA EditEvents ==
  ASSUME NEW f \in Files, NEW g \in Files
  PROVE  /\ \E es \in Seq(Events) :
              es = Event("note", g) /\ es # <<>> /\ es[Len(es)] = [op |-> "note", file |-> g]
         /\ \E es \in Seq(Events) :
              /\ es = Event("forget", f) \o Event("note", g)
              /\ es # <<>> /\ es[Len(es)] = [op |-> "note", file |-> g]
<1>1. PICK one \in Seq(Events) : one = Event("forget", f) /\ Len(one) = 1
  BY EventTyped
<1>2. PICK two \in Seq(Events) : /\ two = Event("note", g) /\ Len(two) = 1
                                /\ two[1] = [op |-> "note", file |-> g]
  BY EventTyped
<1>3. PICK es : es = one \o two
  OBVIOUS
<1>4. es \in Seq(Events) /\ Len(es) = 2 /\ es[2] = two[1]
  BY <1>1, <1>2, <1>3
<1>5. two # <<>> /\ es # <<>>
  BY <1>2, <1>4
<1>6. es[Len(es)] = [op |-> "note", file |-> g] /\ two[Len(two)] = [op |-> "note", file |-> g]
  BY <1>2, <1>4
<1>7. es = Event("forget", f) \o Event("note", g)
  BY <1>1, <1>2, <1>3
<1>8. QED  BY <1>2, <1>4, <1>5, <1>6, <1>7

(* Events that come behind the others leave the others unnoticed.            *)
LEMMA StillUnnoticed ==
  ASSUME events \in Seq(Events), NEW es \in Seq(Events), events' = events \o es,
         UNCHANGED noting
  PROVE  \A f : Unnoticed(f) => Unnoticed(f)'
<1> SUFFICES ASSUME NEW f, Unnoticed(f) PROVE Unnoticed(f)'
  OBVIOUS
<1>1. CASE Noting("observer") /\ noting["observer"].file = f
  BY <1>1 DEF Unnoticed, Noting
<1>2. ASSUME NEW i \in DOMAIN events, events[i] = [op |-> "note", file |-> f]
      PROVE  Unnoticed(f)'
  <2>1. i \in DOMAIN events' /\ events'[i] = events[i]
    BY <1>2
  <2>2. QED  BY <1>2, <2>1 DEF Unnoticed
<1>3. QED  BY <1>1, <1>2 DEF Unnoticed

LEMMA LastUnnoticed ==
  ASSUME events \in Seq(Events), NEW es \in Seq(Events), NEW f, events' = events \o es,
         es # <<>>, es[Len(es)] = [op |-> "note", file |-> f]
  PROVE  Unnoticed(f)'
<1>1. Len(es) \in Nat \ {0} /\ Len(events) \in Nat
  OBVIOUS
<1>2. PICK i : i = Len(events) + Len(es)
  OBVIOUS
<1>3. i \in DOMAIN events' /\ events'[i] = es[Len(es)]
  BY <1>1, <1>2
<1>4. QED  BY <1>3 DEF Unnoticed

(* An edit of the disk is told to an observer that runs, and with none       *)
(* nothing that is tracked is taken any more.                                *)
LEMMA EditTold ==
  ASSUME IInv, kind \notin ManifestKinds, NEW es \in Seq(Events), Happened(es),
         NEW f \in Files, es # <<>>, es[Len(es)] = [op |-> "note", file |-> f],
         UNCHANGED <<kind, main, noting, watching, tracker, poller>>,
         NEW g \in Files, tracker[g] # Untracked, poller # "dead"
  PROVE  Unnoticed(f)' /\ (Unnoticed(g) => Unnoticed(g)')
<1>1. watching
  BY DEF IInv, Tended
<1>2. events \in Seq(Events) /\ events' = events \o es
  BY <1>1 DEF Happened, IInv, WatchTyped
<1>3. QED  BY <1>2, StillUnnoticed, LastUnnoticed

(* A size that a file gets is from then on one that it had.                  *)
LEMMA HadGrows ==
  ASSUME DiskTyped, NEW c \in Contents, NEW f \in Files, HasSizeOf(c, f)
  PROVE  /\ had' \in [Files -> [Sizes -> Nat \cup {NoTime}]]
         /\ had'[f][SizeOf[c]] >= 0
         /\ \A g \in Files, z \in Sizes : had[g][z] >= 0 => had'[g][z] = had[g][z]
<1>1. PICK z \in Sizes : z = SizeOf[c]
  BY SizesTyped
<1>2. had' = [had EXCEPT ![f][z] = IF @ = NoTime THEN 0 ELSE @]
  BY <1>1 DEF HasSizeOf
<1>3. PICK n : n = (IF had[f][z] = NoTime THEN 0 ELSE had[f][z])
  OBVIOUS
<1>4. had[f][z] \in Nat \cup {NoTime} /\ had[f] \in [Sizes -> Nat \cup {NoTime}]
  BY DEF DiskTyped
<1>5. n \in Nat /\ (had[f][z] >= 0 => n = had[f][z])
  BY <1>3, <1>4 DEF NoTime
<1>6. PICK h : h = [had[f] EXCEPT ![z] = n]
  OBVIOUS
<1>7. h \in [Sizes -> Nat \cup {NoTime}] /\ h[z] = n /\ \A y \in Sizes : y # z => h[y] = had[f][y]
  BY <1>4, <1>5, <1>6
<1>8. had' = [had EXCEPT ![f] = h]
  BY <1>2, <1>3, <1>6
<1>9. had' \in [Files -> [Sizes -> Nat \cup {NoTime}]] /\ had'[f] = h
      /\ \A g \in Files : g # f => had'[g] = had[g]
  BY <1>7, <1>8 DEF DiskTyped
<1>10. \A g \in Files, y \in Sizes : had[g][y] >= 0 => had'[g][y] = had[g][y]
  BY <1>5, <1>7, <1>9
<1>11. n >= 0 /\ had'[f][z] = n
  BY <1>5, <1>7, <1>9
<1> HIDE DEF NoTime
<1>12. QED  BY <1>1, <1>9, <1>10, <1>11

(* What is known of a file stays known when a file gets a content.           *)
LEMMA HadKept ==
  ASSUME IInv, NEW c \in Contents, NEW f \in Files, HasSizeOf(c, f),
         UNCHANGED <<tracker, noting>>,
         \A g \in Files : disk'[g] \in {disk[g], Absent} \/ (g = f /\ disk'[g] = c)
  PROVE  Known'
<1>1. /\ had'[f][SizeOf[c]] >= 0
      /\ \A g \in Files, z \in Sizes : had[g][z] >= 0 => had'[g][z] = had[g][z]
  BY HadGrows DEF IInv
<1>2. ASSUME NEW g \in Files, disk'[g] # Absent PROVE had'[g][SizeOf[disk'[g]]] >= 0
  <2>1. CASE g = f /\ disk'[g] = c
    BY <1>1, <2>1
  <2>2. CASE disk'[g] = disk[g]
    <3>1. PICK d \in Contents : d = disk[g]
      BY <1>2, <2>2 DEF IInv, DiskTyped
    <3>2. SizeOf[d] \in Sizes /\ had[g][SizeOf[d]] >= 0
      BY <1>2, <2>2, <3>1, SizesTyped DEF IInv, Known
    <3>3. QED  BY <1>1, <2>2, <3>1, <3>2
  <2>3. QED  BY <1>2, <2>1, <2>2
<1>3. ASSUME NEW th \in Threads, noting[th] # Nothing
      PROVE  had'[noting[th].file][noting[th].size] >= 0
  <2>1. noting[th].file \in Files /\ noting[th].size \in Sizes
    BY <1>3 DEF IInv, WatchTyped, Seen, Visible
  <2>2. QED  BY <1>1, <1>3, <2>1 DEF IInv, Known
<1>4. ASSUME NEW g \in Files, tracker[g] # Untracked
      PROVE  had'[g][tracker[g].size] >= tracker[g].age
  <2>1. tracker[g].age \in Nat /\ tracker[g].size \in Sizes
    BY <1>4 DEF IInv, WatchTyped, Entry
  <2>2. had[g][tracker[g].size] >= tracker[g].age
    BY <1>4 DEF IInv, Known
  <2>3. had[g][tracker[g].size] \in Nat \cup {NoTime}
    BY <2>1 DEF IInv, DiskTyped
  <2>4. had[g][tracker[g].size] >= 0
    BY <2>1, <2>2, <2>3 DEF NoTime
  <2>5. QED  BY <1>1, <2>1, <2>2, <2>4
<1>5. QED  BY <1>2, <1>3, <1>4 DEF Known

LEMMA WriteStep ==
  ASSUME IInv, NEW f \in Files, WriteFile(f)
  PROVE  IInv' /\ UNCHANGED ready
<1>1. UNCHANGED <<kind, main, noting, watching, tracker, poller, ready>>
  BY DEF WriteFile
<1>2. PICK c \in Contents : c = edits + 1 /\ c = edits' /\ c \in Nat
  BY IntakeAssumption DEF WriteFile, Contents, IInv, DiskTyped
<1>3. disk' = [disk EXCEPT ![f] = c] /\ still' = [still EXCEPT ![f] = 0] /\ HasSizeOf(c, f)
  BY <1>2 DEF WriteFile
<1>4. DiskTyped'
  BY <1>2, <1>3, HadGrows DEF IInv, DiskTyped
<1>5. PICK es \in Seq(Events) : /\ es = Event("note", f) /\ es # <<>>
                                /\ es[Len(es)] = [op |-> "note", file |-> f]
  BY EditEvents
<1>e. Happened(es)
  BY <1>5 DEF WriteFile
<1>6. WatchTyped'
  BY <1>1, <1>5, <1>e DEF IInv, WatchTyped, Happened
<1>7. Tended'
  BY <1>1, <1>e DEF IInv, Tended, Happened
<1>8. Known'
  BY <1>1, <1>2, <1>3, HadKept DEF IInv
<1>9. Aged'
  <2> SUFFICES ASSUME NEW g \in Files, disk'[g] # Absent, tracker[g] # Untracked,
                      poller # "dead", ~Unnoticed(g)'
      PROVE  still'[g] >= tracker[g].age
    BY <1>1 DEF Aged
  <2>1. kind \notin ManifestKinds
    BY DEF WriteFile
  <2>2. Unnoticed(f)' /\ ~Unnoticed(g)
    BY <1>1, <1>5, <1>e, <2>1, EditTold
  <2>3. g # f
    BY <2>2
  <2>4. still'[g] = still[g] /\ disk'[g] = disk[g]
    BY <1>3, <2>3 DEF IInv, DiskTyped
  <2>5. QED  BY <2>2, <2>4 DEF IInv, Aged
<1>10. QED  BY <1>1, <1>4, <1>6, <1>7, <1>8, <1>9 DEF IInv

LEMMA MoveStep ==
  ASSUME IInv, NEW f \in Files, NEW g \in Files, MoveFile(f, g)
  PROVE  IInv' /\ UNCHANGED ready
<1>1. UNCHANGED <<kind, main, noting, watching, tracker, poller, ready>> /\ f # g
  BY DEF MoveFile
<1>2. PICK c \in Contents : c = disk[f]
  BY DEF MoveFile, IInv, DiskTyped
<1>3. /\ disk' = [disk EXCEPT ![f] = Absent, ![g] = c]
      /\ still' = [still EXCEPT ![g] = still[f]] /\ HasSizeOf(c, g) /\ edits' = edits + 1
  BY <1>2 DEF MoveFile
<1>4. DiskTyped'
  BY <1>2, <1>3, HadGrows DEF IInv, DiskTyped
<1>5. PICK es \in Seq(Events) : /\ es = Event("forget", f) \o Event("note", g)
                                /\ es # <<>> /\ es[Len(es)] = [op |-> "note", file |-> g]
  BY EditEvents
<1>6. Happened(es) /\ kind \notin ManifestKinds
  BY <1>5 DEF MoveFile
<1>7. WatchTyped'
  BY <1>1, <1>5, <1>6 DEF IInv, WatchTyped, Happened
<1>8. Tended'
  BY <1>1, <1>6 DEF IInv, Tended, Happened
<1>9. Known'
  <2>1. \A h \in Files : disk'[h] \in {disk[h], Absent} \/ (h = g /\ disk'[h] = c)
    BY <1>3 DEF IInv, DiskTyped
  <2>2. HasSizeOf(c, g) /\ UNCHANGED <<tracker, noting>>
    BY <1>1, <1>3
  <2>3. QED  BY <2>1, <2>2, HadKept
<1>10. Aged'
  <2> SUFFICES ASSUME NEW h \in Files, disk'[h] # Absent, tracker[h] # Untracked,
                      poller # "dead", ~Unnoticed(h)'
      PROVE  still'[h] >= tracker[h].age
    BY <1>1 DEF Aged
  <2>1. Unnoticed(g)' /\ ~Unnoticed(h)
    BY <1>1, <1>5, <1>6, EditTold
  <2>2. h # g /\ h # f
    BY <1>1, <1>3, <2>1 DEF IInv, DiskTyped
  <2>3. still'[h] = still[h] /\ disk'[h] = disk[h]
    BY <1>3, <2>2 DEF IInv, DiskTyped
  <2>4. QED  BY <2>1, <2>3 DEF IInv, Aged
<1>11. QED  BY <1>1, <1>4, <1>7, <1>8, <1>9, <1>10 DEF IInv

(* Edits of a manifest change no file.                                       *)
LEMMA EditStep ==
  ASSUME IInv, User
  PROVE  IInv' /\ UNCHANGED ready
<1>1. CASE EditManifest
  <2>1. UNCHANGED <<kind, disk, still, had, main, noting, events, watching, tracker, poller, ready>>
        /\ edits' = edits + 1
    BY <1>1 DEF EditManifest, watch
  <2>2. DiskTyped'
    BY <2>1 DEF IInv, DiskTyped
  <2>3. QED
    BY <2>1, <2>2 DEF IInv, WatchTyped, Tended, Known, Aged, Unnoticed, Noting
<1>2. QED  BY <1>1, WriteStep, MoveStep DEF User

(* Time passes for all three ages alike.                                     *)
LEMMA TimeStep ==
  ASSUME IInv, Tick
  PROVE  IInv' /\ UNCHANGED ready
<1>1. /\ still' = [f \in Files |-> Older(still[f])]
      /\ had' = [f \in Files |-> [z \in Sizes |-> IF had[f][z] = NoTime THEN NoTime
                                                  ELSE Older(had[f][z])]]
      /\ tracker' = [f \in Files |-> [tracker[f] EXCEPT
                       !.age = IF tracker[f] = Untracked THEN 0 ELSE Older(@)]]
      /\ UNCHANGED <<kind, disk, edits, main, noting, events, watching, poller, ready>>
  BY DEF Tick
<1>2. \A f \in Files :
        /\ tracker[f] = Untracked => tracker'[f] = Untracked
        /\ tracker[f] # Untracked =>
             /\ tracker'[f] \in Entry /\ tracker'[f].size = tracker[f].size
             /\ tracker'[f].age = Older(tracker[f].age)
  <2> SUFFICES ASSUME NEW f \in Files
      PROVE  /\ tracker[f] = Untracked => tracker'[f] = Untracked
             /\ tracker[f] # Untracked =>
                  /\ tracker'[f] \in Entry /\ tracker'[f].size = tracker[f].size
                  /\ tracker'[f].age = Older(tracker[f].age)
    OBVIOUS
  <2>1. PICK r : r = tracker[f] /\ (r = Untracked \/ r \in Entry)
    BY DEF IInv, WatchTyped
  <2>2. PICK n : n = (IF r = Untracked THEN 0 ELSE Older(r.age))
    OBVIOUS
  <2>3. tracker'[f] = [r EXCEPT !.age = n]
    BY <1>1, <2>1, <2>2
  <2>4. CASE r = Untracked
    BY <2>1, <2>2, <2>3, <2>4 DEF Untracked
  <2>5. CASE r \in Entry
    <3>1. r.age \in Nat /\ n = Older(r.age)
      BY <2>2, <2>5, SizesTyped DEF Entry
    <3>2. n \in Nat
      BY <3>1, OlderGrows
    <3>3. tracker'[f] \in Entry /\ tracker'[f].size = r.size /\ tracker'[f].age = n
      BY <2>3, <2>5, <3>2 DEF Entry
    <3>4. QED  BY <2>1, <2>5, <3>1, <3>3, SizesTyped
  <2>6. QED  BY <2>1, <2>4, <2>5
<1>3. DiskTyped'
  <2>1. \A f \in Files : Older(still[f]) \in Nat
    BY OlderGrows DEF IInv, DiskTyped
  <2>2. \A f \in Files, z \in Sizes :
          (IF had[f][z] = NoTime THEN NoTime ELSE Older(had[f][z])) \in Nat \cup {NoTime}
    BY OlderGrows DEF IInv, DiskTyped
  <2>3. QED  BY <1>1, <2>1, <2>2 DEF IInv, DiskTyped
<1>4. \A f \in Files, z \in Sizes :
        had[f][z] >= 0 => had'[f][z] = Older(had[f][z]) /\ had'[f][z] >= had[f][z]
  <2> SUFFICES ASSUME NEW f \in Files, NEW z \in Sizes, had[f][z] >= 0
      PROVE  had'[f][z] = Older(had[f][z]) /\ had'[f][z] >= had[f][z]
    OBVIOUS
  <2>1. had[f][z] \in Nat \cup {NoTime}
    BY DEF IInv, DiskTyped
  <2>2. had[f][z] \in Nat /\ had[f][z] # NoTime
    BY <2>1 DEF NoTime
  <2>3. had'[f][z] = Older(had[f][z])
    BY <1>1, <2>2
  <2>4. QED  BY <2>2, <2>3, OlderGrows
<1>5. WatchTyped'
  <2>1. DOMAIN tracker' = Files /\ tracker' = [f \in Files |-> tracker'[f]]
    BY <1>1
  <2>2. \A f \in Files : tracker'[f] \in {Untracked} \cup Entry
    BY <1>2
  <2>3. tracker' \in [Files -> {Untracked} \cup Entry]
    BY <2>1, <2>2
  <2>4. \A f \in Hidden : tracker'[f] = Untracked
    BY <1>2, IntakeAssumption DEF IInv, WatchTyped
  <2>5. QED  BY <1>1, <2>3, <2>4 DEF IInv, WatchTyped
<1>6. Tended'
  BY <1>1, <1>2 DEF IInv, Tended
<1>t. \A f \in Files : tracker'[f] # Untracked =>
        /\ tracker[f] # Untracked /\ tracker[f].size \in Sizes /\ tracker[f].age \in Nat
        /\ tracker'[f].size = tracker[f].size /\ tracker'[f].age = Older(tracker[f].age)
  BY <1>2 DEF IInv, WatchTyped, Entry
<1>7. Known'
  <2>1. ASSUME NEW f \in Files, disk[f] # Absent PROVE had'[f][SizeOf[disk[f]]] >= 0
    <3>1. PICK z \in Sizes : z = SizeOf[disk[f]]
      BY <2>1, SizesTyped DEF IInv, DiskTyped
    <3>2. had[f][z] >= 0 /\ had[f][z] \in Nat \cup {NoTime} /\ had'[f][z] \in Nat \cup {NoTime}
      BY <2>1, <3>1, <1>3 DEF IInv, Known, DiskTyped
    <3>3. QED  BY <1>4, <3>1, <3>2 DEF NoTime
  <2>2. ASSUME NEW th \in Threads, noting[th] # Nothing
        PROVE  had'[noting[th].file][noting[th].size] >= 0
    <3>1. PICK f \in Files, z \in Sizes : f = noting[th].file /\ z = noting[th].size
      BY <2>2 DEF IInv, WatchTyped, Seen, Visible
    <3>2. had[f][z] >= 0 /\ had[f][z] \in Nat \cup {NoTime} /\ had'[f][z] \in Nat \cup {NoTime}
      BY <2>2, <3>1, <1>3 DEF IInv, Known, DiskTyped
    <3>3. QED  BY <1>4, <3>1, <3>2 DEF NoTime
  <2>3. ASSUME NEW f \in Files, tracker'[f] # Untracked
        PROVE  had'[f][tracker'[f].size] >= tracker'[f].age
    <3>1. PICK z \in Sizes, a \in Nat : z = tracker[f].size /\ a = tracker[f].age
      BY <1>t, <2>3
    <3>2. had[f][z] >= a /\ had[f][z] \in Nat \cup {NoTime}
      BY <1>t, <2>3, <3>1 DEF IInv, Known, DiskTyped
    <3>3. had[f][z] >= 0 /\ had[f][z] \in Int
      BY <3>2 DEF NoTime
    <3>4. Older(had[f][z]) >= Older(a)
      BY <3>2, <3>3, OlderGrows
    <3>5. QED  BY <1>4, <1>t, <2>3, <3>1, <3>3, <3>4
  <2>4. QED  BY <1>1, <2>1, <2>2, <2>3 DEF Known
<1>8. Aged'
  <2> SUFFICES ASSUME NEW f \in Files, disk[f] # Absent, tracker'[f] # Untracked, poller # "dead",
                      ~Unnoticed(f)
      PROVE  still'[f] >= tracker'[f].age
    BY <1>1 DEF Aged, Unnoticed, Noting
  <2>1. still[f] >= tracker[f].age
    BY <1>t DEF IInv, Aged
  <2>2. still[f] \in Nat /\ tracker[f].age \in Nat
    BY <1>t DEF IInv, DiskTyped
  <2>3. Older(still[f]) >= Older(tracker[f].age)
    BY <2>1, <2>2, OlderGrows
  <2>4. QED  BY <1>1, <1>t, <2>3
<1>9. QED  BY <1>1, <1>3, <1>5, <1>6, <1>7, <1>8 DEF IInv

(* What a thread has read is noted as new, however old it is by now.         *)
LEMMA NoteStep ==
  ASSUME IInv, NEW th \in Threads, NotePath(th)
  PROVE  IInv' /\ UNCHANGED ready
<1>1. /\ UNCHANGED <<kind, disk, still, had, edits, main, events, watching, poller, ready>>
      /\ noting' = [noting EXCEPT ![th] = Nothing] /\ kind = "folder_watch"
  BY DEF NotePath, world
<1>2. PICK n \in Seen : n = noting[th]
  BY DEF NotePath, Noting, IInv, WatchTyped
<1>3. PICK f \in Visible, z \in Sizes : f = n.file /\ z = n.size
  BY DEF Seen
<1>4. PICK r : r = [size |-> z, age |-> 0]
  OBVIOUS
<1>5. r \in Entry /\ r.age = 0 /\ r.size = z
  BY <1>4 DEF Entry
<1>6. tracker' = [tracker EXCEPT ![f] = r] /\ f \in Files /\ f \notin Hidden
  BY <1>2, <1>3, <1>4 DEF NotePath, Visible
<1>7. had[f][z] >= 0 /\ main # "down"
  BY <1>1, <1>2, <1>3, SizesTyped DEF IInv, Known, Tended
<1>8. WatchTyped'
  BY <1>1, <1>5, <1>6 DEF IInv, WatchTyped
<1>9. Tended'
  BY <1>1, <1>7 DEF IInv, Tended
<1>10. \A g \in Files : g # f => tracker'[g] = tracker[g]
  BY <1>6 DEF IInv, WatchTyped
<1>11. tracker'[f] = r
  BY <1>6 DEF IInv, WatchTyped
<1>12. Known'
  BY <1>1, <1>5, <1>7, <1>10, <1>11 DEF IInv, WatchTyped, Known
<1>13. Aged'
  <2> SUFFICES ASSUME NEW g \in Files, disk[g] # Absent, tracker'[g] # Untracked, poller # "dead",
                      ~Unnoticed(g)'
      PROVE  still[g] >= tracker'[g].age
    BY <1>1 DEF Aged
  <2>1. CASE g = f
    BY <1>5, <1>11, <2>1 DEF IInv, DiskTyped
  <2>2. CASE g # f
    <3>1. ~Unnoticed(g)
      BY <1>1, <1>2, <1>3, <2>2 DEF Unnoticed, Noting, IInv, WatchTyped, Threads
    <3>2. QED  BY <1>10, <2>2, <3>1 DEF IInv, Aged
  <2>3. QED  BY <2>1, <2>2
<1>14. QED  BY <1>1, <1>8, <1>9, <1>12, <1>13 DEF IInv, DiskTyped

(* A file that is looked at has the size it is noted with.                   *)
LEMMA StatRead ==
  ASSUME IInv, NEW th \in Threads, NEW f \in Files, StatPath(th, f)
  PROVE  \E n \in {Nothing} \cup Seen :
           /\ noting' = [noting EXCEPT ![th] = n]
           /\ n # Nothing => n.file = f /\ had[f][n.size] >= 0
           /\ n = Nothing => disk[f] = Absent \/ f \in Hidden
<1>1. CASE disk[f] = Absent \/ ShouldIgnore(f)
  <2>1. noting' = [noting EXCEPT ![th] = Nothing]
    BY <1>1 DEF StatPath
  <2>2. QED  BY <1>1, <2>1 DEF ShouldIgnore
<1>2. CASE ~(disk[f] = Absent \/ ShouldIgnore(f))
  <2>1. PICK z \in Sizes : z = SizeOf[disk[f]] /\ had[f][z] >= 0
    BY <1>2, SizesTyped DEF IInv, DiskTyped, Known
  <2>v. f \in Visible
    BY <1>2 DEF Visible, ShouldIgnore
  <2>2. PICK n \in Seen : n = [file |-> f, size |-> z]
    BY <2>v DEF Seen
  <2>3. noting' = [noting EXCEPT ![th] = n] /\ n # Nothing
    BY <1>2, <2>1, <2>2, SizesTyped DEF StatPath
  <2>4. n.file = f /\ n.size = z
    BY <2>2
  <2>5. QED  BY <2>1, <2>3, <2>4
<1>3. QED  BY <1>1, <1>2

(* What is read of the disk is known; a thread that was idle loses nothing.  *)
LEMMA ReadStep ==
  ASSUME IInv, NEW th \in Threads, NEW f \in Files, StatPath(th, f), ~Noting(th),
         main # "down" \/ kind # "folder_watch",
         UNCHANGED <<kind, disk, still, had, edits, main, tracker, watching, poller>>,
         events' \in Seq(Events),
         \A g \in Files : Unnoticed(g) => Unnoticed(g)' \/ (g = f /\ (disk[g] = Absent \/ g \in Hidden))
  PROVE  IInv'
<1>1. PICK n \in {Nothing} \cup Seen :
           /\ noting' = [noting EXCEPT ![th] = n]
           /\ n # Nothing => n.file = f /\ had[f][n.size] >= 0
  BY StatRead
<1>2. DiskTyped' /\ WatchTyped'
  BY <1>1 DEF IInv, DiskTyped, WatchTyped
<1>3. Tended'
  BY DEF IInv, Tended
<1>4. Known'
  BY <1>1 DEF IInv, WatchTyped, Known
<1>5. Aged'
  BY DEF IInv, WatchTyped, Aged
<1>6. QED  BY <1>2, <1>3, <1>4, <1>5 DEF IInv

(* A note that is taken from the queue is being noted; a rename that is      *)
(* observed forgets its source.                                              *)
LEMMA ObserveStep ==
  ASSUME IInv, HandleEvent
  PROVE  IInv' /\ UNCHANGED ready
<1>1. /\ UNCHANGED <<kind, disk, still, had, edits, main, watching, poller, ready>>
      /\ events' = Tail(events) /\ events # <<>> /\ ~Noting("observer")
  BY DEF HandleEvent, world
<1>2. PICK e \in Events : e = Head(events)
  BY <1>1 DEF IInv, WatchTyped
<1>3. PICK f \in Files : f = e.file
  BY DEF Events
<1>4. events' \in Seq(Events) /\ events \in Seq(Events)
  BY <1>1 DEF IInv, WatchTyped
<1>5. ASSUME NEW g, NEW i \in DOMAIN events, events[i] = [op |-> "note", file |-> g], i # 1
      PROVE  Unnoticed(g)'
  <2>1. i - 1 \in DOMAIN events' /\ events'[i - 1] = events[i]
    BY <1>1, <1>4, <1>5
  <2>2. QED  BY <1>5, <2>1 DEF Unnoticed
<1>6. \A g : Unnoticed(g) => Unnoticed(g)' \/ e = [op |-> "note", file |-> g]
  BY <1>1, <1>2, <1>4, <1>5 DEF Unnoticed
<1>7. CASE e.op = "note"
  <2>1. StatPath("observer", f) /\ UNCHANGED tracker
    BY <1>2, <1>3, <1>7 DEF HandleEvent
  <2>2. ASSUME NEW g \in Files, Unnoticed(g), ~Unnoticed(g)'
        PROVE  g = f /\ (disk[g] = Absent \/ g \in Hidden)
    <3>1. g = f
      BY <1>3, <1>6, <2>2
    <3>2. PICK n \in {Nothing} \cup Seen :
             /\ noting' = [noting EXCEPT !["observer"] = n]
             /\ n # Nothing => n.file = f
             /\ n = Nothing => disk[f] = Absent \/ f \in Hidden
      BY <2>1, StatRead DEF Threads
    <3>3. noting'["observer"] = n
      BY <3>2 DEF IInv, WatchTyped, Threads
    <3>4. CASE n # Nothing
      BY <2>2, <3>1, <3>2, <3>3, <3>4 DEF Unnoticed, Noting
    <3>5. QED  BY <3>1, <3>2, <3>4
  <2>m. CASE main # "down" \/ kind # "folder_watch"
    <3>1. \A g \in Files : Unnoticed(g) => Unnoticed(g)' \/ (g = f /\ (disk[g] = Absent \/ g \in Hidden))
      BY <2>2
    <3>2. QED  BY <1>1, <1>4, <2>1, <2>m, <3>1, ReadStep DEF Threads
  <2>d. CASE main = "down" /\ kind = "folder_watch"
    BY <1>1, <2>d DEF IInv, Tended
  <2>3. QED  BY <1>1, <2>m, <2>d
<1>8. CASE e.op # "note"
  <2>1. tracker' = [tracker EXCEPT ![f] = Untracked] /\ UNCHANGED noting
    BY <1>2, <1>3, <1>8 DEF HandleEvent
  <2>2. \A g \in Files : tracker'[g] \in {tracker[g], Untracked}
    BY <2>1 DEF IInv, WatchTyped
  <2>3. \A g : Unnoticed(g) => Unnoticed(g)'
    BY <1>6, <1>8
  <2>4. DiskTyped' /\ WatchTyped'
    BY <1>1, <1>4, <2>1, IntakeAssumption DEF IInv, DiskTyped, WatchTyped
  <2>5. Tended' /\ Known' /\ Aged'
    BY <1>1, <2>1, <2>2, <2>3 DEF IInv, Tended, Known, Aged
  <2>6. QED  BY <1>1, <2>4, <2>5 DEF IInv
<1>9. QED  BY <1>7, <1>8

LEMMA ScanStep ==
  ASSUME IInv, NEW f \in Files, ScanNext(f)
  PROVE  IInv' /\ UNCHANGED ready
<1>1. /\ UNCHANGED <<kind, disk, still, had, edits, main, tracker, watching, poller, events, ready>>
      /\ StatPath("main", f) /\ ~Noting("main") /\ main = "scan"
  BY DEF ScanNext, world
<1>2. noting'["observer"] = noting["observer"]
  <2>1. PICK n : noting' = [noting EXCEPT !["main"] = n]
    BY <1>1 DEF StatPath
  <2>2. QED  BY <2>1 DEF IInv, WatchTyped, Threads
<1>3. \A g \in Files : Unnoticed(g) => Unnoticed(g)'
  BY <1>1, <1>2 DEF Unnoticed, Noting
<1>4. QED  BY <1>1, <1>3, ReadStep DEF IInv, WatchTyped, Threads

(* The poller keeps what it has seen, measures again what has another size,  *)
(* and takes what has had its size for long enough.                          *)
LEMMA PollStep ==
  ASSUME IInv, PollOnce
  PROVE  /\ IInv'
         /\ \A f \in ready' : /\ had[f][SizeOf[disk[f]]] >= Settle
                              /\ still[f] >= Settle \/ Unnoticed(f)
<1>1. /\ UNCHANGED <<kind, disk, still, had, edits, main, noting, events, watching>>
      /\ ready' = {f \in Files : Settled(f)} /\ poller = "idle" /\ poller' \in {"idle", "emit"}
  BY DEF PollOnce, world
<1>2. \A f \in Files : \/ tracker'[f] \in {Untracked, tracker[f]}
                       \/ /\ tracker'[f] = [size |-> SizeOf[disk[f]], age |-> 0]
                          /\ tracker'[f].size = SizeOf[disk[f]] /\ tracker'[f].age = 0
                          /\ tracker[f] # Untracked /\ disk[f] # Absent
  BY DEF PollOnce, Tracked
<1>3. \A f \in Files : disk[f] # Absent =>
        /\ SizeOf[disk[f]] \in Sizes /\ [size |-> SizeOf[disk[f]], age |-> 0] \in Entry
        /\ had[f][SizeOf[disk[f]]] >= 0 /\ still[f] >= 0
  BY SizesTyped DEF Entry, IInv, DiskTyped, Known
<1>4. WatchTyped'
  <2>1. DOMAIN tracker' = Files /\ tracker' = [f \in Files |-> tracker'[f]]
    BY DEF PollOnce
  <2>2. \A f \in Files : tracker'[f] \in {Untracked} \cup Entry
    BY <1>2, <1>3 DEF IInv, WatchTyped
  <2>3. tracker' \in [Files -> {Untracked} \cup Entry]
    BY <2>1, <2>2
  <2>4. \A f \in Hidden : tracker'[f] = Untracked
    BY <1>2, IntakeAssumption DEF IInv, WatchTyped
  <2>5. QED  BY <1>1, <2>3, <2>4 DEF IInv, WatchTyped
<1>5. DiskTyped'
  BY <1>1 DEF IInv, DiskTyped
<1>6. Tended'
  BY <1>1, <1>2 DEF IInv, Tended
<1>7. Known'
  <2>1. ASSUME NEW f \in Files, tracker'[f] # Untracked
        PROVE  had[f][tracker'[f].size] >= tracker'[f].age
    <3>1. CASE tracker'[f] = tracker[f]
      BY <2>1, <3>1 DEF IInv, Known
    <3>2. CASE /\ tracker'[f].size = SizeOf[disk[f]] /\ tracker'[f].age = 0
               /\ disk[f] # Absent
      BY <1>3, <3>2
    <3>3. QED  BY <1>2, <2>1, <3>1, <3>2
  <2>2. QED  BY <1>1, <2>1 DEF IInv, Known
<1>8. Aged'
  <2>1. ASSUME NEW f \in Files, disk[f] # Absent, tracker'[f] # Untracked, ~Unnoticed(f)
        PROVE  still[f] >= tracker'[f].age
    <3>1. CASE tracker'[f] = tracker[f]
      BY <1>1, <2>1, <3>1 DEF IInv, Aged
    <3>2. CASE tracker'[f].age = 0
      BY <1>3, <2>1, <3>2
    <3>3. QED  BY <1>2, <2>1, <3>1, <3>2
  <2>2. QED  BY <1>1, <2>1 DEF Aged, Unnoticed, Noting
<1>9. ASSUME NEW f \in Files, Settled(f)
      PROVE  had[f][SizeOf[disk[f]]] >= Settle /\ (still[f] >= Settle \/ Unnoticed(f))
  <2>1. /\ disk[f] # Absent /\ tracker[f] # Untracked
        /\ SizeOf[disk[f]] = tracker[f].size /\ tracker[f].age >= Settle
    BY <1>9 DEF Settled, Tracked, SameSize
  <2>2. /\ had[f][SizeOf[disk[f]]] >= tracker[f].age
        /\ still[f] >= tracker[f].age \/ Unnoticed(f)
    BY <1>1, <2>1 DEF IInv, Known, Aged
  <2>3. PICK h \in Int, a \in Int, s \in Int :
           h = had[f][SizeOf[disk[f]]] /\ a = tracker[f].age /\ s = still[f]
    BY <1>3, <2>1 DEF IInv, DiskTyped, WatchTyped, Entry, NoTime
  <2>4. a >= Settle /\ h >= a /\ (s >= a \/ Unnoticed(f)) /\ Settle \in Int
    BY <2>1, <2>2, <2>3, IntakeAssumption
  <2>5. QED  BY <2>3, <2>4
<1>10. QED  BY <1>1, <1>4, <1>5, <1>6, <1>7, <1>8, <1>9 DEF IInv

(* The steps of the threads that do not touch the tracker.                   *)
Emission == EmitIfStill \/ \E f \in Files : EmitSettled(f) \/ SinkRaises(f)
Startup == Start \/ List \/ StartPoller \/ ScanEnds
Elsewhere == Manifest \/ InsertRaises \/ UNCHANGED vars

LEMMA OtherStep ==
  ASSUME IInv, Emission \/ Startup \/ Elsewhere
  PROVE  IInv' /\ ready' \subseteq ready
<1>1. UNCHANGED <<kind, disk, still, had, edits, tracker>> /\ ready' \subseteq ready
  BY DEF Emission, Startup, Elsewhere, Start, List, StartPoller, EmitIfStill, ScanEnds,
         EmitSettled, SinkRaises, Manifest, StartManifest, PollManifest, LoadManifest,
         FlagUnreadable, MarkGood, LookUp, Reload, InsertRow, ManifestScanned, InsertRaises,
         vars, world, watch
<1>2. noting' = noting \/ noting' = [noting EXCEPT !["main"] = Nothing]
  BY DEF Emission, Startup, Elsewhere, Start, List, StartPoller, EmitIfStill, ScanEnds,
         EmitSettled, SinkRaises, Manifest, StartManifest, PollManifest, LoadManifest,
         FlagUnreadable, MarkGood, LookUp, Reload, InsertRow, ManifestScanned, InsertRaises,
         vars, world, watch
<1>3. /\ events' = events \/ (events' = <<>> /\ poller' = "dead")
      /\ poller' = "dead" \/ poller # "dead"
  BY DEF Emission, Startup, Elsewhere, Start, List, StartPoller, EmitIfStill, ScanEnds,
         EmitSettled, SinkRaises, Manifest, StartManifest, PollManifest, LoadManifest,
         FlagUnreadable, MarkGood, LookUp, Reload, InsertRow, ManifestScanned, InsertRaises,
         vars, world, watch, IInv, Tended
<1>4. Tended'
  <2>1. CASE Start
    BY <1>1, <2>1 DEF Start, IInv, Tended
  <2>2. CASE List \/ StartPoller \/ ScanEnds
    BY <1>1, <2>2 DEF List, StartPoller, ScanEnds, IInv, Tended, watch
  <2>3. CASE Emission
    BY <1>1, <2>3 DEF Emission, EmitIfStill, EmitSettled, SinkRaises, IInv, Tended, world
  <2>4. CASE Elsewhere
    BY <1>1, <2>4
    DEF Elsewhere, Manifest, StartManifest, PollManifest, LoadManifest, FlagUnreadable, MarkGood,
        LookUp, Reload, InsertRow, ManifestScanned, InsertRaises, IInv, Tended, vars, watch,
        ManifestKinds
  <2>5. QED  BY <2>1, <2>2, <2>3, <2>4 DEF Startup
<1>5. \A th \in Threads : noting'[th] \in {noting[th], Nothing}
  BY <1>2 DEF IInv, WatchTyped
<1>6. WatchTyped' /\ DiskTyped'
  <2>1. <<>> \in Seq(Events)
    OBVIOUS
  <2>2. events' \in Seq(Events)
    BY <1>3, <2>1 DEF IInv, WatchTyped
  <2>3. noting' \in [Threads -> {Nothing} \cup Seen]
    BY <1>2 DEF IInv, WatchTyped
  <2>4. QED  BY <1>1, <2>2, <2>3 DEF IInv, WatchTyped, DiskTyped
<1>7. Known'
  BY <1>1, <1>5 DEF IInv, Known
<1>8. noting'["observer"] = noting["observer"]
  BY <1>2 DEF IInv, WatchTyped, Threads
<1>9. Aged'
  BY <1>1, <1>3, <1>8 DEF IInv, Aged, Unnoticed, Noting
<1>10. QED  BY <1>1, <1>4, <1>6, <1>7, <1>9 DEF IInv

(* With the service goes what it has tracked.                                *)
LEMMA StopStep ==
  ASSUME IInv, Stop
  PROVE  IInv' /\ ready' = {}
<1>1. /\ UNCHANGED <<kind, disk, still, had, edits>> /\ events' = <<>> /\ ready' = {}
      /\ main' = "down" /\ poller' = "off" /\ watching' = FALSE
      /\ noting' = [th \in Threads |-> Nothing] /\ tracker' = [f \in Files |-> Untracked]
  BY DEF Stop, world
<1>2. DiskTyped' /\ WatchTyped'
  BY <1>1, IntakeAssumption DEF IInv, DiskTyped, WatchTyped
<1>3. Tended' /\ Known' /\ Aged'
  BY <1>1 DEF IInv, Tended, Known, Aged
<1>4. QED  BY <1>1, <1>2, <1>3 DEF IInv

TakenSettled ==
  \A f \in ready' \ ready : /\ had[f][SizeOf[disk[f]]] >= Settle
                            /\ still[f] >= Settle \/ Unnoticed(f)

LEMMA IInvStep ==
  ASSUME IInv, [Next]_vars
  PROVE  IInv' /\ TakenSettled
<1>1. CASE User
  BY <1>1, EditStep DEF TakenSettled
<1>2. CASE Tick
  BY <1>2, TimeStep DEF TakenSettled
<1>3. CASE \E th \in Threads : NotePath(th)
  BY <1>3, NoteStep DEF TakenSettled
<1>4. CASE PollOnce
  BY <1>4, PollStep DEF TakenSettled
<1>5. CASE HandleEvent
  BY <1>5, ObserveStep DEF TakenSettled
<1>6. CASE \E f \in Files : ScanNext(f)
  BY <1>6, ScanStep DEF TakenSettled
<1>7. CASE Stop
  BY <1>7, StopStep DEF TakenSettled
<1>8. CASE Emission \/ Startup \/ Elsewhere
  BY <1>8, OtherStep DEF TakenSettled
<1>9. QED
  BY <1>1, <1>2, <1>3, <1>4, <1>5, <1>6, <1>7, <1>8
  DEF Next, Folder, Emission, Startup, Elsewhere

(* The poller takes a file only at a size it had settle_seconds ago, and,    *)
(* unless the observer is late for a change of it, only if nobody has        *)
(* written it for settle_seconds; whatever is written, renamed, noted and    *)
(* rescanned meanwhile (_poll_once).                                         *)
THEOREM TakenIsSettled == Spec => SettledOnly
<1>1. IInv /\ [Next]_vars => IInv'
  BY IInvStep
<1>2. IInv /\ [Next]_vars => [TakenSettled]_vars
  BY IInvStep
<1>3. QED  BY <1>1, <1>2, InitIInv, PTL DEF Spec, SettledOnly, TakenSettled
=============================================================================
