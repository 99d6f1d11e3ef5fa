--------------------------- MODULE Journal_proofs ---------------------------
(***************************************************************************)
(* For any packages, dependencies, commands and faults: the journal is     *)
(* written ahead, and a rollback restores the target or says that it did   *)
(* not.                                                                    *)
(***************************************************************************)
EXTENDS Journal, TLAPS

Working  == Pc \ {"idle", "rollback", "done"}
Unpacks  == {"install", "build", "unpack"}
Removals == {"remove", "purge"}

(* What a command was accepted for stays so until it takes the package.    *)
Fit(p) ==
    /\ cmd.name \in Unpacks => status[p] \in Present \cup Gone
    /\ cmd.name = "configure" => status[p] = "unpacked"
    /\ cmd.name = "deconfigure" => status[p] = "installed"
    /\ cmd.name \in Removals => status[p] \in Present \cup Half

(* The last line of the journal is about the package in hand.              *)
LastIs(U) ==
    /\ journal # <<>>
    /\ journal[Len(journal)].package = cur /\ journal[Len(journal)].undo \in U

(* What is known at each place of the command.                             *)
Place ==
    /\ cur \notin todo
    /\ pc = "idle" => cur = None /\ cmd = None
    /\ pc \in Working => cmd \in Command /\ \A p \in todo : Fit(p)
    /\ pc = "unpack" => status[cur] = original
    /\ pc \in {"unpack", "extract"} =>
          /\ cmd.name \in Unpacks /\ original \in Present \cup Gone
          /\ LastIs(IF original \in Present THEN {"downgrade"} ELSE {"purge"})
    /\ pc = "preconfigure" => cmd.name = "install" /\ LastIs({"deconfigure"})
    /\ pc \in {"preconfigure", "configure"} => status[cur] = "unpacked"
    /\ pc \in {"track", "postinst"} => status[cur] = "half_configured"
    /\ pc \in {"configure", "track"} => cmd.name = "configure" \/ LastIs(Undo)
    /\ pc = "postinst" => LastIs({"deconfigure"})
    /\ pc \in {"remove", "files"} => cmd.name \in Removals /\ LastIs({"unpack"})
    /\ pc = "remove" => status[cur] = original
    /\ pc = "deconfigure" =>
          /\ cmd.name = "deconfigure" /\ LastIs({"configure"})
          /\ status[cur] = "installed" /\ original = "installed"

PlaceInv == TypeOK /\ Place

-----------------------------------------------------------------------------
(* Sequences: what Append() and the loss of the last element do.           *)
LEMMA Appended ==
    ASSUME NEW S, NEW s \in Seq(S), NEW e \in S
    PROVE  /\ Append(s, e) \in Seq(S) /\ Len(Append(s, e)) = Len(s) + 1
           /\ DOMAIN Append(s, e) = 1..(Len(s) + 1) /\ DOMAIN s = 1..Len(s)
           /\ Len(s) \in Nat
           /\ \A i \in 1..Len(s) : Append(s, e)[i] = s[i]
           /\ Append(s, e)[Len(s) + 1] = e
           /\ Append(s, e) # <<>>
OBVIOUS

LEMMA Shortened ==
    ASSUME NEW S, NEW s \in Seq(S), s # <<>>
    PROVE  /\ SubSeq(s, 1, Len(s) - 1) \in Seq(S)
           /\ Len(s) \in Nat \ {0} /\ s[Len(s)] \in S
           /\ Len(SubSeq(s, 1, Len(s) - 1)) = Len(s) - 1
           /\ DOMAIN SubSeq(s, 1, Len(s) - 1) = 1..(Len(s) - 1)
           /\ DOMAIN s = 1..Len(s)
           /\ \A i \in 1..(Len(s) - 1) : SubSeq(s, 1, Len(s) - 1)[i] = s[i]
<1> DEFINE n == Len(s) - 1
           t == SubSeq(s, 1, n)
<1>1. Len(s) \in Nat \ {0} /\ DOMAIN s = 1..Len(s)
  OBVIOUS
<1>2. n \in Nat /\ n <= Len(s)
  BY <1>1
<1>3. t = [i \in 1..n |-> s[i]]
  OBVIOUS
<1>4. \A i \in 1..n : s[i] \in S
  BY <1>1, <1>2
<1> HIDE DEF n, t
<1>5. t \in [1..n -> S]
  BY <1>3, <1>4, Zenon
<1>6. t \in Seq(S) /\ Len(t) = n
  BY <1>2, <1>5
<1>7. DOMAIN t = 1..n /\ \A i \in 1..n : t[i] = s[i]
  BY <1>3, Zenon
<1> QED
  BY <1>1, <1>2, <1>6, <1>7 DEF n, t

LEMMA LineTyped ==
    ASSUME NEW u \in Undo, NEW p \in Package, NEW v \in Versions
    PROVE  [undo |-> u, package |-> p, version |-> v] \in Lines
BY DEF Lines

LEMMA FailedTyped == Failed \in Lines
BY DEF Lines

(* The line that track() appends is the last one.                          *)
LEMMA Tracked ==
    ASSUME TypeOK, NEW u \in Undo, NEW p \in Package, track(u, p)
    PROVE  /\ journal' \in Seq(Lines) /\ journal' # <<>>
           /\ Len(journal') = Len(journal) + 1
           /\ journal'[Len(journal')] =
                 [undo |-> u, package |-> p, version |-> version[p]]
           /\ \A i \in DOMAIN journal : i \in DOMAIN journal' /\ journal'[i] = journal[i]
<1>1. version[p] \in Versions /\ journal \in Seq(Lines)
  BY DEF TypeOK
<1>2. [undo |-> u, package |-> p, version |-> version[p]] \in Lines
  BY <1>1, LineTyped
<1> QED
  BY <1>1, <1>2, Appended DEF track

-----------------------------------------------------------------------------
LEMMA PlaceInit == ASSUME Init PROVE PlaceInv
<1>1. start \in Target
  BY StartAssumption DEF Init
<1>2. status \in [Package -> Status] /\ version \in [Package -> Versions]
  BY <1>1 DEF Init, Target, Status
<1>3. /\ errors \in BOOLEAN /\ plain \in BOOLEAN /\ marred \subseteq {"session", "rollback"}
      /\ start \in Start /\ listed \subseteq Package
  BY DEF Init
<1>4. /\ journal \in Seq(Lines) /\ count \in 0..Limit /\ pc \in Pc
      /\ cmd \in Command \cup {None} /\ todo \subseteq Package
      /\ cur \in Package \cup {None} /\ original \in Status
      /\ pc = "idle"
  BY LimitAssumption DEF Init, Pc, Status, Gone
<1>5. TypeOK
  BY <1>2, <1>3, <1>4 DEF TypeOK
<1>6. Place
  BY NoneAssumption DEF Init, Place, Working
<1> QED
  BY <1>5, <1>6 DEF PlaceInv

LEMMA PlaceBegin ==
    ASSUME PlaceInv, NEW c \in Command, Begin(c)
    PROVE  PlaceInv'
<1> USE DEF PlaceInv
<1>1. TypeOK'
  <2>1. plain' \in BOOLEAN
    BY DEF Begin
  <2>2. count' \in 0..Limit
    BY LimitAssumption DEF Begin, TypeOK
  <2>3. c.packages \subseteq Package
    BY CommandAssumption
  <2>4. listed' \subseteq Package /\ errors' \in BOOLEAN
    BY DEF Begin, Recorded
  <2> QED
    BY <2>1, <2>2, <2>3, <2>4 DEF Begin, TypeOK, Pc, target
<1>2. Place'
  BY NoneAssumption, CommandAssumption DEF Begin, Accepted, Quiet, TypeOK, Place, Fit, LastIs, Working, Unpacks, Removals, Pc, Status, Present, Gone, Half, Busy, target
<1> QED
  BY <1>1, <1>2

LEMMA PlaceStartUnpack ==
    ASSUME PlaceInv, StartUnpack
    PROVE  PlaceInv'
<1> USE DEF PlaceInv
<1>1. TypeOK'
  BY CommandAssumption DEF StartUnpack, Step, Set, session, TypeOK, Pc, Status, Present, Gone, Half, Busy, target
<1>2. Place'
  BY NoneAssumption, CommandAssumption DEF StartUnpack, Step, Set, session, TypeOK, Place, Fit, LastIs, Working, Unpacks, Removals, Pc, Status, Present, Gone, Half, Busy, target
<1> QED
  BY <1>1, <1>2

LEMMA PlaceUnpacked ==
    ASSUME PlaceInv, Unpacked
    PROVE  PlaceInv'
<1> USE DEF PlaceInv
<1>1. TypeOK'
  <2>1. cur \in Package
    BY DEF Unpacked, TypeOK, Pc
  <2>2. version' \in [Package -> Versions]
    BY <2>1 DEF Unpacked, TypeOK, Versions
  <2>3. status' \in [Package -> Status]
    BY <2>1 DEF Unpacked, TypeOK, Set, Status, Present
  <2>4. pc' \in {"configure", "next"} /\ pc = "extract"
    BY DEF Unpacked, Step
  <2> QED
    BY <2>1, <2>2, <2>3, <2>4 DEF Unpacked, Step, TypeOK, Pc, session
<1>2. Place'
  <2>1. cur \in Package /\ cur \notin todo /\ todo \subseteq Package
    BY DEF Unpacked, TypeOK, Pc, Place
  <2>2. status'[cur] = "unpacked" /\ \A p \in todo : status'[p] = status[p]
    BY <2>1 DEF Unpacked, TypeOK, Set
  <2>3. pc = "extract" /\ pc' \in {"configure", "next"}
    BY DEF Unpacked, Step
  <2>4. UNCHANGED <<journal, cur, todo, cmd, original>>
    BY DEF Unpacked, Step, session
  <2>5. cmd \in Command /\ cmd.name \in Unpacks /\ \A p \in todo : Fit(p)
    BY <2>3 DEF Place, Working, Pc
  <2>6. \A p \in todo' : Fit(p)'
    BY <2>2, <2>4, <2>5 DEF Fit
  <2>7. LastIs(Undo)'
    BY <2>3, <2>4 DEF Place, LastIs, Undo
  <2> QED
    BY <2>1, <2>2, <2>3, <2>4, <2>5, <2>6, <2>7 DEF Place, Working, Pc
<1> QED
  BY <1>1, <1>2

LEMMA PlaceStartConfigure ==
    ASSUME PlaceInv, StartConfigure
    PROVE  PlaceInv'
<1> USE DEF PlaceInv
<1>1. TypeOK'
  BY CommandAssumption DEF StartConfigure, Step, Set, session, TypeOK, Pc, Status, Present, Gone, Half, Busy, target
<1>2. Place'
  <2>1. cur \in Package /\ cur \notin todo /\ todo \subseteq Package
    BY DEF StartConfigure, TypeOK, Pc, Place
  <2>2. status'[cur] = "half_configured" /\ \A p \in todo : status'[p] = status[p]
    BY <2>1 DEF StartConfigure, TypeOK, Set
  <2>3. pc \in {"configure", "preconfigure"} /\ pc' = "track"
    BY DEF StartConfigure, Step
  <2>4. UNCHANGED <<journal, cur, todo, cmd, original>>
    BY DEF StartConfigure, Step, session
  <2>5. cmd \in Command /\ \A p \in todo : Fit(p)
    BY <2>3 DEF Place, Working, Pc
  <2>6. \A p \in todo' : Fit(p)'
    BY <2>2, <2>4, <2>5 DEF Fit
  <2>7. (cmd.name = "configure" \/ LastIs(Undo))'
    BY <2>3, <2>4 DEF Place, LastIs, Undo
  <2> QED
    BY <2>1, <2>2, <2>3, <2>4, <2>5, <2>6, <2>7 DEF Place, Working, Pc
<1> QED
  BY <1>1, <1>2

LEMMA PlaceConfigured ==
    ASSUME PlaceInv, Configured
    PROVE  PlaceInv'
<1> USE DEF PlaceInv
<1>1. TypeOK'
  BY CommandAssumption DEF Configured, Step, Set, session, TypeOK, Pc, Status, Present, Gone, Half, Busy, target
<1>2. Place'
  BY NoneAssumption, CommandAssumption DEF Configured, Step, Set, session, TypeOK, Place, Fit, LastIs, Working, Unpacks, Removals, Pc, Status, Present, Gone, Half, Busy, target
<1> QED
  BY <1>1, <1>2

LEMMA PlaceStartRemove ==
    ASSUME PlaceInv, StartRemove
    PROVE  PlaceInv'
<1> USE DEF PlaceInv
<1>1. TypeOK'
  BY CommandAssumption DEF StartRemove, Step, Set, session, TypeOK, Pc, Status, Present, Gone, Half, Busy, target
<1>2. Place'
  BY NoneAssumption, CommandAssumption DEF StartRemove, Step, Set, session, TypeOK, Place, Fit, LastIs, Working, Unpacks, Removals, Pc, Status, Present, Gone, Half, Busy, target
<1> QED
  BY <1>1, <1>2

LEMMA PlaceRemoved ==
    ASSUME PlaceInv, Removed
    PROVE  PlaceInv'
<1> USE DEF PlaceInv
<1>1. TypeOK'
  BY CommandAssumption DEF Removed, Step, Set, session, TypeOK, Pc, Status, Present, Gone, Half, Busy, target
<1>2. Place'
  BY NoneAssumption, CommandAssumption DEF Removed, Step, Set, session, TypeOK, Place, Fit, LastIs, Working, Unpacks, Removals, Pc, Status, Present, Gone, Half, Busy, target
<1> QED
  BY <1>1, <1>2

LEMMA PlaceDeconfigured ==
    ASSUME PlaceInv, Deconfigured
    PROVE  PlaceInv'
<1> USE DEF PlaceInv
<1>1. TypeOK'
  BY CommandAssumption DEF Deconfigured, Step, Set, session, TypeOK, Pc, Status, Present, Gone, Half, Busy, target
<1>2. Place'
  BY NoneAssumption, CommandAssumption DEF Deconfigured, Step, Set, session, TypeOK, Place, Fit, LastIs, Working, Unpacks, Removals, Pc, Status, Present, Gone, Half, Busy, target
<1> QED
  BY <1>1, <1>2

LEMMA PlaceCommandDone ==
    ASSUME PlaceInv, CommandDone
    PROVE  PlaceInv'
<1> USE DEF PlaceInv
<1>1. TypeOK'
  BY CommandAssumption DEF CommandDone, Over, Building, Fault, TypeOK, Pc, Status, Present, Gone, Half, Busy, target
<1>2. Place'
  BY NoneAssumption, CommandAssumption DEF CommandDone, Over, Building, Fault, TypeOK, Place, Fit, LastIs, Working, Unpacks, Removals, Pc, Status, Present, Gone, Half, Busy, target
<1> QED
  BY <1>1, <1>2

LEMMA PlaceUnpackFails ==
    ASSUME PlaceInv, UnpackFails
    PROVE  PlaceInv'
<1> USE DEF PlaceInv
<1>1. TypeOK'
  BY CommandAssumption DEF UnpackFails, Over, Building, Stop, Set, Fault, TypeOK, Pc, Status, Present, Gone, Half, Busy, target
<1>2. Place'
  BY NoneAssumption, CommandAssumption DEF UnpackFails, Over, Building, Stop, Set, Fault, TypeOK, Place, Fit, LastIs, Working, Unpacks, Removals, Pc, Status, Present, Gone, Half, Busy, target
<1> QED
  BY <1>1, <1>2

LEMMA PlaceRemoveFails ==
    ASSUME PlaceInv, RemoveFails
    PROVE  PlaceInv'
<1> USE DEF PlaceInv
<1>1. TypeOK'
  BY CommandAssumption DEF RemoveFails, Over, Building, Stop, Set, Fault, TypeOK, Pc, Status, Present, Gone, Half, Busy, target
<1>2. Place'
  BY NoneAssumption, CommandAssumption DEF RemoveFails, Over, Building, Stop, Set, Fault, TypeOK, Place, Fit, LastIs, Working, Unpacks, Removals, Pc, Status, Present, Gone, Half, Busy, target
<1> QED
  BY <1>1, <1>2

LEMMA PlaceCrash ==
    ASSUME PlaceInv, Crash
    PROVE  PlaceInv'
<1> USE DEF PlaceInv
<1>1. TypeOK'
  BY CommandAssumption DEF Crash, Over, Building, Fault, TypeOK, Pc, Status, Present, Gone, Half, Busy, target
<1>2. Place'
  BY NoneAssumption, CommandAssumption DEF Crash, Over, Building, Fault, TypeOK, Place, Fit, LastIs, Working, Unpacks, Removals, Pc, Status, Present, Gone, Half, Busy, target
<1> QED
  BY <1>1, <1>2

LEMMA PlaceStartRollback ==
    ASSUME PlaceInv, StartRollback
    PROVE  PlaceInv'
<1> USE DEF PlaceInv
<1>1. TypeOK'
  BY CommandAssumption DEF StartRollback, session, target, TypeOK, Pc, Status, Present, Gone, Half, Busy, target
<1>2. Place'
  BY NoneAssumption, CommandAssumption DEF StartRollback, session, target, TypeOK, Place, Fit, LastIs, Working, Unpacks, Removals, Pc, Status, Present, Gone, Half, Busy, target
<1> QED
  BY <1>1, <1>2

(* The actions that write a line.                                          *)
LEMMA PlaceTake ==
    ASSUME PlaceInv, NEW p \in todo, NEW label \in Working, Take(p, label),
           journal' \in Seq(Lines)
    PROVE  /\ TypeOK'
           /\ cur' = p /\ p \in Package /\ cur' \notin todo' /\ original' = status[p]
           /\ pc' = label /\ Fit(p)
           /\ UNCHANGED <<status, version, cmd>>
           /\ cmd \in Command /\ \A q \in todo' : Fit(q)'
<1> USE DEF PlaceInv
<1>1. p \in Package /\ todo \subseteq Package /\ status[p] \in Status
  BY DEF TypeOK
<1>2. pc = "next"
  BY DEF Take
<1>3. UNCHANGED <<status, version, cmd, listed, errors, count, start, plain, marred>>
  BY DEF Take, target
<1>4. cmd \in Command /\ \A q \in todo : Fit(q)
  BY <1>2 DEF Place, Working, Pc
<1>5. TypeOK'
  BY <1>1, <1>3 DEF Take, TypeOK, Working
<1>6. \A q \in todo' : Fit(q)'
  BY <1>3, <1>4 DEF Take, Fit
<1> QED
  BY <1>1, <1>2, <1>3, <1>4, <1>5, <1>6 DEF Take

LEMMA PlaceTakes ==
    ASSUME PlaceInv, NEW p \in todo,
           \/ TakeUnpack(p) \/ TakePreconfigure(p) \/ TakeConfigure(p)
           \/ TakeRemove(p) \/ TakeDeconfigure(p)
    PROVE  PlaceInv'
<1>0. TypeOK /\ p \in Package
  BY DEF PlaceInv, TypeOK
<1>1. CASE TakeUnpack(p)
  <2> DEFINE u == IF status[p] \in Present THEN "downgrade" ELSE "purge"
  <2>1. track(u, p) /\ Take(p, "unpack") /\ cmd.name \in Unpacks
    BY <1>1 DEF TakeUnpack, Unpacks
  <2>2. u \in Undo /\ "unpack" \in Working
    BY DEF Undo, Working, Pc
  <2> HIDE DEF u
  <2>3. /\ journal' \in Seq(Lines) /\ journal' # <<>>
        /\ journal'[Len(journal')] =
              [undo |-> u, package |-> p, version |-> version[p]]
    BY <1>0, <2>1, <2>2, Tracked
  <2>4. /\ TypeOK' /\ cur' = p /\ cur' \notin todo' /\ original' = status[p]
        /\ pc' = "unpack" /\ Fit(p) /\ UNCHANGED <<status, version, cmd>>
        /\ cmd \in Command /\ \A q \in todo' : Fit(q)'
    BY <2>1, <2>2, <2>3, PlaceTake
  <2>5. original' \in Present \cup Gone
    BY <2>1, <2>4 DEF Fit
  <2>6. journal' # <<>> /\ journal'[Len(journal')].package = cur'
        /\ journal'[Len(journal')].undo = u
    BY <2>3, <2>4
  <2>7. LastIs(IF original \in Present THEN {"downgrade"} ELSE {"purge"})'
    BY <2>4, <2>6 DEF LastIs, u
  <2> QED
    BY <2>1, <2>4, <2>5, <2>7 DEF PlaceInv, Place
<1>2. CASE TakePreconfigure(p)
  <2>1. track("deconfigure", p) /\ Take(p, "preconfigure") /\ cmd.name = "install"
        /\ status[p] = "unpacked"
    BY <1>2 DEF TakePreconfigure
  <2>2. "deconfigure" \in Undo /\ "preconfigure" \in Working
    BY DEF Undo, Working, Pc
  <2>3. /\ journal' \in Seq(Lines) /\ journal' # <<>>
        /\ journal'[Len(journal')] =
              [undo |-> "deconfigure", package |-> p, version |-> version[p]]
    BY <1>0, <2>1, <2>2, Tracked
  <2>4. /\ TypeOK' /\ cur' = p /\ cur' \notin todo' /\ original' = status[p]
        /\ pc' = "preconfigure" /\ Fit(p) /\ UNCHANGED <<status, version, cmd>>
        /\ cmd \in Command /\ \A q \in todo' : Fit(q)'
    BY <2>1, <2>2, <2>3, PlaceTake
  <2>6. LastIs({"deconfigure"})'
    BY <2>3, <2>4 DEF LastIs
  <2> QED
    BY <2>1, <2>4, <2>6 DEF PlaceInv, Place
<1>3. CASE TakeConfigure(p)
  <2>1. Take(p, "configure") /\ cmd.name = "configure" /\ UNCHANGED journal
    BY <1>3 DEF TakeConfigure
  <2>2. "configure" \in Working /\ journal' \in Seq(Lines)
    BY <1>0, <2>1 DEF Working, Pc, TypeOK
  <2>4. /\ TypeOK' /\ cur' = p /\ cur' \notin todo' /\ original' = status[p]
        /\ pc' = "configure" /\ Fit(p) /\ UNCHANGED <<status, version, cmd>>
        /\ cmd \in Command /\ \A q \in todo' : Fit(q)'
    BY <2>1, <2>2, PlaceTake
  <2>5. status'[cur'] = "unpacked"
    BY <2>1, <2>4 DEF Fit
  <2> QED
    BY <2>1, <2>4, <2>5 DEF PlaceInv, Place
<1>4. CASE TakeRemove(p)
  <2>1. track("unpack", p) /\ Take(p, "remove") /\ cmd.name \in Removals
    BY <1>4 DEF TakeRemove, Removals
  <2>2. "unpack" \in Undo /\ "remove" \in Working
    BY DEF Undo, Working, Pc
  <2>3. /\ journal' \in Seq(Lines) /\ journal' # <<>>
        /\ journal'[Len(journal')] =
              [undo |-> "unpack", package |-> p, version |-> version[p]]
    BY <1>0, <2>1, <2>2, Tracked
  <2>4. /\ TypeOK' /\ cur' = p /\ cur' \notin todo' /\ original' = status[p]
        /\ pc' = "remove" /\ Fit(p) /\ UNCHANGED <<status, version, cmd>>
        /\ cmd \in Command /\ \A q \in todo' : Fit(q)'
    BY <2>1, <2>2, <2>3, PlaceTake
  <2>6. LastIs({"unpack"})'
    BY <2>3, <2>4 DEF LastIs
  <2> QED
    BY <2>1, <2>4, <2>6 DEF PlaceInv, Place
<1>5. CASE TakeDeconfigure(p)
  <2>1. track("configure", p) /\ Take(p, "deconfigure") /\ cmd.name = "deconfigure"
    BY <1>5 DEF TakeDeconfigure
  <2>2. "configure" \in Undo /\ "deconfigure" \in Working
    BY DEF Undo, Working, Pc
  <2>3. /\ journal' \in Seq(Lines) /\ journal' # <<>>
        /\ journal'[Len(journal')] =
              [undo |-> "configure", package |-> p, version |-> version[p]]
    BY <1>0, <2>1, <2>2, Tracked
  <2>4. /\ TypeOK' /\ cur' = p /\ cur' \notin todo' /\ original' = status[p]
        /\ pc' = "deconfigure" /\ Fit(p) /\ UNCHANGED <<status, version, cmd>>
        /\ cmd \in Command /\ \A q \in todo' : Fit(q)'
    BY <2>1, <2>2, <2>3, PlaceTake
  <2>5. status[p] = "installed"
    BY <2>1, <2>4 DEF Fit
  <2>6. LastIs({"configure"})'
    BY <2>3, <2>4 DEF LastIs
  <2> QED
    BY <2>1, <2>4, <2>5, <2>6 DEF PlaceInv, Place
<1> QED
  BY <1>1, <1>2, <1>3, <1>4, <1>5

LEMMA PlaceTrackConfigure ==
    ASSUME PlaceInv, TrackConfigure
    PROVE  PlaceInv'
<1>0. TypeOK /\ Place /\ cur \in Package /\ pc = "track" /\ pc' = "postinst"
  BY DEF PlaceInv, TypeOK, TrackConfigure, Step, Pc
<1>1. UNCHANGED <<status, version, listed, errors, cmd, todo, cur, original, count, start,
                  plain, marred>>
  BY DEF TrackConfigure, Step, target, session
<1>2. "deconfigure" \in Undo
  BY DEF Undo
<1>3. /\ journal' \in Seq(Lines) /\ journal' # <<>>
      /\ journal'[Len(journal')] =
            [undo |-> "deconfigure", package |-> cur, version |-> version[cur]]
  BY <1>0, <1>2, Tracked DEF TrackConfigure
<1>4. TypeOK'
  BY <1>0, <1>1, <1>3 DEF TypeOK, Pc
<1>5. LastIs({"deconfigure"})'
  BY <1>1, <1>3 DEF LastIs
<1>6. \A p \in todo' : Fit(p)'
  BY <1>0, <1>1 DEF Place, Fit, Working, Pc
<1> QED
  BY <1>0, <1>1, <1>4, <1>5, <1>6 DEF PlaceInv, Place, Working, Pc

LEMMA PlaceConfigureFails ==
    ASSUME PlaceInv, ConfigureFails
    PROVE  PlaceInv'
<1> USE DEF PlaceInv
<1>1. journal' \in Seq(Lines)
  BY FailedTyped, Appended DEF ConfigureFails, TypeOK
<1>2. TypeOK'
  BY <1>1 DEF ConfigureFails, Over, Building, Stop, Fault, TypeOK, Pc, Status, Gone
<1>3. Place'
  BY NoneAssumption DEF ConfigureFails, Over, Building, Stop, TypeOK, Place, Working, Pc
<1> QED
  BY <1>2, <1>3

(* The rollback.                                                           *)
LEMMA PlaceRollback ==
    ASSUME PlaceInv, Rollback
    PROVE  PlaceInv'
<1> USE DEF PlaceInv
<1>1. pc = "rollback" /\ pc' \in {"rollback", "done"}
  BY DEF Rollback, ParseFails, RunLine, SkipLine, LineFails, RollbackDone, Running
<1>2. UNCHANGED <<cmd, todo, cur, original, count, start, plain>>
  BY DEF Rollback, ParseFails, RunLine, SkipLine, LineFails, RollbackDone, Running, session
<1>3. listed' \subseteq Package /\ errors' \in BOOLEAN
  BY DEF Rollback, ParseFails, RunLine, SkipLine, LineFails, RollbackDone, Running, TypeOK,
         ListedNow, Recorded
<1>4. marred' \subseteq {"session", "rollback"}
  BY DEF Rollback, ParseFails, RunLine, SkipLine, LineFails, RollbackDone, Running, TypeOK
<1>5. journal' \in Seq(Lines)
  <2>1. journal # <<>> => Others \in Seq(Lines)
    BY Shortened DEF TypeOK, Others
  <2> QED
    BY <2>1 DEF Rollback, ParseFails, RunLine, SkipLine, LineFails, RollbackDone, Running,
                TypeOK
<1>6. /\ status' \in [Package -> Status] /\ version' \in [Package -> Versions]
  <2>1. CASE RunLine
    <3> DEFINE l == LastLine
    <3>1. l \in Lines /\ l # Failed
      BY <2>1, Shortened DEF RunLine, Running, TypeOK, LastLine, HasFailedLine
    <3>2. l \in [undo: Undo, package: Package, version: Versions]
      BY <3>1 DEF Lines
    <3>3. Undone(l) \in Status
      BY <3>2 DEF Undone, Undo, Status, Gone, Present
    <3>4. /\ status' = [status EXCEPT ![l.package] = Undone(l)]
          /\ version' = [version EXCEPT ![l.package] =
                IF l.undo \in {"install", "unpack", "downgrade"} THEN l.version ELSE @]
      BY <2>1 DEF RunLine, Set
    <3> HIDE DEF l
    <3> QED
      BY <3>2, <3>3, <3>4 DEF TypeOK
  <2>2. CASE LineFails
    BY <2>2 DEF LineFails, Set, TypeOK, Status, Half
  <2> QED
    BY <2>1, <2>2 DEF Rollback, ParseFails, SkipLine, RollbackDone, TypeOK, target
<1>7. TypeOK'
  BY <1>1, <1>2, <1>3, <1>4, <1>5, <1>6 DEF TypeOK, Pc
<1>8. Place'
  BY <1>1, <1>2 DEF Place, Working, Pc
<1> QED
  BY <1>7, <1>8

LEMMA PlaceNext == ASSUME PlaceInv, [Next]_vars PROVE PlaceInv'
<1>1. CASE UNCHANGED vars
  BY <1>1 DEF PlaceInv, TypeOK, Place, Fit, LastIs, vars, target, session
<1>2. CASE \E c \in Command : Begin(c)
  BY <1>2, PlaceBegin
<1>3. CASE Session
  BY <1>3, PlaceTakes, PlaceStartUnpack, PlaceUnpacked, PlaceStartConfigure,
     PlaceTrackConfigure, PlaceConfigured, PlaceStartRemove, PlaceRemoved,
     PlaceDeconfigured, PlaceCommandDone, PlaceUnpackFails, PlaceConfigureFails,
     PlaceRemoveFails DEF Session, TakeOne
<1>4. CASE Crash
  BY <1>4, PlaceCrash
<1>5. CASE StartRollback
  BY <1>5, PlaceStartRollback
<1>6. CASE Rollback
  BY <1>6, PlaceRollback
<1> QED
  BY <1>1, <1>2, <1>3, <1>4, <1>5, <1>6 DEF Next

(* The variables have their types, whatever happens to the session.        *)
THEOREM TypeCorrect == Spec => []TypeOK
<1>1. Init => PlaceInv
  BY PlaceInit
<1>2. PlaceInv /\ [Next]_vars => PlaceInv'
  BY PlaceNext
<1>3. PlaceInv => TypeOK
  BY DEF PlaceInv
<1> QED
  BY <1>1, <1>2, <1>3, PTL DEF Spec

-----------------------------------------------------------------------------
(* What a step of a session does to the target and the journal: nothing,   *)
(* or a line is written for a package that is at hand, or it is marked     *)
(* failed, or the package in hand changes.                                 *)

(* The statuses of a package that the line for it is written at.           *)
CanWrite(u, s) ==
    /\ u = "purge" => s \in Gone
    /\ u = "downgrade" => s \in Present
    /\ u = "deconfigure" => s \in {"unpacked", "half_configured"}
    /\ u = "configure" => s = "installed"
    /\ u = "unpack" => s \in Present \cup Half
    /\ u # "install"

(* The statuses and versions of a package between a line, written at the   *)
(* status s and the version w, and the next one of the same package.       *)
Follows(u, w, s, t, v) ==
    /\ u = "purge" =>
          /\ v = w
          /\ t \in Gone \cup {"unpacking", "unpacked", "half_installed", "half_configured"}
    /\ u = "downgrade" =>
          t \in {s, "unpacking", "unpacked", "half_installed", "half_configured"}
    /\ u = "deconfigure" => v = w /\ t \in {"half_configured", "unpacked", "installed"}
    /\ u = "configure" =>
          v = w /\ t \in {"installed", "unpacked", "half_installed", "half_configured"}
    /\ u = "unpack" => v = w
    /\ u # "install"

Steady == UNCHANGED <<status, version, journal>>
Writes(u, p) ==
    /\ track(u, p)
    /\ CanWrite(u, status[p])
    /\ UNCHANGED <<status, version>>
Marks == journal' = Append(journal, Failed) /\ UNCHANGED <<status, version>>
Becomes(t, v) ==
    /\ status' = [status EXCEPT ![cur] = t]
    /\ version' = [version EXCEPT ![cur] = v]
    /\ UNCHANGED journal
MovesOn(t, v) ==
    /\ journal # <<>> /\ journal[Len(journal)].package = cur
    /\ journal[Len(journal)].undo = "downgrade" => pc \in {"unpack", "extract"}
    /\ Follows(journal[Len(journal)].undo, version[cur], original, t, v)
Moves(t, v) ==
    /\ cur \in Package /\ t \in Status /\ v \in Versions
    /\ Becomes(t, v)
    /\ \/ MovesOn(t, v)
       \/ status[cur] = "unpacked" /\ t = "half_configured" /\ v = version[cur]

Unpacking == pc \in {"unpack", "extract"}

Kinds ==
    \/ Steady /\ ~Unpacking'
    \/ \E u \in Undo, p \in Package : Writes(u, p) /\ (Unpacking' => original' = status[p])
    \/ Marks /\ ~Unpacking'
    \/ \E t \in Status, v \in Versions :
          Moves(t, v) /\ (Unpacking' => Unpacking /\ original' = original)

LEMMA KindOfTake ==
    ASSUME PlaceInv, NEW p \in todo,
           \/ TakeUnpack(p) \/ TakePreconfigure(p) \/ TakeConfigure(p)
           \/ TakeRemove(p) \/ TakeDeconfigure(p)
    PROVE  Kinds
<1>0. p \in Package /\ status[p] \in Status
  BY DEF PlaceInv, TypeOK
<1>t. ASSUME NEW label, Take(p, label)
      PROVE  /\ UNCHANGED <<status, version>> /\ original' = status[p] /\ pc' = label
             /\ Fit(p)
  BY <1>t DEF Take, target, PlaceInv, Place, Working, Pc
<1>1. CASE TakeUnpack(p)
  <2> DEFINE u == IF status[p] \in Present THEN "downgrade" ELSE "purge"
  <2>1. track(u, p) /\ Take(p, "unpack") /\ cmd.name \in Unpacks
    BY <1>1 DEF TakeUnpack, Unpacks
  <2>2. u \in Undo
    BY DEF Undo
  <2>3. CanWrite(u, status[p])
    BY <1>t, <2>1 DEF CanWrite, Fit
  <2> QED
    BY <1>0, <1>t, <2>1, <2>2, <2>3 DEF Kinds, Writes
<1>2. CASE TakePreconfigure(p)
  <2>1. track("deconfigure", p) /\ Take(p, "preconfigure") /\ status[p] = "unpacked"
    BY <1>2 DEF TakePreconfigure
  <2> QED
    BY <1>0, <1>t, <2>1 DEF Kinds, Writes, CanWrite, Undo
<1>3. CASE TakeConfigure(p)
  BY <1>3, <1>t DEF TakeConfigure, Kinds, Steady, Unpacking
<1>4. CASE TakeRemove(p)
  <2>1. track("unpack", p) /\ Take(p, "remove") /\ cmd.name \in Removals
    BY <1>4 DEF TakeRemove, Removals
  <2> QED
    BY <1>0, <1>t, <2>1 DEF Kinds, Writes, CanWrite, Undo, Fit
<1>5. CASE TakeDeconfigure(p)
  <2>1. track("configure", p) /\ Take(p, "deconfigure") /\ cmd.name = "deconfigure"
    BY <1>5 DEF TakeDeconfigure
  <2> QED
    BY <1>0, <1>t, <2>1 DEF Kinds, Writes, CanWrite, Undo, Fit
<1> QED
  BY <1>1, <1>2, <1>3, <1>4, <1>5

LEMMA KindOfMove ==
    ASSUME PlaceInv,
           \/ StartUnpack \/ Unpacked \/ StartConfigure \/ Configured \/ StartRemove
           \/ Removed \/ Deconfigured \/ UnpackFails \/ RemoveFails
    PROVE  Kinds
<1>0. TypeOK /\ Place /\ cur \in Package
  BY DEF PlaceInv, TypeOK, Pc, StartUnpack, Unpacked, StartConfigure, Configured, StartRemove,
         Removed, Deconfigured, UnpackFails, RemoveFails
<1>1. /\ status[cur] \in Status /\ version[cur] \in Versions /\ original \in Status
      /\ version = [version EXCEPT ![cur] = version[cur]]
  BY <1>0 DEF TypeOK
<1>m. ASSUME NEW t \in Status, NEW v \in Versions, Becomes(t, v),
             \/ MovesOn(t, v)
             \/ status[cur] = "unpacked" /\ t = "half_configured" /\ v = version[cur],
             Unpacking' => Unpacking /\ original' = original
      PROVE  Kinds
  BY <1>0, <1>m DEF Kinds, Moves
<1> USE DEF Status, Present, Gone, Half, Busy
<1>2. CASE StartUnpack
  <2>1. Becomes("unpacking", version[cur]) /\ MovesOn("unpacking", version[cur])
    BY <1>0, <1>1, <1>2 DEF StartUnpack, Becomes, MovesOn, Set, Place, LastIs, Follows
  <2>2. Unpacking /\ original' = original
    BY <1>2 DEF StartUnpack, Step, session, Unpacking
  <2> QED
    BY <1>1, <1>m, <2>1, <2>2
<1>3. CASE Unpacked
  <2> DEFINE v == IF original \in Present THEN 2 ELSE version[cur]
  <2>1. Becomes("unpacked", v) /\ v \in Versions
    BY <1>1, <1>3 DEF Unpacked, Becomes, Set, Versions
  <2>2. MovesOn("unpacked", v)
    BY <1>0, <1>1, <1>3 DEF Unpacked, MovesOn, Place, LastIs, Follows
  <2>3. ~Unpacking'
    BY <1>3 DEF Unpacked, Step, Unpacking
  <2> HIDE DEF v
  <2> QED
    BY <1>m, <2>1, <2>2, <2>3
<1>4. CASE StartConfigure
  <2>1. Becomes("half_configured", version[cur]) /\ status[cur] = "unpacked"
    BY <1>0, <1>1, <1>4 DEF StartConfigure, Becomes, Set, Place
  <2>2. ~Unpacking'
    BY <1>4 DEF StartConfigure, Step, Unpacking
  <2> QED
    BY <1>1, <1>m, <2>1, <2>2
<1>5. CASE Configured
  <2>1. Becomes("installed", version[cur]) /\ MovesOn("installed", version[cur])
    BY <1>0, <1>1, <1>5 DEF Configured, Becomes, MovesOn, Set, Place, LastIs, Follows
  <2>2. ~Unpacking'
    BY <1>5 DEF Configured, Step, Unpacking
  <2> QED
    BY <1>1, <1>m, <2>1, <2>2
<1>6. CASE StartRemove
  <2>1. PICK s \in {"half_installed", "removing"} : Set(cur, s)
    BY <1>6 DEF StartRemove
  <2>2. Becomes(s, version[cur]) /\ MovesOn(s, version[cur])
    BY <1>0, <1>1, <1>6, <2>1 DEF StartRemove, Becomes, MovesOn, Set, Place, LastIs, Follows
  <2>3. ~Unpacking'
    BY <1>6 DEF StartRemove, Step, Unpacking
  <2> QED
    BY <1>1, <1>m, <2>1, <2>2, <2>3
<1>7. CASE Removed
  <2>1. PICK s \in {"not_installed", "config_files"} : Set(cur, s)
    BY <1>7 DEF Removed
  <2>2. Becomes(s, version[cur]) /\ MovesOn(s, version[cur])
    BY <1>0, <1>1, <1>7, <2>1 DEF Removed, Becomes, MovesOn, Set, Place, LastIs, Follows
  <2>3. ~Unpacking'
    BY <1>7 DEF Removed, Step, Unpacking
  <2> QED
    BY <1>1, <1>m, <2>1, <2>2, <2>3
<1>8. CASE Deconfigured
  <2>1. Becomes("unpacked", version[cur]) /\ MovesOn("unpacked", version[cur])
    BY <1>0, <1>1, <1>8 DEF Deconfigured, Becomes, MovesOn, Set, Place, LastIs, Follows
  <2>2. ~Unpacking'
    BY <1>8 DEF Deconfigured, Step, Unpacking
  <2> QED
    BY <1>1, <1>m, <2>1, <2>2
<1>9. CASE UnpackFails
  <2>1. PICK s \in {original, "half_installed"} :
            Set(cur, IF s = "absent" THEN "not_installed" ELSE s)
    BY <1>9 DEF UnpackFails
  <2> DEFINE t == IF s = "absent" THEN "not_installed" ELSE s
  <2>2. t \in Status
    BY <1>1
  <2>3. Becomes(t, version[cur])
    BY <1>0, <1>1, <1>9, <2>1 DEF UnpackFails, Stop, Over, Becomes, Set
  <2>4. MovesOn(t, version[cur])
    BY <1>0, <1>9 DEF UnpackFails, MovesOn, Place, LastIs, Follows
  <2>5. ~Unpacking'
    BY <1>9 DEF UnpackFails, Stop, Over, Unpacking
  <2> HIDE DEF t
  <2> QED
    BY <1>1, <1>m, <2>2, <2>3, <2>4, <2>5
<1>10. CASE RemoveFails
  <2>1. PICK s \in {original, "half_installed"} : Set(cur, s)
    BY <1>10 DEF RemoveFails
  <2>2. Becomes(s, version[cur])
    BY <1>0, <1>1, <1>10, <2>1 DEF RemoveFails, Stop, Over, Becomes, Set
  <2>3. MovesOn(s, version[cur])
    BY <1>0, <1>10, <2>1 DEF RemoveFails, MovesOn, Place, LastIs, Follows
  <2>4. ~Unpacking'
    BY <1>10 DEF RemoveFails, Stop, Over, Unpacking
  <2>5. s \in Status
    BY <1>1, <2>1
  <2> QED
    BY <1>1, <1>m, <2>2, <2>3, <2>4, <2>5
<1> QED
  BY <1>2, <1>3, <1>4, <1>5, <1>6, <1>7, <1>8, <1>9, <1>10

(* Every step outside the rollback is of one of these kinds.               *)
LEMMA KindOfStep ==
    ASSUME PlaceInv, pc \notin {"rollback", "done"}, Next
    PROVE  Kinds /\ start' = start
<1>1. CASE \E c \in Command : Begin(c)
  BY <1>1 DEF Begin, target, Kinds, Steady, Unpacking
<1>2. CASE TakeOne
  <2>1. start' = start
    BY <1>2 DEF TakeOne, TakeUnpack, TakePreconfigure, TakeConfigure, TakeRemove,
                TakeDeconfigure, Take
  <2> QED
    BY <1>2, <2>1, KindOfTake DEF TakeOne
<1>3. CASE \/ StartUnpack \/ Unpacked \/ StartConfigure \/ Configured \/ StartRemove
           \/ Removed \/ Deconfigured \/ UnpackFails \/ RemoveFails
  <2>1. start' = start
    BY <1>3 DEF StartUnpack, Unpacked, StartConfigure, Configured, StartRemove,
                Removed, Deconfigured, UnpackFails, RemoveFails, Stop, Over, Step, session
  <2> QED
    BY <1>3, <2>1, KindOfMove
<1>4. CASE TrackConfigure
  <2>1. track("deconfigure", cur) /\ UNCHANGED <<status, version, start>> /\ pc' = "postinst"
        /\ status[cur] = "half_configured" /\ cur \in Package
    BY <1>4 DEF TrackConfigure, target, Step, session, PlaceInv, Place, TypeOK, Pc
  <2> QED
    BY <2>1 DEF Kinds, Writes, CanWrite, Undo, Unpacking
<1>5. CASE CommandDone \/ Crash \/ StartRollback
  BY <1>5 DEF CommandDone, Crash, StartRollback, Over, target, session, Kinds, Steady,
              Unpacking
<1>6. CASE ConfigureFails
  BY <1>6 DEF ConfigureFails, Stop, Over, Kinds, Steady, Marks, Unpacking
<1>7. ~Rollback
  BY DEF Rollback, ParseFails, RunLine, SkipLine, LineFails, RollbackDone, Running
<1> QED
  BY <1>1, <1>2, <1>3, <1>4, <1>5, <1>6, <1>7 DEF Next, Session

-----------------------------------------------------------------------------
(* A package without a line is what it was, version and all, but for one   *)
(* that --configure has in its hands.                                      *)
Untouched(p) ==
    /\ version[p] = start.version[p]
    /\ \/ status[p] = start.status[p]
       \/ status[p] = "half_configured" /\ start.status[p] = "unpacked"

AheadInv ==
    pc \notin {"rollback", "done"} => \A p \in Package : Journaled(p) \/ Untouched(p)

LEMMA JournaledStays ==
    ASSUME TypeOK, NEW l \in Lines, NEW p, Journaled(p), journal' = Append(journal, l)
    PROVE  Journaled(p)'
BY Appended DEF TypeOK, Journaled

LEMMA AheadNext ==
    ASSUME PlaceInv, AheadInv, [Next]_vars
    PROVE  AheadInv'
<1>1. SUFFICES ASSUME pc' \notin {"rollback", "done"}, NEW p \in Package
               PROVE  Journaled(p)' \/ Untouched(p)'
  BY DEF AheadInv
<1>2. TypeOK
  BY DEF PlaceInv
<1>3. pc \notin {"rollback", "done"}
  BY <1>1 DEF Next, vars, Begin, Session, TakeOne, TakeUnpack, TakePreconfigure, TakeConfigure,
     TakeRemove, TakeDeconfigure, Take, StartUnpack, Unpacked, StartConfigure,
     TrackConfigure, Configured, StartRemove, Removed, Deconfigured, CommandDone, UnpackFails,
     ConfigureFails, RemoveFails, Crash, StartRollback, Rollback, ParseFails, RunLine, SkipLine,
     LineFails, RollbackDone, Running
<1>4. Journaled(p) \/ Untouched(p)
  BY <1>3 DEF AheadInv
<1>5. CASE UNCHANGED vars
  BY <1>4, <1>5 DEF vars, target, session, Journaled, Untouched
<1>6. CASE Next
  <2>0. Kinds /\ start' = start
    BY <1>3, <1>6, KindOfStep
  <2>1. CASE Steady
    BY <1>4, <2>0, <2>1 DEF Steady, Journaled, Untouched
  <2>2. CASE Marks
    <3>1. Journaled(p) => Journaled(p)'
      BY <1>2, <2>2, JournaledStays, FailedTyped DEF Marks
    <3> QED
      BY <1>4, <2>0, <2>2, <3>1 DEF Marks, Untouched
  <2>3. ASSUME NEW u \in Undo, NEW q \in Package, Writes(u, q)
        PROVE  Journaled(p)' \/ Untouched(p)'
    <3>1. Journaled(p) => Journaled(p)'
      <4>1. [undo |-> u, package |-> q, version |-> version[q]] \in Lines
        BY <1>2, LineTyped DEF TypeOK
      <4> QED
        BY <1>2, <2>3, <4>1, JournaledStays DEF Writes, track
    <3> QED
      BY <1>4, <2>0, <2>3, <3>1 DEF Writes, Untouched
  <2>4. ASSUME NEW t \in Status, NEW v \in Versions, Moves(t, v)
        PROVE  Journaled(p)' \/ Untouched(p)'
    <3>1. Journaled(p) => Journaled(p)'
      BY <2>4 DEF Moves, Becomes, Journaled
    <3>2. CASE p # cur
      BY <1>2, <1>4, <2>0, <2>4, <3>1, <3>2 DEF Moves, Becomes, Untouched, TypeOK
    <3>3. CASE p = cur /\ MovesOn(t, v)
      <4>1. Len(journal) \in DOMAIN journal
        BY <1>2, <3>3 DEF MovesOn, TypeOK
      <4> QED
        BY <3>1, <3>3, <4>1 DEF MovesOn, Journaled
    <3>4. CASE p = cur /\ status[cur] = "unpacked" /\ t = "half_configured" /\ v = version[cur]
      <4>1. start.status[p] \in Present \cup Gone
        BY <1>2, StartAssumption DEF TypeOK, Target
      <4>2. status'[p] = "half_configured" /\ version'[p] = version[p]
        BY <1>2, <2>4, <3>4 DEF Moves, Becomes, TypeOK
      <4> QED
        BY <1>4, <2>0, <3>1, <3>4, <4>1, <4>2 DEF Untouched, Present, Gone
    <3> QED
      BY <2>4, <3>2, <3>3, <3>4 DEF Moves
  <2> QED
    BY <2>0, <2>1, <2>2, <2>3, <2>4 DEF Kinds
<1> QED
  BY <1>5, <1>6

(* Whenever a package is not what it was, and wpkg may die, the journal    *)
(* has a line for it.                                                      *)
THEOREM JournalIsAhead == Spec => []WriteAhead
<1>1. Init => PlaceInv /\ AheadInv
  <2>1. Init => AheadInv
    BY DEF Init, AheadInv, Untouched
  <2> QED
    BY <2>1, PlaceInit
<1>2. PlaceInv /\ AheadInv /\ [Next]_vars => PlaceInv' /\ AheadInv'
  BY PlaceNext, AheadNext
<1>3. AheadInv => WriteAhead
  BY DEF AheadInv, WriteAhead, Untouched, Same
<1> QED
  BY <1>1, <1>2, <1>3, PTL DEF Spec

-----------------------------------------------------------------------------
(* What the lines say of the target.  Each was written at a status of its  *)
(* package that the line before it for the same package leads to; the      *)
(* sequence of these statuses is at.  The journal does not hold it, but it *)
(* exists, and that is all the rollback needs.                             *)

(* A package the first lines say nothing of: as it was, or what a rollback *)
(* makes of it.                                                            *)
Origin(p, t, v) ==
    /\ v = start.version[p]
    /\ \/ t = start.status[p]
       \/ t = "not_installed" /\ start.status[p] \in Gone
       \/ /\ t \in {"unpacked", "half_configured"}
          /\ start.status[p] = "unpacked" \/ (start.status[p] = "installed" /\ p \in Source)

LastOf(p, n, k) ==
    /\ k \in 1..n /\ journal[k].package = p
    /\ \A i \in 1..n : i > k => journal[i].package # p

(* The first n lines lead p to the status t and the version v.             *)
Leads(at, n, p, t, v) ==
    /\ (\A i \in 1..n : journal[i].package # p) => Origin(p, t, v)
    /\ \A k \in 1..n : LastOf(p, n, k) =>
          Follows(journal[k].undo, journal[k].version, at[k], t, v)

Quietly == pc \in {"rollback", "done"} => ~errors /\ "rollback" \notin marred

Chain(at) ==
    /\ at \in [DOMAIN journal -> Status]
    /\ \A j \in DOMAIN journal : journal[j].package \in Package =>
          /\ CanWrite(journal[j].undo, at[j])
          /\ Leads(at, j - 1, journal[j].package, at[j], journal[j].version)
    /\ \A p \in Package : Leads(at, Len(journal), p, status[p], version[p])
    /\ Unpacking => at[Len(journal)] = original

(* Before a line was run, a package may be half-configured without one.    *)
Settled ==
    /\ journal = <<>>
    /\ pc \in {"rollback", "done"} \/ (pc = "next" /\ cmd.name = "build")
    => \A p \in Package : status[p] \notin Half

ChainInv == Quietly => Settled /\ \E at : Chain(at)

(* The lines of a prefix stay what they are when a line is added or lost.  *)
LEMMA LeadsSame ==
    ASSUME TypeOK, start' = start, NEW n \in Nat, NEW at, NEW to, NEW p, NEW t, NEW v,
           \A i \in 1..n : journal'[i] = journal[i] /\ to[i] = at[i]
    PROVE  Leads(at, n, p, t, v) <=> Leads(to, n, p, t, v)'
<1>1. \A k \in 1..n : LastOf(p, n, k) <=> LastOf(p, n, k)'
  BY DEF LastOf
<1>2. Origin(p, t, v) <=> Origin(p, t, v)'
  BY DEF Origin
<1> QED
  BY <1>1, <1>2 DEF Leads

LEMMA FollowsSelf ==
    ASSUME NEW u \in Undo, NEW s, NEW v, CanWrite(u, s)
    PROVE  Follows(u, v, s, s, v)
BY DEF CanWrite, Follows, Present, Gone, Undo

(* A line is added: the lines before it are what they were, and those of   *)
(* other packages still lead to what these packages are.                   *)
LEMMA ChainLonger ==
    ASSUME TypeOK, NEW at, Chain(at), start' = start, NEW l \in Lines,
           journal' = Append(journal, l), UNCHANGED <<status, version>>,
           NEW s \in Status, Unpacking' => original' = s,
           l.package \in Package =>
              /\ s = status[l.package] /\ l.version = version[l.package]
              /\ l.undo \in Undo /\ CanWrite(l.undo, s)
    PROVE  \E to : Chain(to)'
<1>n. PICK n \in Nat : n = Len(journal)
  BY DEF TypeOK
<1>1. /\ journal' \in Seq(Lines) /\ Len(journal') = n + 1 /\ n \in Nat
      /\ DOMAIN journal' = 1..(n + 1) /\ DOMAIN journal = 1..n
      /\ \A i \in 1..n : journal'[i] = journal[i]
      /\ journal'[n + 1] = l
  BY <1>n, Appended DEF TypeOK
<1>2. PICK to \in [1..(n + 1) -> Status] :
          to[n + 1] = s /\ \A i \in 1..n : to[i] = at[i]
  <2> DEFINE f == [i \in 1..(n + 1) |-> IF i <= n THEN at[i] ELSE s]
  <2>1. f \in [1..(n + 1) -> Status] /\ f[n + 1] = s /\ \A i \in 1..n : f[i] = at[i]
    BY <1>1 DEF Chain
  <2> QED
    BY <2>1
<1>3. ASSUME NEW k \in 0..n, NEW p, NEW t, NEW v
      PROVE  Leads(at, k, p, t, v) <=> Leads(to, k, p, t, v)'
  <2>1. k \in Nat /\ \A i \in 1..k : journal'[i] = journal[i] /\ to[i] = at[i]
    BY <1>1, <1>2
  <2> QED
    BY <2>1, LeadsSame
<1>4. ASSUME NEW j \in 1..(n + 1), journal'[j].package \in Package
      PROVE  /\ CanWrite(journal'[j].undo, to[j])
             /\ Leads(to, j - 1, journal[j].package, to[j], journal[j].version)'
  <2>1. CASE j \in 1..n
    <3>1. /\ CanWrite(journal[j].undo, at[j])
          /\ Leads(at, j - 1, journal[j].package, at[j], journal[j].version)
      BY <1>1, <1>4, <2>1 DEF Chain
    <3>2. journal'[j] = journal[j] /\ to[j] = at[j] /\ j - 1 \in 0..n
      BY <1>1, <1>2, <2>1
    <3>3. PICK q, v : q = journal[j].package /\ v = journal[j].version
      OBVIOUS
    <3>4. Leads(to, j - 1, q, to[j], v)'
      BY <1>3, <3>1, <3>2, <3>3
    <3>5. q = journal'[j].package /\ v = journal'[j].version
      BY <3>2, <3>3
    <3> QED
      BY <3>1, <3>2, <3>4, <3>5 DEF Leads, LastOf
  <2>2. CASE j = n + 1
    <3>1. Leads(at, n, l.package, s, l.version)
      BY <1>1, <1>4, <1>n, <2>2 DEF Chain
    <3>2. j - 1 = n /\ n \in 0..n
      BY <1>1, <2>2
    <3>3. Leads(to, n, l.package, s, l.version)'
      BY <1>3, <3>1, <3>2
    <3>4. CanWrite(l.undo, s)
      BY <1>1, <1>4, <2>2
    <3> QED
      BY <1>1, <1>2, <2>2, <3>2, <3>3, <3>4 DEF Leads, LastOf
  <2> QED
    BY <1>1, <2>1, <2>2
<1>5. ASSUME NEW p \in Package
      PROVE  Leads(to, Len(journal), p, status[p], version[p])'
  <2>1. PICK t, v : t = status[p] /\ v = version[p]
    OBVIOUS
  <2>2. Leads(at, n, p, t, v)
    BY <1>n, <2>1 DEF Chain
  <2>3. status'[p] = t /\ version'[p] = v
    BY <2>1
  <2>4. Leads(to, n + 1, p, t, v)'
    <3>1. CASE l.package = p
      <4>1. \A k \in 1..(n + 1) : LastOf(p, n + 1, k)' => k = n + 1
        BY <1>1, <3>1 DEF LastOf
      <4>2. Follows(l.undo, l.version, s, t, v)
        BY <2>1, <3>1, FollowsSelf
      <4>3. n + 1 \in 1..(n + 1) /\ journal'[n + 1].package = p
        BY <1>1, <3>1
      <4> QED
        BY <1>1, <1>2, <4>1, <4>2, <4>3 DEF Leads
    <3>2. CASE l.package # p
      <4>1. \A k \in 1..(n + 1) : LastOf(p, n + 1, k)' => k \in 1..n /\ LastOf(p, n, k)
        <5> SUFFICES ASSUME NEW k \in 1..(n + 1), LastOf(p, n + 1, k)'
                     PROVE  k \in 1..n /\ LastOf(p, n, k)
          OBVIOUS
        <5>1. journal'[k].package = p
          BY DEF LastOf
        <5>2. k \in 1..n
          BY <1>1, <3>2, <5>1
        <5> QED
          BY <1>1, <5>2 DEF LastOf
      <4>2. (\A i \in 1..(n + 1) : journal'[i].package # p)
               => \A i \in 1..n : journal[i].package # p
        BY <1>1
      <4>3. Origin(p, t, v) => Origin(p, t, v)'
        BY DEF Origin
      <4> QED
        BY <1>1, <1>2, <2>2, <4>1, <4>2, <4>3 DEF Leads
    <3> QED
      BY <3>1, <3>2
  <2> QED
    BY <1>1, <2>3, <2>4 DEF Leads, LastOf, Origin
<1>6. Unpacking' => to[Len(journal')] = original'
  BY <1>1, <1>2
<1>7. \A j \in DOMAIN journal' : journal'[j].package \in Package =>
          /\ CanWrite(journal'[j].undo, to[j])
          /\ Leads(to, j - 1, journal[j].package, to[j], journal[j].version)'
  BY <1>1, <1>4
<1>8. Chain(to)'
  BY <1>1, <1>2, <1>5, <1>6, <1>7 DEF Chain
<1> QED
  BY <1>8

(* The package in hand changes: its last line leads to what it becomes.    *)
LEMMA ChainMoves ==
    ASSUME PlaceInv, NEW at, Chain(at), start' = start, NEW t \in Status, NEW v \in Versions,
           Moves(t, v), Unpacking' => Unpacking /\ original' = original
    PROVE  Chain(at)'
<1>n. PICK n \in Nat : n = Len(journal)
  BY DEF PlaceInv, TypeOK
<1>1. TypeOK /\ cur \in Package /\ journal' = journal /\ n \in Nat /\ DOMAIN journal = 1..n
  BY <1>n DEF PlaceInv, TypeOK, Moves, Becomes
<1>2. \A p \in Package : p # cur => status'[p] = status[p] /\ version'[p] = version[p]
  BY <1>1 DEF Moves, Becomes, TypeOK
<1>3. status'[cur] = t /\ version'[cur] = v
  BY <1>1 DEF Moves, Becomes, TypeOK
<1>4. Leads(at, n, cur, status[cur], version[cur])
  BY <1>1, <1>n DEF Chain
<1>5. Leads(at, n, cur, t, v)
  <2>1. CASE MovesOn(t, v)
    <3>1. n \in 1..n /\ journal[n].package = cur
      BY <1>1, <1>n, <2>1 DEF MovesOn, TypeOK
    <3>2. LastOf(cur, n, n) /\ \A k \in 1..n : LastOf(cur, n, k) => k = n
      <4>1. LastOf(cur, n, n)
        BY <1>1, <3>1 DEF LastOf
      <4>2. ASSUME NEW k \in 1..n, LastOf(cur, n, k), k # n
            PROVE  FALSE
        <5>1. n > k
          BY <1>1, <4>2
        <5> QED
          BY <3>1, <4>2, <5>1 DEF LastOf
      <4> QED
        BY <4>1, <4>2
    <3>3. Follows(journal[n].undo, journal[n].version, at[n], status[cur], version[cur])
      BY <1>4, <3>1, <3>2 DEF Leads
    <3>4. journal[n] \in Lines
      BY <1>1, <3>1 DEF TypeOK
    <3>5. journal[n].undo \in Undo
      BY <1>1, <3>1, <3>4, NoneAssumption DEF Lines, Failed
    <3>6. journal[n].undo = "downgrade" => at[n] = original
      BY <1>n, <2>1 DEF MovesOn, Chain, Unpacking
    <3>7. Follows(journal[n].undo, version[cur], original, t, v)
      BY <1>n, <2>1 DEF MovesOn
    <3>8. Follows(journal[n].undo, journal[n].version, at[n], t, v)
      BY <3>3, <3>5, <3>6, <3>7 DEF Follows, Undo
    <3> QED
      BY <3>1, <3>2, <3>8 DEF Leads
  <2>2. CASE status[cur] = "unpacked" /\ t = "half_configured" /\ v = version[cur]
    <3>1. Origin(cur, status[cur], version[cur]) => Origin(cur, t, v)
      BY <1>1, <2>2, StartAssumption DEF Origin, TypeOK, Target, Present, Gone
    <3>2. \A u, w, s : Follows(u, w, s, status[cur], version[cur]) => Follows(u, w, s, t, v)
      BY <2>2 DEF Follows, Gone
    <3> QED
      BY <1>4, <3>1, <3>2 DEF Leads
  <2> QED
    BY <2>1, <2>2 DEF Moves
<1>6. ASSUME NEW k, NEW p, NEW s, NEW w, Leads(at, k, p, s, w)
      PROVE  Leads(at, k, p, s, w)'
  BY <1>1, <1>6 DEF Leads, LastOf, Origin
<1>7. ASSUME NEW p \in Package
      PROVE  Leads(at, Len(journal), p, status[p], version[p])'
  <2>1. PICK s, w : s = status'[p] /\ w = version'[p]
    OBVIOUS
  <2>2. Leads(at, n, p, s, w)
    <3>1. CASE p = cur
      BY <1>3, <1>5, <2>1, <3>1
    <3>2. CASE p # cur
      BY <1>2, <1>n, <2>1, <3>2 DEF Chain
    <3> QED
      BY <3>1, <3>2
  <2>3. Leads(at, n, p, s, w)'
    BY <1>6, <2>2
  <2> QED
    BY <1>1, <1>n, <2>1, <2>3 DEF Leads, LastOf, Origin
<1>8. ASSUME NEW j \in DOMAIN journal, journal[j].package \in Package
      PROVE  Leads(at, j - 1, journal[j].package, at[j], journal[j].version)'
  BY <1>1, <1>8 DEF Chain, Leads, LastOf, Origin
<1>9. Unpacking' => at[Len(journal')] = original'
  BY <1>1 DEF Chain
<1>10. at \in [DOMAIN journal' -> Status]
  BY <1>1 DEF Chain
<1>11. \A j \in DOMAIN journal' : journal'[j].package \in Package =>
          /\ CanWrite(journal'[j].undo, at[j])
          /\ Leads(at, j - 1, journal[j].package, at[j], journal[j].version)'
  BY <1>1, <1>8 DEF Chain
<1> QED
  BY <1>7, <1>9, <1>10, <1>11 DEF Chain

LEMMA ChainKind ==
    ASSUME PlaceInv, NEW at, Chain(at), Kinds, start' = start
    PROVE  \E to : Chain(to)'
<1>1. TypeOK
  BY DEF PlaceInv
<1>2. CASE Steady /\ ~Unpacking'
  <2>1. Chain(at)'
    BY <1>2 DEF Steady, Chain, Leads, LastOf, Origin
  <2> QED
    BY <2>1
<1>3. CASE Marks /\ ~Unpacking'
  <2>1. "absent" \in Status /\ Failed \in Lines /\ Failed.package \notin Package
    BY FailedTyped, NoneAssumption DEF Status, Gone, Failed
  <2> QED
    BY <1>1, <1>3, <2>1, ChainLonger DEF Marks
<1>4. ASSUME NEW u \in Undo, NEW p \in Package, Writes(u, p), Unpacking' => original' = status[p]
      PROVE  \E to : Chain(to)'
  <2> DEFINE l == [undo |-> u, package |-> p, version |-> version[p]]
  <2>1. l \in Lines /\ status[p] \in Status
    BY <1>1, LineTyped DEF TypeOK
  <2>2. journal' = Append(journal, l) /\ UNCHANGED <<status, version>> /\ CanWrite(u, status[p])
    BY <1>4 DEF Writes, track
  <2>3. l.undo = u /\ l.package = p /\ l.version = version[p]
    OBVIOUS
  <2> HIDE DEF l
  <2> QED
    BY <1>1, <1>4, <2>1, <2>2, <2>3, ChainLonger
<1>5. ASSUME NEW t \in Status, NEW v \in Versions, Moves(t, v),
             Unpacking' => Unpacking /\ original' = original
      PROVE  \E to : Chain(to)'
  BY <1>5, ChainMoves
<1> QED
  BY <1>2, <1>3, <1>4, <1>5 DEF Kinds
(* A line that is run gives its package the status it was written at, or   *)
(* one that is as good to the lines before it.                             *)
LEMMA UndoneFits ==
    ASSUME TypeOK, NEW l \in [undo: Undo, package: Package, version: Versions], NEW s,
           CanWrite(l.undo, s), Valid(l),
           Follows(l.undo, l.version, s, status[l.package], version[l.package])
    PROVE  /\ l.undo \notin {"install", "unpack", "downgrade"}
                 => version[l.package] = l.version
           /\ \A u, w, r : CanWrite(u, r) /\ Follows(u, w, r, s, l.version)
                 => Follows(u, w, r, Undone(l), l.version)
           /\ Origin(l.package, s, l.version) => Origin(l.package, Undone(l), l.version)
<1>1. start.status[l.package] \in Present \cup Gone
  BY StartAssumption DEF TypeOK, Target
<1>2. CASE l.undo = "purge"
  <2>1. Undone(l) = "not_installed" /\ s \in Gone /\ version[l.package] = l.version
    BY <1>2 DEF Undone, CanWrite, Follows
  <2> QED
    BY <1>1, <1>2, <2>1 DEF Follows, CanWrite, Origin, Gone, Present
<1>3. CASE l.undo = "downgrade"
  <2>1. status[l.package] \in Gone \cup {"installed"}
    BY <1>3 DEF Valid, Restorable
  <2>2. status[l.package] = s
    BY <1>3, <2>1 DEF Follows, Gone
  <2>3. Undone(l) = s
    BY <1>3, <2>1, <2>2 DEF Undone, CanWrite, Present, Gone
  <2> QED
    BY <1>3, <2>3
<1>4. CASE l.undo = "deconfigure"
  <2>1. /\ Undone(l) = "unpacked" /\ version[l.package] = l.version
        /\ s \in {"unpacked", "half_configured"}
    BY <1>4 DEF Undone, CanWrite, Follows
  <2> QED
    BY <1>1, <1>4, <2>1 DEF Follows, CanWrite, Origin, Gone, Present
<1>5. CASE l.undo = "configure"
  BY <1>5 DEF Undone, CanWrite, Follows
<1>6. CASE l.undo = "unpack"
  <2>1. Undone(l) = "unpacked" /\ s \in Present \cup Half /\ l.package \in Source
    BY <1>6 DEF Undone, CanWrite, Valid, Restorable
  <2> QED
    BY <1>1, <1>6, <2>1 DEF Follows, CanWrite, Origin, Gone, Present, Half
<1> QED
  BY <1>2, <1>3, <1>4, <1>5, <1>6 DEF Undo, CanWrite

LEMMA ChainRunLine ==
    ASSUME PlaceInv, NEW at, Chain(at), RunLine
    PROVE  (\E to : Chain(to)') /\ \A p \in Package : status'[p] \notin Half
<1>0. TypeOK /\ start' = start /\ pc = "rollback" /\ pc' = "rollback"
  BY DEF PlaceInv, RunLine, Running, session
<1>n. PICK n \in Nat : n = Len(journal)
  BY <1>0 DEF TypeOK
<1>1. /\ n # 0 /\ journal' \in Seq(Lines) /\ Len(journal') = n - 1
      /\ DOMAIN journal' = 1..(n - 1) /\ DOMAIN journal = 1..n
      /\ \A i \in 1..(n - 1) : journal'[i] = journal[i]
      /\ journal[n] \in Lines
  BY <1>0, <1>n, Shortened DEF RunLine, Running, Others, TypeOK
<1>2. PICK l \in [undo: Undo, package: Package, version: Versions] : l = journal[n]
  <2>1. journal[n] # Failed
    BY <1>1 DEF RunLine, Running, HasFailedLine
  <2> QED
    BY <1>1, <2>1 DEF Lines
<1>3. PICK p \in Package : p = l.package
  OBVIOUS
<1>4. Valid(l) /\ status' = [status EXCEPT ![p] = Undone(l)]
      /\ version' = [version EXCEPT ![p] =
            IF l.undo \in {"install", "unpack", "downgrade"} THEN l.version ELSE @]
  BY <1>n, <1>2, <1>3 DEF RunLine, LastLine, Set
<1>5. CanWrite(l.undo, at[n]) /\ Leads(at, n - 1, p, at[n], l.version)
  BY <1>1, <1>2, <1>3 DEF Chain
<1>6. Follows(l.undo, l.version, at[n], status[p], version[p])
  <2>1. LastOf(p, n, n)
    BY <1>1, <1>2, <1>3 DEF LastOf
  <2>2. Leads(at, n, p, status[p], version[p]) /\ n \in 1..n
    BY <1>1, <1>n DEF Chain
  <2> QED
    BY <1>2, <2>1, <2>2 DEF Leads
<1>7. PICK t, v : t = Undone(l) /\ v = l.version
  OBVIOUS
<1>8. /\ l.undo \notin {"install", "unpack", "downgrade"} => version[p] = v
      /\ \A u, w, r : CanWrite(u, r) /\ Follows(u, w, r, at[n], v) => Follows(u, w, r, t, v)
      /\ Origin(p, at[n], v) => Origin(p, t, v)
  BY <1>0, <1>3, <1>4, <1>5, <1>6, <1>7, UndoneFits
<1>9. /\ status'[p] = t /\ version'[p] = v
      /\ \A q \in Package : q # p => status'[q] = status[q] /\ version'[q] = version[q]
  BY <1>0, <1>4, <1>7, <1>8 DEF TypeOK
<1>10. Leads(at, n - 1, p, t, v)
  <2>1. \A k \in 1..(n - 1) : LastOf(p, n - 1, k) => CanWrite(journal[k].undo, at[k])
    BY <1>1 DEF LastOf, Chain
  <2> QED
    BY <1>5, <1>7, <1>8, <2>1 DEF Leads
<1>11. ASSUME NEW q \in Package, q # p, NEW s, NEW w, Leads(at, n, q, s, w)
       PROVE  Leads(at, n - 1, q, s, w)
  <2>1. (\A i \in 1..(n - 1) : journal[i].package # q) => \A i \in 1..n : journal[i].package # q
    BY <1>1, <1>2, <1>3, <1>11
  <2>2. ASSUME NEW k \in 1..(n - 1), LastOf(q, n - 1, k)
        PROVE  k \in 1..n /\ LastOf(q, n, k)
    BY <1>1, <1>2, <1>3, <1>11, <2>2 DEF LastOf
  <2> QED
    BY <1>11, <2>1, <2>2 DEF Leads
<1>12. PICK to \in [1..(n - 1) -> Status] : \A i \in 1..(n - 1) : to[i] = at[i]
  <2> DEFINE f == [i \in 1..(n - 1) |-> at[i]]
  <2>1. f \in [1..(n - 1) -> Status] /\ \A i \in 1..(n - 1) : f[i] = at[i]
    BY <1>1 DEF Chain
  <2> QED
    BY <2>1
<1>13. ASSUME NEW k \in 0..(n - 1), NEW q, NEW s, NEW w, Leads(at, k, q, s, w)
       PROVE  Leads(to, k, q, s, w)'
  <2>1. k \in Nat /\ \A i \in 1..k : journal'[i] = journal[i] /\ to[i] = at[i]
    BY <1>1, <1>12
  <2> QED
    BY <1>0, <1>13, <2>1, LeadsSame
<1>14. ASSUME NEW q \in Package
       PROVE  Leads(to, Len(journal), q, status[q], version[q])'
  <2>1. PICK s, w : s = status'[q] /\ w = version'[q]
    OBVIOUS
  <2>2. Leads(at, n - 1, q, s, w)
    <3>1. CASE q = p
      BY <1>9, <1>10, <2>1, <3>1
    <3>2. CASE q # p
      BY <1>9, <1>11, <1>n, <2>1, <3>2 DEF Chain
    <3> QED
      BY <3>1, <3>2
  <2>3. Leads(to, n - 1, q, s, w)'
    BY <1>1, <1>13, <2>2
  <2> QED
    BY <1>1, <2>1, <2>3 DEF Leads, LastOf, Origin
<1>15. ASSUME NEW j \in 1..(n - 1), journal'[j].package \in Package
       PROVE  /\ CanWrite(journal'[j].undo, to[j])
              /\ Leads(to, j - 1, journal[j].package, to[j], journal[j].version)'
  <2>1. PICK q, w : q = journal[j].package /\ w = journal[j].version
    OBVIOUS
  <2>2. journal'[j] = journal[j] /\ to[j] = at[j] /\ j - 1 \in 0..(n - 1) /\ j \in 1..n
    BY <1>1, <1>12
  <2>3. CanWrite(journal[j].undo, at[j]) /\ Leads(at, j - 1, q, at[j], w)
    BY <1>1, <1>15, <2>1, <2>2 DEF Chain
  <2>4. Leads(to, j - 1, q, to[j], w)'
    BY <1>13, <2>2, <2>3
  <2> QED
    BY <2>1, <2>2, <2>3, <2>4 DEF Leads, LastOf
<1>16. Chain(to)'
  BY <1>0, <1>1, <1>14, <1>15 DEF Chain, Unpacking
<1>17. \A q \in Package : status'[q] \notin Half
  <2>1. t \notin Half
    BY <1>7 DEF Undone, Undo, Half
  <2>2. \A q \in Package : q # p => status[q] \notin Half
    BY <1>3, <1>4 DEF Valid, Removable, Restorable, QuietBut, Quiet, Undo
  <2> QED
    BY <1>9, <2>1, <2>2
<1> QED
  BY <1>16, <1>17

LEMMA SettledNext ==
    ASSUME PlaceInv, Settled, pc \notin {"rollback", "done"}, Next
    PROVE  Settled'
<1>1. TypeOK
  BY DEF PlaceInv
<1>2. \A l : journal' = Append(journal, l) => journal' # <<>>
  BY <1>1 DEF TypeOK
<1>3. CASE \E c \in Command : Begin(c)
  BY <1>3 DEF Begin, Accepted, Quiet, Settled, target
<1>4. CASE TakeOne
  <2>1. PICK p \in todo : TakeUnpack(p) \/ TakePreconfigure(p) \/ TakeConfigure(p)
                       \/ TakeRemove(p) \/ TakeDeconfigure(p)
    BY <1>4 DEF TakeOne
  <2>2. pc' \notin {"rollback", "done", "next"}
    BY <2>1 DEF TakeUnpack, TakePreconfigure, TakeConfigure, TakeRemove, TakeDeconfigure, Take
  <2> QED
    BY <2>2 DEF Settled
<1>5. CASE StartUnpack \/ StartConfigure \/ TrackConfigure \/ StartRemove
  BY <1>5 DEF StartUnpack, StartConfigure, TrackConfigure, StartRemove, Step, Settled
<1>6. CASE Unpacked \/ Configured \/ Removed \/ Deconfigured
  BY <1>6 DEF PlaceInv, Place, LastIs, Unpacked, Configured, Removed, Deconfigured, Settled
<1>7. CASE CommandDone
  BY <1>7 DEF CommandDone, Over, Building, Settled
<1>8. CASE UnpackFails \/ RemoveFails
  BY <1>8 DEF PlaceInv, Place, LastIs, UnpackFails, RemoveFails, Settled
<1>9. CASE ConfigureFails
  BY <1>2, <1>9 DEF PlaceInv, Place, LastIs, ConfigureFails, Settled
<1>10. CASE Crash
  BY <1>10 DEF Crash, Over, Building, Settled
<1>11. CASE StartRollback
  BY <1>11 DEF StartRollback, target, Settled
<1>12. ~Rollback
  BY DEF Rollback, ParseFails, RunLine, SkipLine, LineFails, RollbackDone, Running
<1> QED
  BY <1>3, <1>4, <1>5, <1>6, <1>7, <1>8, <1>9, <1>10, <1>11, <1>12 DEF Next, Session

LEMMA ChainInit == ASSUME Init PROVE ChainInv
<1>1. start \in Target
  BY StartAssumption DEF Init
<1>2. Settled
  BY <1>1 DEF Init, Settled, Target, Present, Gone, Half
<1>3. Chain([i \in DOMAIN journal |-> "absent"])
  BY DEF Init, Chain, Leads, Origin, Unpacking
<1> QED
  BY <1>2, <1>3 DEF ChainInv

LEMMA ChainNext ==
    ASSUME PlaceInv, ChainInv, [Next]_vars
    PROVE  ChainInv'
<1>1. CASE UNCHANGED vars
  <2>1. Quietly' <=> Quietly
    BY <1>1 DEF Quietly, vars
  <2>2. Settled => Settled'
    BY <1>1 DEF Settled, vars, target, session
  <2>3. ASSUME NEW at, Chain(at)
        PROVE  Chain(at)'
    BY <1>1, <2>3 DEF Chain, Leads, LastOf, Origin, Unpacking, vars, target, session
  <2> QED
    BY <2>1, <2>2, <2>3 DEF ChainInv
<1>2. CASE Next /\ pc \notin {"rollback", "done"}
  <2>1. Settled /\ \E at : Chain(at)
    BY <1>2 DEF ChainInv, Quietly
  <2>2. Settled'
    BY <1>2, <2>1, SettledNext
  <2>3. Kinds /\ start' = start
    BY <1>2, KindOfStep
  <2> QED
    BY <2>1, <2>2, <2>3, ChainKind DEF ChainInv
<1>3. CASE Next /\ pc \in {"rollback", "done"}
  <2>1. Rollback
    BY <1>3 DEF Next, Begin, Session, TakeOne, TakeUnpack, TakePreconfigure, TakeConfigure,
       TakeRemove, TakeDeconfigure, Take, StartUnpack, Unpacked, StartConfigure,
       TrackConfigure, Configured, StartRemove, Removed, Deconfigured, CommandDone,
       UnpackFails, ConfigureFails, RemoveFails, Crash, StartRollback
  <2>2. CASE ParseFails \/ SkipLine
    <3>1. ~Quietly'
      BY <1>3, <2>2 DEF ParseFails, SkipLine, Running, Quietly
    <3> QED
      BY <3>1 DEF ChainInv
  <2>3. CASE LineFails
    <3>1. ~Quietly'
      BY <1>3, <2>3 DEF LineFails, Running, Quietly
    <3> QED
      BY <3>1 DEF ChainInv
  <2>4. CASE RollbackDone
    <3>1. Quietly' => Quietly
      BY <2>4 DEF RollbackDone, Quietly
    <3>2. Settled => Settled'
      BY <2>4 DEF RollbackDone, Settled, target
    <3>3. ASSUME NEW at, Chain(at)
          PROVE  Chain(at)'
      BY <2>4, <3>3 DEF RollbackDone, Chain, Leads, LastOf, Origin, Unpacking, target, session
    <3> QED
      BY <3>1, <3>2, <3>3 DEF ChainInv
  <2>5. CASE RunLine
    <3>1. Quietly' => Quietly
      BY <2>5 DEF RunLine, Running, Quietly
    <3>2. ASSUME Quietly'
          PROVE  Settled' /\ \E at : Chain(at)'
      <4>1. PICK at : Chain(at)
        BY <3>1, <3>2 DEF ChainInv
      <4> QED
        BY <2>5, <4>1, ChainRunLine DEF Settled
    <3> QED
      BY <3>2 DEF ChainInv
  <2> QED
    BY <2>1, <2>2, <2>3, <2>4, <2>5 DEF Rollback
<1> QED
  BY <1>1, <1>2, <1>3

(* At the end of a rollback without a message no line is left.             *)
DoneInv == pc = "done" => errors \/ journal = <<>>

LEMMA DoneNext ==
    ASSUME PlaceInv, DoneInv, [Next]_vars
    PROVE  DoneInv'
<1>1. CASE UNCHANGED vars
  BY <1>1 DEF DoneInv, vars
<1>2. CASE Rollback
  BY <1>2 DEF Rollback, ParseFails, RunLine, SkipLine, LineFails, RollbackDone, Running, DoneInv
<1>3. CASE Next /\ ~Rollback
  <2>1. pc' # "done"
    BY <1>3 DEF Next, Begin, Session, TakeOne, TakeUnpack, TakePreconfigure, TakeConfigure,
       TakeRemove, TakeDeconfigure, Take, StartUnpack, Unpacked, StartConfigure, Step, Stop,
       Over, TrackConfigure, Configured, StartRemove, Removed, Deconfigured, CommandDone,
       UnpackFails, ConfigureFails, RemoveFails, Crash, StartRollback
  <2> QED
    BY <2>1 DEF DoneInv
<1> QED
  BY <1>1, <1>2, <1>3

(* Whatever a session did, failed at or died from, a rollback that reports *)
(* nothing and whose scripts do not fail gave every package its status and *)
(* its version back, but for the configuration of what had been removed.   *)
THEOREM RollbackRestoresOrReports == Spec => []RestoredUnlessReported
<1>1. Init => PlaceInv /\ ChainInv /\ DoneInv
  BY PlaceInit, ChainInit DEF Init, DoneInv
<1>2. PlaceInv /\ ChainInv /\ DoneInv /\ [Next]_vars => (PlaceInv /\ ChainInv /\ DoneInv)'
  BY PlaceNext, ChainNext, DoneNext
<1>3. PlaceInv /\ ChainInv /\ DoneInv => RestoredUnlessReported
  <2> SUFFICES ASSUME PlaceInv, ChainInv, DoneInv, pc = "done", ~errors,
                      "rollback" \notin marred, NEW p \in Package
               PROVE  Same(p) \/ LeftUnpacked(p)
    BY DEF RestoredUnlessReported
  <2>1. journal = <<>> /\ Quietly
    BY DEF DoneInv, Quietly
  <2>2. PICK at : Chain(at)
    BY <2>1 DEF ChainInv
  <2>3. status[p] \notin Half
    BY <2>1 DEF ChainInv, Settled
  <2>4. Leads(at, 0, p, status[p], version[p])
    BY <2>1, <2>2 DEF Chain
  <2>5. Origin(p, status[p], version[p])
    BY <2>4 DEF Leads
  <2> QED
    BY <2>3, <2>5 DEF Origin, Same, LeftUnpacked, Half, Present
<1> QED
  BY <1>1, <1>2, <1>3, PTL DEF Spec

-----------------------------------------------------------------------------
(* A plain session: fresh installs and deconfigurations that all went      *)
(* well.  Its lines tell a film of the target: the statuses before the     *)
(* first line, after what was done when it was written, and so on.         *)
Plainly == plain /\ marred = {}

(* A target where what a package needs is there with it.                   *)
MetAt(s) == \A p \in Package : s[p] \in Present => \A q \in Needs[p] \ {p} : s[q] \in Present
Free(s, p) == \A q \in Package \ {p} : s[q] \in Present => p \notin Needs[q]

Did(u) == IF u = "deconfigure" THEN "installed" ELSE "unpacked"
Shot(l, s) ==
    /\ l.package \in Package
    /\ \/ l.undo = "purge" /\ s[l.package] \in Gone /\ Free(s, l.package)
       \/ l.undo = "deconfigure" /\ s[l.package] = "unpacked" /\ Free(s, l.package)
       \/ l.undo = "configure" /\ s[l.package] = "installed"
Film(at) ==
    /\ at \in [1..(Len(journal) + 1) -> [Package -> Present \cup Gone]]
    /\ at[1] = start.status
    /\ \A i \in 1..Len(journal) :
          /\ Shot(journal[i], at[i])
          /\ at[i + 1] = [at[i] EXCEPT ![journal[i].package] = Did(journal[i].undo)]
          /\ \A k \in (i + 1)..(Len(journal) + 1) : at[k][journal[i].package] \in Present

(* The target while a plain session is going on, s being the last picture. *)
Now(s) ==
    /\ \A q \in Package : q # cur \/ pc \in {"idle", "next", "configure"} => status[q] = s[q]
    /\ pc \in {"unpack", "extract", "track", "deconfigure"} => s[cur] = "unpacked"
    /\ pc = "postinst" => s[cur] = "installed"

Installation ==
    /\ pc \in {"next", "unpack", "extract", "configure", "track", "postinst"}
    /\ todo \subseteq cmd.packages /\ cmd.packages \subseteq Package
    /\ pc # "next" => cur \in cmd.packages
    /\ \A p \in todo : status[p] \in Gone
    /\ \A p \in cmd.packages : \A q \in Needs[p] \ cmd.packages : status[q] = "installed"
    /\ \A q \in cmd.packages \ todo : q # cur \/ pc = "next" => status[q] = "installed"
    /\ pc \in {"unpack", "extract"} => original \in Gone
    /\ pc \in {"unpack", "extract", "configure", "track"} => Free(status, cur)

Plain ==
    /\ pc \in {"idle"} \cup Working
    /\ version = start.version
    /\ pc \in Working =>
          \/ cmd.name = "install" /\ Installation
          \/ cmd.name = "deconfigure" /\ pc \in {"next", "deconfigure"}

(* The target while a plain session is undone.                             *)
Back(s) ==
    /\ ~errors /\ version = start.version
    /\ \A q \in Package : status[q] = s[q] \/ (status[q] = "not_installed" /\ s[q] \in Gone)
    /\ listed = {} \/ \A i \in DOMAIN journal : journal[i].package \in listed
    /\ pc = "done" => journal = <<>>

PlainAt(at) ==
    /\ Film(at)
    /\ pc \notin {"rollback", "done"} =>
          Plain /\ Now(at[Len(journal) + 1]) /\ MetAt(at[Len(journal) + 1])
    /\ pc \in {"rollback", "done"} => Back(at[Len(journal) + 1])

PlainInv == Plainly => \E at : PlainAt(at)

LEMMA FilmSame ==
    ASSUME NEW at, Film(at), journal' = journal, start' = start
    PROVE  Film(at)'
BY DEF Film

LEMMA FilmLonger ==
    ASSUME TypeOK, NEW at, Film(at), start' = start,
           NEW l \in Lines, journal' = Append(journal, l),
           NEW n, n = Len(journal) + 1, Shot(l, at[n])
    PROVE  \E to : /\ Film(to)'
                   /\ Len(journal') + 1 = n + 1
                   /\ to[n + 1] = [at[n] EXCEPT ![l.package] = Did(l.undo)]
<1>1. /\ n \in Nat \ {0} /\ Len(journal) = n - 1
      /\ Len(journal') = n
      /\ \A i \in 1..(n - 1) : journal'[i] = journal[i]
      /\ journal'[n] = l
  BY Appended DEF TypeOK
<1>2. PICK e : e = [at[n] EXCEPT ![l.package] = Did(l.undo)]
  OBVIOUS
<1>3. at \in [1..n -> [Package -> Present \cup Gone]] /\ at[n] \in [Package -> Present \cup Gone]
  BY <1>1 DEF Film
<1>4. /\ e \in [Package -> Present \cup Gone] /\ e[l.package] \in Present
      /\ \A q \in Package : at[n][q] \in Present => e[q] \in Present
  BY <1>2, <1>3 DEF Did, Present, Shot
<1>5. PICK to : /\ to \in [1..(n + 1) -> [Package -> Present \cup Gone]]
                /\ to[n + 1] = e /\ \A i \in 1..n : to[i] = at[i]
  <2> DEFINE f == [i \in 1..(n + 1) |-> IF i <= n THEN at[i] ELSE e]
  <2>1. /\ f \in [1..(n + 1) -> [Package -> Present \cup Gone]]
        /\ f[n + 1] = e /\ \A i \in 1..n : f[i] = at[i]
    BY <1>1, <1>3, <1>4
  <2> QED
    BY <2>1
<1>6. ASSUME NEW i \in 1..n
      PROVE  /\ Shot(journal'[i], to[i])
             /\ to[i + 1] = [to[i] EXCEPT ![journal'[i].package] = Did(journal'[i].undo)]
             /\ \A k \in (i + 1)..(n + 1) : to[k][journal'[i].package] \in Present
  <2>1. CASE i = n
    <3>1. to[i] = at[n] /\ journal'[i] = l /\ to[i + 1] = e
      BY <1>1, <1>5, <2>1
    <3>2. \A k \in (i + 1)..(n + 1) : k = n + 1
      BY <1>1, <2>1
    <3> QED
      BY <1>2, <1>4, <1>5, <3>1, <3>2
  <2>2. CASE i # n
    <3>1. i \in 1..(n - 1) /\ i \in 1..n /\ i + 1 \in 1..n
      BY <1>1, <2>2
    <3>2. to[i] = at[i] /\ to[i + 1] = at[i + 1] /\ journal'[i] = journal[i]
      BY <1>1, <1>5, <3>1
    <3>3. /\ Shot(journal[i], at[i])
          /\ at[i + 1] = [at[i] EXCEPT ![journal[i].package] = Did(journal[i].undo)]
          /\ \A k \in (i + 1)..n : at[k][journal[i].package] \in Present
      BY <1>1, <3>1 DEF Film
    <3>4. journal[i].package \in Package
      BY <3>3 DEF Shot
    <3>5. ASSUME NEW k \in (i + 1)..(n + 1)
          PROVE  to[k][journal[i].package] \in Present
      <4>1. CASE k = n + 1
        <5>1. n \in (i + 1)..n
          BY <1>1, <3>1
        <5> QED
          BY <1>4, <1>5, <3>3, <3>4, <4>1, <5>1
      <4>2. CASE k # n + 1
        <5>1. k \in (i + 1)..n /\ k \in 1..n
          BY <1>1, <3>1, <4>2
        <5> QED
          BY <1>5, <3>3, <5>1
      <4> QED
        BY <4>1, <4>2
    <3> QED
      BY <3>2, <3>3, <3>5
  <2> QED
    BY <2>1, <2>2
<1>7. to[1] = start'.status
  BY <1>1, <1>5 DEF Film
<1>8. Film(to)'
  BY <1>1, <1>5, <1>6, <1>7 DEF Film, Shot, Free
<1> QED
  BY <1>1, <1>2, <1>5, <1>8

LEMMA FilmShorter ==
    ASSUME TypeOK, NEW at, Film(at), start' = start, journal # <<>>, journal' = Others,
           NEW n, n = Len(journal)
    PROVE  /\ n \in Nat \ {0} /\ Len(journal') + 1 = n
           /\ \A i \in DOMAIN journal' : i \in DOMAIN journal /\ journal'[i] = journal[i]
           /\ \E to : Film(to)' /\ to[n] = at[n]
<1>1. /\ n \in Nat \ {0} /\ Len(journal') = n - 1 /\ DOMAIN journal' = 1..(n - 1)
      /\ DOMAIN journal = 1..n
      /\ \A i \in 1..(n - 1) : journal'[i] = journal[i]
  BY Shortened DEF TypeOK, Others
<1>2. PICK to : /\ to \in [1..n -> [Package -> Present \cup Gone]]
                /\ \A i \in 1..n : to[i] = at[i]
  <2> DEFINE f == [i \in 1..n |-> at[i]]
  <2>1. f \in [1..n -> [Package -> Present \cup Gone]] /\ \A i \in 1..n : f[i] = at[i]
    BY <1>1 DEF Film
  <2> QED
    BY <2>1
<1>3. ASSUME NEW i \in 1..(n - 1)
      PROVE  /\ Shot(journal'[i], to[i])
             /\ to[i + 1] = [to[i] EXCEPT ![journal'[i].package] = Did(journal'[i].undo)]
             /\ \A k \in (i + 1)..n : to[k][journal'[i].package] \in Present
  <2>1. i \in 1..n /\ i + 1 \in 1..n /\ (i + 1)..n \subseteq 1..n /\ (i + 1)..n \subseteq (i + 1)..(n + 1)
    BY <1>1
  <2>2. /\ Shot(journal[i], at[i])
        /\ at[i + 1] = [at[i] EXCEPT ![journal[i].package] = Did(journal[i].undo)]
        /\ \A k \in (i + 1)..(n + 1) : at[k][journal[i].package] \in Present
    BY <1>1, <2>1 DEF Film
  <2>3. journal'[i] = journal[i] /\ to[i] = at[i] /\ to[i + 1] = at[i + 1]
    BY <1>1, <1>2, <2>1
  <2>4. \A k \in (i + 1)..n : to[k] = at[k]
    BY <1>2, <2>1
  <2> QED
    BY <2>1, <2>2, <2>3, <2>4
<1>4. to[1] = start'.status
  BY <1>1, <1>2 DEF Film
<1>5. Len(journal') + 1 = n
  BY <1>1
<1>6. 1..Len(journal') = 1..(n - 1)
  BY <1>1
<1>7. Film(to)'
  BY <1>2, <1>3, <1>4, <1>5, <1>6 DEF Film, Shot, Free
<1>8. to[n] = at[n] /\ \A i \in DOMAIN journal' : i \in DOMAIN journal /\ journal'[i] = journal[i]
  BY <1>1, <1>2
<1> QED
  BY <1>1, <1>5, <1>7, <1>8

-----------------------------------------------------------------------------
(* The steps of a plain session that write no line leave the film alone.   *)
LEMMA PlainBegin ==
    ASSUME PlaceInv, NEW s, NEW c \in Command, Begin(c), Plain, Now(s), Plainly'
    PROVE  Plain' /\ Now(s)'
<1>1. c.name = "deconfigure" \/ Fresh(c)
  BY DEF Begin, Plainly
<1>2. /\ pc' = "next" /\ cmd' = c /\ todo' = c.packages
      /\ status' = status /\ version' = version /\ start' = start
      /\ c.packages \subseteq Package
  BY CommandAssumption DEF Begin, target
<1>3. Now(s)'
  BY <1>2 DEF Begin, Now
<1>w. "next" \in Working /\ version' = start'.version
  BY <1>2 DEF Working, Pc, Plain
<1>4. CASE c.name = "deconfigure"
  BY <1>2, <1>3, <1>4, <1>w DEF Plain
<1>5. CASE Fresh(c)
  <2>1. /\ c.name = "install" /\ \A p \in c.packages : status[p] \in Gone
        /\ \A p \in c.packages : \A q \in Needs[p] \ c.packages : status[q] = "installed"
    <3>1. c.name = "install" /\ Accepted(c) /\ \A p \in c.packages : status[p] \in Gone
      BY <1>5 DEF Begin, Fresh
    <3> QED
      BY <3>1 DEF Accepted
  <2>2. Installation'
    BY <1>2, <2>1 DEF Installation
  <2> QED
    BY <1>2, <1>3, <1>w, <2>1, <2>2 DEF Plain
<1> QED
  BY <1>1, <1>3, <1>4, <1>5

LEMMA PlainMove ==
    ASSUME PlaceInv, NEW s, Plain, Now(s),
           StartUnpack \/ Unpacked \/ StartConfigure \/ Configured \/ Deconfigured
    PROVE  Plain' /\ Now(s)'
<1>1. /\ cmd' = cmd /\ todo' = todo /\ cur' = cur /\ original' = original /\ start' = start
      /\ cur \in Package /\ cur \notin todo /\ version = start.version
      /\ pc \in {"unpack", "extract", "configure", "preconfigure", "postinst", "deconfigure"}
      /\ pc \in Working
  BY DEF StartUnpack, Unpacked, StartConfigure, Configured, Deconfigured, Step, session,
     PlaceInv, Place, TypeOK, Pc, Working, Plain
<1>2. PICK t : /\ status' = [status EXCEPT ![cur] = t]
               /\ StartUnpack => t = "unpacking"
               /\ Unpacked \/ Deconfigured => t = "unpacked"
               /\ StartConfigure => t = "half_configured"
               /\ Configured => t = "installed"
  BY DEF StartUnpack, Unpacked, StartConfigure, Configured, Deconfigured, Set
<1>3. /\ status'[cur] = t /\ \A q \in Package : q # cur => status'[q] = status[q]
  BY <1>1, <1>2 DEF PlaceInv, TypeOK
<1>4. CASE cmd.name = "install" /\ Installation
  <2>1. ~Deconfigured /\ pc # "preconfigure" /\ cur \in cmd.packages
    BY <1>1, <1>4 DEF Installation, Deconfigured
  <2>2. version' = version
    <3>1. Unpacked => original \in Gone
      BY <1>4 DEF Unpacked, Installation
    <3>2. Unpacked => version' = version
      BY <3>1 DEF Unpacked, PlaceInv, TypeOK, Gone, Present
    <3> QED
      BY <2>1, <3>2 DEF StartUnpack, StartConfigure, Configured
  <2>3. /\ StartUnpack => pc = "unpack" /\ pc' = "extract"
        /\ Unpacked => pc = "extract" /\ pc' = "configure"
        /\ StartConfigure => pc = "configure" /\ pc' = "track"
        /\ Configured => pc = "postinst" /\ pc' = "next"
    BY <1>4, <2>1 DEF StartUnpack, Unpacked, StartConfigure, Configured, Step, Installing
  <2>4. pc' \in {"extract", "configure", "track", "next"}
    BY <2>1, <2>3
  <2>5. /\ pc' \in {"extract", "configure", "track"} => Free(status, cur)
        /\ pc' = "extract" => original \in Gone
    BY <2>1, <2>3, <1>4 DEF Installation
  <2>6. Free(status, cur) => Free(status', cur)
    BY <1>3 DEF Free
  <2>7. pc' = "next" => t = "installed"
    BY <1>2, <2>1, <2>3
  <2>8. /\ \A p \in todo : status'[p] \in Gone
        /\ \A p \in cmd.packages : \A q \in Needs[p] \ cmd.packages : status'[q] = "installed"
        /\ \A q \in cmd.packages \ todo : q # cur \/ pc' = "next" => status'[q] = "installed"
    <3>1. cmd.packages \subseteq Package /\ todo \subseteq cmd.packages
      BY <1>4 DEF Installation
    <3>2. \A p \in cmd.packages : Needs[p] \subseteq Package
      BY <3>1, NeedsAssumption
    <3> QED
      BY <1>1, <1>3, <1>4, <2>1, <2>7, <3>1, <3>2 DEF Installation
  <2>9. Installation'
    BY <1>1, <1>4, <2>1, <2>4, <2>5, <2>6, <2>8 DEF Installation
  <2>10. Now(s)'
    <3>1. \A q \in Package : q # cur => status'[q] = s[q]
      BY <1>3 DEF Now
    <3>2. pc' \in {"extract", "track"} => s[cur] = "unpacked"
      <4>1. StartConfigure => s[cur] = "unpacked"
        BY <1>1, <2>3 DEF Now, PlaceInv, Place
      <4> QED
        BY <2>1, <2>3, <4>1 DEF Now
    <3>3. pc' = "configure" => s[cur] = "unpacked" /\ t = "unpacked"
      BY <1>2, <2>1, <2>3 DEF Now
    <3>4. pc' = "next" => s[cur] = "installed" /\ t = "installed"
      BY <1>2, <2>1, <2>3 DEF Now
    <3> QED
      BY <1>1, <1>3, <2>4, <3>1, <3>2, <3>3, <3>4 DEF Now
  <2> QED
    BY <1>1, <1>4, <2>2, <2>4, <2>9, <2>10 DEF Plain, Working, Pc
<1>5. CASE cmd.name = "deconfigure" /\ pc \in {"next", "deconfigure"}
  <2>1. Deconfigured /\ pc = "deconfigure" /\ pc' = "next" /\ version' = version
    BY <1>5 DEF StartUnpack, Unpacked, StartConfigure, Configured, Deconfigured, Step
  <2>2. Now(s)'
    BY <1>1, <1>2, <1>3, <2>1 DEF Now
  <2> QED
    BY <1>1, <1>5, <2>1, <2>2 DEF Plain, Working, Pc
<1> QED
  BY <1>1, <1>4, <1>5 DEF Plain

LEMMA PlainDone ==
    ASSUME NEW s, Plain, Now(s), CommandDone
    PROVE  Plain' /\ Now(s)'
<1>1. /\ pc' = "idle" /\ status' = status /\ version' = version /\ start' = start
      /\ pc = "next"
  BY DEF CommandDone, Over, Plain, Working, Pc, Building
<1> QED
  BY <1>1 DEF Plain, Now, Working

(* The other ones add a picture.                                           *)
LEMMA PlainUnpack ==
    ASSUME PlaceInv, NEW s \in [Package -> Present \cup Gone], Plain, Now(s), MetAt(s),
           NEW p \in todo, TakeUnpack(p)
    PROVE  \E l \in Lines :
              /\ journal' = Append(journal, l) /\ Shot(l, s)
              /\ Plain' /\ Now([s EXCEPT ![l.package] = Did(l.undo)])'
              /\ MetAt([s EXCEPT ![l.package] = Did(l.undo)])
<1>1. /\ pc = "next" /\ pc' = "unpack" /\ IsNext(p) /\ p \in Package /\ pc \in Working
      /\ cur' = p /\ todo' = todo \ {p} /\ original' = status[p]
      /\ status' = status /\ version' = version /\ cmd' = cmd /\ start' = start
      /\ cmd.name \in {"install", "build", "unpack"}
  BY DEF TakeUnpack, Take, target, PlaceInv, TypeOK, Working, Pc
<1>2. cmd.name = "install" /\ Installation /\ version = start.version
  BY <1>1 DEF Plain
<1>3. /\ status[p] \in Gone /\ \A q \in Package : status[q] = s[q]
      /\ p \in cmd.packages
  BY <1>1, <1>2 DEF Installation, Now
<1>4. PICK l : l = [undo |-> "purge", package |-> p, version |-> version[p]]
  OBVIOUS
<1>5. l \in Lines /\ l.undo = "purge" /\ l.package = p
  BY <1>1, <1>4, LineTyped DEF PlaceInv, TypeOK, Undo
<1>6. journal' = Append(journal, l)
  BY <1>3, <1>4 DEF TakeUnpack, track, Gone, Present
<1>7. Free(s, p)
  BY <1>1, <1>3 DEF Free, MetAt, Gone, Present
<1>8. PICK e : e = [s EXCEPT ![p] = "unpacked"]
  OBVIOUS
<1>9. e[p] = "unpacked" /\ \A q \in Package : q # p => e[q] = s[q]
  BY <1>1, <1>8
<1>10. \A r \in Needs[p] \ {p} : s[r] \in Present
  <2>1. \A r \in Needs[p] \ {p} : r \in Package /\ r \notin todo
    BY <1>1, <1>2, NeedsAssumption DEF IsNext
  <2>2. \A r \in Needs[p] \ {p} : status[r] = "installed"
    BY <1>1, <1>2, <1>3, <2>1 DEF Installation
  <2> QED
    BY <1>3, <2>1, <2>2 DEF Present
<1>11. MetAt(e)
  <2> SUFFICES ASSUME NEW x \in Package, e[x] \in Present, NEW r \in Needs[x] \ {x}
               PROVE  e[r] \in Present
    BY DEF MetAt
  <2>1. r \in Package
    BY NeedsAssumption
  <2>2. r # p => s[r] \in Present
    BY <1>9, <1>10, <2>1 DEF MetAt
  <2> QED
    BY <1>9, <2>1, <2>2 DEF Present
<1>12. Now(e)'
  BY <1>1, <1>3, <1>9 DEF Now
<1>13. Installation'
  <2>1. Free(status, p)
    BY <1>3, <1>7 DEF Free
  <2> QED
    BY <1>1, <1>2, <1>3, <2>1 DEF Installation
<1>14. Plain'
  BY <1>1, <1>2, <1>13 DEF Plain, Working, Pc
<1>15. Shot(l, s) /\ e = [s EXCEPT ![l.package] = Did(l.undo)]
  BY <1>1, <1>3, <1>5, <1>7, <1>8 DEF Shot, Did
<1> QED
  BY <1>5, <1>6, <1>11, <1>12, <1>14, <1>15

LEMMA PlainDeconfigure ==
    ASSUME PlaceInv, NEW s \in [Package -> Present \cup Gone], Plain, Now(s), MetAt(s),
           NEW p \in todo, TakeDeconfigure(p)
    PROVE  \E l \in Lines :
              /\ journal' = Append(journal, l) /\ Shot(l, s)
              /\ Plain' /\ Now([s EXCEPT ![l.package] = Did(l.undo)])'
              /\ MetAt([s EXCEPT ![l.package] = Did(l.undo)])
<1>1. /\ pc = "next" /\ pc' = "deconfigure" /\ p \in Package /\ pc \in Working
      /\ cur' = p /\ todo' = todo \ {p} /\ cmd.name = "deconfigure"
      /\ status' = status /\ version' = version /\ cmd' = cmd /\ start' = start
  BY DEF TakeDeconfigure, Take, target, PlaceInv, TypeOK, Working, Pc
<1>2. /\ status[p] = "installed" /\ \A q \in Package : status[q] = s[q]
      /\ version = start.version
  BY <1>1 DEF PlaceInv, Place, Fit, Now, Plain
<1>4. PICK l : l = [undo |-> "configure", package |-> p, version |-> version[p]]
  OBVIOUS
<1>5. l \in Lines /\ l.undo = "configure" /\ l.package = p
  BY <1>1, <1>4, LineTyped DEF PlaceInv, TypeOK, Undo
<1>6. journal' = Append(journal, l)
  BY <1>4 DEF TakeDeconfigure, track
<1>8. PICK e : e = [s EXCEPT ![p] = "unpacked"]
  OBVIOUS
<1>9. e[p] = "unpacked" /\ \A q \in Package : q # p => e[q] = s[q]
  BY <1>1, <1>8
<1>10. s[p] = "installed"
  BY <1>1, <1>2
<1>11. MetAt(e)
  <2>1. \A q \in Package : e[q] \in Present <=> s[q] \in Present
    BY <1>9, <1>10 DEF Present
  <2> QED
    BY <2>1, NeedsAssumption DEF MetAt
<1>12. Now(e)'
  BY <1>1, <1>2, <1>9 DEF Now
<1>14. Plain'
  BY <1>1, <1>2 DEF Plain, Working, Pc
<1> QED
  BY <1>1, <1>5, <1>6, <1>8, <1>10, <1>11, <1>12, <1>14 DEF Shot, Did

LEMMA PlainTrack ==
    ASSUME PlaceInv, NEW s \in [Package -> Present \cup Gone], Plain, Now(s), MetAt(s),
           TrackConfigure
    PROVE  \E l \in Lines :
              /\ journal' = Append(journal, l) /\ Shot(l, s)
              /\ Plain' /\ Now([s EXCEPT ![l.package] = Did(l.undo)])'
              /\ MetAt([s EXCEPT ![l.package] = Did(l.undo)])
<1>1. /\ pc = "track" /\ pc' = "postinst" /\ cur \in Package /\ pc \in Working
      /\ cur' = cur /\ todo' = todo /\ original' = original
      /\ status' = status /\ version' = version /\ cmd' = cmd /\ start' = start
  BY DEF TrackConfigure, Step, session, target, PlaceInv, TypeOK, Working, Pc
<1>2. cmd.name = "install" /\ Installation /\ version = start.version
  BY <1>1 DEF Plain
<1>3. s[cur] = "unpacked" /\ \A q \in Package : q # cur => status[q] = s[q]
  BY <1>1 DEF Now
<1>4. PICK l : l = [undo |-> "deconfigure", package |-> cur, version |-> version[cur]]
  OBVIOUS
<1>5. l \in Lines /\ l.undo = "deconfigure" /\ l.package = cur
  BY <1>1, <1>4, LineTyped DEF PlaceInv, TypeOK, Undo
<1>6. journal' = Append(journal, l)
  BY <1>4 DEF TrackConfigure, track
<1>7. Free(s, cur)
  BY <1>1, <1>2, <1>3 DEF Free, Installation
<1>8. PICK e : e = [s EXCEPT ![cur] = "installed"]
  OBVIOUS
<1>9. e[cur] = "installed" /\ \A q \in Package : q # cur => e[q] = s[q]
  BY <1>1, <1>8
<1>11. MetAt(e)
  <2>1. \A q \in Package : e[q] \in Present <=> s[q] \in Present
    BY <1>3, <1>9 DEF Present
  <2> QED
    BY <2>1, NeedsAssumption DEF MetAt
<1>12. Now(e)'
  BY <1>1, <1>3, <1>9 DEF Now
<1>13. Installation'
  BY <1>1, <1>2 DEF Installation
<1>14. Plain'
  BY <1>1, <1>2, <1>13 DEF Plain, Working, Pc
<1> QED
  BY <1>1, <1>3, <1>5, <1>6, <1>7, <1>8, <1>11, <1>12, <1>14 DEF Shot, Did

-----------------------------------------------------------------------------
(* The rollback of a film: what the last line asks for holds, and what it  *)
(* leaves is the picture before it.                                        *)
LEMMA LastShot ==
    ASSUME TypeOK, NEW at, Film(at), Back(at[Len(journal) + 1]), journal # <<>>
    PROVE  /\ LastLine.package \in Package /\ LastLine.undo \in {"purge", "deconfigure", "configure"}
           /\ Valid(LastLine)
           /\ status[LastLine.package] = Did(LastLine.undo)
           /\ Shot(LastLine, at[Len(journal)])
           /\ at[Len(journal) + 1]
                 = [at[Len(journal)] EXCEPT ![LastLine.package] = Did(LastLine.undo)]
           /\ ~HasFailedLine
           /\ \A i \in DOMAIN journal : journal[i].package \in ListedNow
<1>n. PICK n \in Nat : n = Len(journal)
  BY DEF TypeOK
<1>1. n \in 1..n /\ DOMAIN journal = 1..n /\ n # 0 /\ n + 1 \in 1..(n + 1) /\ n \in 1..(n + 1)
  BY <1>n DEF TypeOK
<1>2. PICK l, p : l = journal[n] /\ p = l.package
  OBVIOUS
<1>3. PICK s, e : s = at[n] /\ e = at[n + 1]
  OBVIOUS
<1>4. /\ s \in [Package -> Present \cup Gone] /\ e \in [Package -> Present \cup Gone]
      /\ Shot(l, s) /\ e = [s EXCEPT ![p] = Did(l.undo)]
      /\ \A i \in 1..n : Shot(journal[i], at[i]) /\ e[journal[i].package] \in Present
  <2>1. \A i \in 1..n : n + 1 \in (i + 1)..(n + 1)
    BY <1>1
  <2> QED
    BY <1>n, <1>1, <1>2, <1>3, <2>1 DEF Film
<1>5. /\ p \in Package /\ l.undo \in {"purge", "deconfigure", "configure"}
      /\ \A i \in 1..n : journal[i].package \in Package
  BY <1>2, <1>4 DEF Shot
<1>6. /\ ~errors
      /\ \A q \in Package : status[q] = e[q] \/ (status[q] = "not_installed" /\ e[q] \in Gone)
      /\ listed = {} \/ \A i \in 1..n : journal[i].package \in listed
  BY <1>n, <1>1, <1>3 DEF Back
<1>7. /\ e[p] = Did(l.undo) /\ Did(l.undo) \in Present
      /\ \A q \in Package : q # p => e[q] = s[q]
  BY <1>4, <1>5 DEF Did, Present
<1>8. /\ status[p] = Did(l.undo)
      /\ \A q \in Package : status[q] \in Present \cup Gone
      /\ \A q \in Package : status[q] \in Present => e[q] \in Present
      /\ \A q \in Package : e[q] \in Present => status[q] \in Present
  BY <1>4, <1>5, <1>6, <1>7 DEF Present, Gone
<1>9. \A i \in 1..n : journal[i].package \in ListedNow
  BY <1>4, <1>5, <1>6, <1>8 DEF ListedNow, Recorded, Present
<1>10. /\ Quiet({}) /\ QuietBut(p)
  BY <1>8 DEF Quiet, QuietBut, Present, Gone, Half, Busy
<1>11. Valid(l)
  <2>1. CASE l.undo = "configure"
    BY <1>2, <1>6, <1>7, <1>8, <1>10, <2>1 DEF Valid
  <2>2. CASE l.undo \in {"purge", "deconfigure"}
    <3>1. Free(s, p)
      BY <1>2, <1>4, <2>2 DEF Shot
    <3>2. Dependents(p) = {}
      BY <1>7, <1>8, <3>1 DEF Dependents, Free
    <3>3. p \in ListedNow
      BY <1>1, <1>2, <1>9
    <3>4. Removable(l)
      BY <1>2, <1>7, <1>8, <1>10, <3>2, <3>3 DEF Removable
    <3> QED
      BY <1>6, <2>2, <3>4 DEF Valid
  <2> QED
    BY <1>5, <2>1, <2>2
<1>12. ~HasFailedLine
  <2>1. \A i \in 1..n : journal[i] # Failed
    BY <1>5, NoneAssumption DEF Failed
  <2> QED
    BY <1>1, <2>1 DEF HasFailedLine
<1>13. LastLine = l
  BY <1>n, <1>2 DEF LastLine
<1> QED
  BY <1>n, <1>1, <1>2, <1>3, <1>4, <1>5, <1>8, <1>9, <1>11, <1>12, <1>13

LEMMA BackRunLine ==
    ASSUME TypeOK, NEW at, Film(at), Back(at[Len(journal) + 1]), RunLine
    PROVE  \E to : Film(to)' /\ Back(to[Len(journal) + 1])'
<1>0. /\ journal # <<>> /\ start' = start /\ journal' = Others /\ pc' = "rollback"
      /\ listed' = ListedNow /\ errors' = errors
      /\ status' = [status EXCEPT ![LastLine.package] = Undone(LastLine)]
  BY DEF RunLine, Running, session, Set
<1>n. PICK n \in Nat : n = Len(journal)
  BY DEF TypeOK
<1>1. PICK l, p : l = LastLine /\ p = l.package
  OBVIOUS
<1>2. PICK s, e : s = at[n] /\ e = at[n + 1]
  OBVIOUS
<1>3. /\ p \in Package /\ status[p] = Did(l.undo) /\ Shot(l, s)
      /\ e = [s EXCEPT ![p] = Did(l.undo)]
      /\ l.undo \in {"purge", "deconfigure", "configure"}
      /\ \A i \in DOMAIN journal : journal[i].package \in ListedNow
  BY <1>0, <1>n, <1>1, <1>2, LastShot
<1>4. PICK to : /\ Film(to)' /\ to[n] = s /\ Len(journal') + 1 = n
                /\ \A i \in DOMAIN journal' : i \in DOMAIN journal /\ journal'[i] = journal[i]
  BY <1>0, <1>n, <1>2, FilmShorter
<1>5. PICK t : t = Undone(l)
  OBVIOUS
<1>6. t = s[p] \/ (t = "not_installed" /\ s[p] \in Gone)
  BY <1>1, <1>3, <1>5 DEF Undone, Did, Shot
<1>7. /\ status'[p] = t /\ \A q \in Package : q # p => status'[q] = status[q]
  BY <1>0, <1>1, <1>3, <1>5 DEF TypeOK
<1>8. \A q \in Package : q # p => e[q] = s[q]
  <2>1. n \in 1..(Len(journal) + 1)
    BY <1>0, <1>n DEF TypeOK
  <2>2. s \in [Package -> Present \cup Gone]
    BY <1>2, <2>1 DEF Film
  <2> QED
    BY <1>3, <2>2
<1>9. /\ ~errors /\ version = start.version
      /\ \A q \in Package : status[q] = e[q] \/ (status[q] = "not_installed" /\ e[q] \in Gone)
  BY <1>n, <1>2 DEF Back
<1>10. \A q \in Package : status'[q] = s[q] \/ (status'[q] = "not_installed" /\ s[q] \in Gone)
  BY <1>6, <1>7, <1>8, <1>9
<1>11. version' = version
  <2>1. version \in [Package -> Versions]
    BY DEF TypeOK
  <2> QED
    BY <1>1, <1>3, <2>1 DEF RunLine
<1>12. Back(s)'
  BY <1>0, <1>3, <1>4, <1>9, <1>10, <1>11 DEF Back
<1> QED
  BY <1>4, <1>12

LEMMA PlainInit ==
    ASSUME Init, \A t \in Start : MetAt(t.status)
    PROVE  PlainInv
<1>1. start \in Target /\ MetAt(start.status)
  BY StartAssumption DEF Init
<1>2. PICK at : at = [i \in 1..1 |-> start.status]
  OBVIOUS
<1>3. Len(journal) + 1 = 1 /\ 1..(Len(journal) + 1) = 1..1 /\ 1..Len(journal) = {}
  BY DEF Init
<1>4. at \in [1..1 -> [Package -> Present \cup Gone]] /\ at[1] = start.status
  BY <1>1, <1>2 DEF Target
<1>5. Film(at)
  BY <1>3, <1>4 DEF Film
<1>6. Plain /\ Now(at[1]) /\ pc = "idle"
  BY <1>4 DEF Init, Plain, Working, Now
<1>7. PlainAt(at)
  BY <1>1, <1>3, <1>4, <1>5, <1>6 DEF PlainAt
<1> QED
  BY <1>7 DEF PlainInv

LEMMA PlainNext ==
    ASSUME PlaceInv, PlainInv, [Next]_vars
    PROVE  PlainInv'
<1> SUFFICES ASSUME Plainly'
             PROVE  \E at : PlainAt(at)'
  BY DEF PlainInv
<1>0. TypeOK
  BY DEF PlaceInv
<1>1. Plainly /\ start' = start
  <2>1. start' = start
    BY DEF Next, Session, TakeOne, TakeUnpack, TakePreconfigure, TakeConfigure,
       TakeRemove, TakeDeconfigure, Take, StartUnpack, Unpacked, StartConfigure, Step, Stop,
       Over, TrackConfigure, Configured, StartRemove, Removed, Deconfigured, CommandDone,
       UnpackFails, ConfigureFails, RemoveFails, Crash, StartRollback, Begin, Rollback,
       ParseFails, RunLine, SkipLine, LineFails, RollbackDone, Running, session, vars
  <2>2. plain' => plain
    BY Zenon DEF Next, Session, TakeOne, TakeUnpack, TakePreconfigure, TakeConfigure,
       TakeRemove, TakeDeconfigure, Take, StartUnpack, Unpacked, StartConfigure, Step, Stop,
       Over, TrackConfigure, Configured, StartRemove, Removed, Deconfigured, CommandDone,
       UnpackFails, ConfigureFails, RemoveFails, Crash, StartRollback, Begin, Rollback,
       ParseFails, RunLine, SkipLine, LineFails, RollbackDone, Running, session, vars
  <2>3. marred' = {} => marred = {}
    BY DEF Next, Session, TakeOne, TakeUnpack, TakePreconfigure, TakeConfigure,
       TakeRemove, TakeDeconfigure, Take, StartUnpack, Unpacked, StartConfigure, Step, Stop,
       Over, TrackConfigure, Configured, StartRemove, Removed, Deconfigured, CommandDone,
       UnpackFails, ConfigureFails, RemoveFails, Crash, StartRollback, Begin, Rollback,
       ParseFails, RunLine, SkipLine, LineFails, RollbackDone, Running, session, vars
  <2> QED
    BY <2>1, <2>2, <2>3 DEF Plainly
<1>2. PICK at : PlainAt(at)
  BY <1>1 DEF PlainInv
<1>n. PICK n \in Nat : n = Len(journal)
  BY <1>0 DEF TypeOK
<1>3. PICK s : s = at[n + 1]
  OBVIOUS
<1>4. Film(at) /\ s \in [Package -> Present \cup Gone]
  <2>1. Film(at) /\ n + 1 \in 1..(n + 1)
    BY <1>2, <1>n DEF PlainAt
  <2> QED
    BY <1>3, <1>n, <2>1 DEF Film
<1>5. ASSUME journal' = journal
      PROVE  Film(at)' /\ Len(journal') + 1 = n + 1
  BY <1>1, <1>4, <1>5, <1>n, FilmSame
<1>6. ASSUME pc \notin {"rollback", "done"}
      PROVE  Plain /\ Now(s) /\ MetAt(s)
  BY <1>2, <1>3, <1>6, <1>n DEF PlainAt
<1>7. ASSUME pc \in {"rollback", "done"}
      PROVE  Back(s)
  BY <1>2, <1>3, <1>7, <1>n DEF PlainAt
<1>8. ASSUME journal' = journal, MetAt(s), Plain', Now(s)'
      PROVE  PlainAt(at)'
  <2>1. pc' \notin {"rollback", "done"}
    BY <1>8 DEF Plain, Working
  <2> QED
    BY <1>3, <1>5, <1>8, <2>1 DEF PlainAt, MetAt
<1>9. ASSUME pc \notin {"rollback", "done"}, MetAt(s),
             \E l \in Lines :
                /\ journal' = Append(journal, l) /\ Shot(l, s)
                /\ Plain' /\ Now([s EXCEPT ![l.package] = Did(l.undo)])'
                /\ MetAt([s EXCEPT ![l.package] = Did(l.undo)])
      PROVE  \E to : PlainAt(to)'
  <2>1. PICK l \in Lines :
                /\ journal' = Append(journal, l) /\ Shot(l, s)
                /\ Plain' /\ Now([s EXCEPT ![l.package] = Did(l.undo)])'
                /\ MetAt([s EXCEPT ![l.package] = Did(l.undo)])
    BY <1>9
  <2>2. PICK e : e = [s EXCEPT ![l.package] = Did(l.undo)]
    OBVIOUS
  <2>3. PICK m : m = n + 1
    OBVIOUS
  <2>4. PICK to : Film(to)' /\ Len(journal') + 1 = m + 1 /\ to[m + 1] = e
    BY <1>0, <1>1, <1>3, <1>4, <1>n, <2>1, <2>2, <2>3, FilmLonger
  <2>5. pc' \notin {"rollback", "done"}
    BY <2>1 DEF Plain, Working
  <2>6. Now(e)' /\ MetAt(e)
    BY <2>1, <2>2
  <2>7. PlainAt(to)'
    BY <2>1, <2>4, <2>5, <2>6 DEF PlainAt, MetAt
  <2> QED
    BY <2>7
<1>10. CASE UNCHANGED vars
  <2>1. PlainAt(at)'
    <3>1. journal' = journal /\ pc' = pc
      BY <1>10 DEF vars
    <3>2. Plain => Plain'
      BY <1>10 DEF Plain, Installation, Free, vars, target, session
    <3>3. Now(s) => Now(s)'
      BY <1>10 DEF Now, vars, target, session
    <3>4. Back(s) => Back(s)'
      BY <1>10 DEF Back, vars, target, session
    <3> QED
      BY <1>3, <1>5, <1>6, <1>7, <1>8, <3>1, <3>2, <3>3, <3>4 DEF PlainAt
  <2> QED
    BY <2>1
<1>11. CASE \E c \in Command : Begin(c)
  <2>1. PICK c \in Command : Begin(c)
    BY <1>11
  <2>2. journal' = journal /\ pc \notin {"rollback", "done"}
    BY <2>1 DEF Begin
  <2> QED
    BY <1>6, <1>8, <2>1, <2>2, PlainBegin
<1>12. CASE TakeOne
  <2>1. PICK p \in todo : TakeUnpack(p) \/ TakePreconfigure(p) \/ TakeConfigure(p)
                       \/ TakeRemove(p) \/ TakeDeconfigure(p)
    BY <1>12 DEF TakeOne
  <2>2. pc = "next"
    BY <2>1 DEF TakeUnpack, TakePreconfigure, TakeConfigure, TakeRemove, TakeDeconfigure, Take
  <2>3. Plain /\ Now(s) /\ MetAt(s)
    BY <1>6, <2>2
  <2>4. ~TakePreconfigure(p) /\ ~TakeConfigure(p) /\ ~TakeRemove(p)
    BY <2>1, <2>2, <2>3 DEF Plain, Working, Pc, Installation, TakePreconfigure,
       TakeConfigure, TakeRemove, Gone
  <2>5. CASE TakeUnpack(p)
    BY <1>4, <1>9, <2>1, <2>2, <2>3, <2>5, PlainUnpack
  <2>6. CASE TakeDeconfigure(p)
    BY <1>4, <1>9, <2>1, <2>2, <2>3, <2>6, PlainDeconfigure
  <2> QED
    BY <2>1, <2>4, <2>5, <2>6
<1>13. CASE StartUnpack \/ Unpacked \/ StartConfigure \/ Configured \/ Deconfigured
  <2>1. journal' = journal /\ pc \notin {"rollback", "done"}
    BY <1>13 DEF StartUnpack, Unpacked, StartConfigure, Configured, Deconfigured
  <2> QED
    BY <1>6, <1>8, <1>13, <2>1, PlainMove
<1>14. CASE TrackConfigure
  <2>1. pc \notin {"rollback", "done"}
    BY <1>14 DEF TrackConfigure
  <2> QED
    BY <1>4, <1>6, <1>9, <1>14, <2>1, PlainTrack
<1>15. CASE CommandDone
  <2>1. journal' = journal /\ pc \notin {"rollback", "done"}
    BY <1>15 DEF CommandDone
  <2> QED
    BY <1>6, <1>8, <1>15, <2>1, PlainDone
<1>16. ~StartRemove /\ ~Removed
  BY <1>6 DEF StartRemove, Removed, Plain, Working, Pc, Installation
<1>17. ~UnpackFails /\ ~ConfigureFails /\ ~RemoveFails /\ ~Crash
  BY DEF Plainly, UnpackFails, ConfigureFails, RemoveFails, Crash, Stop
<1>18. CASE StartRollback
  <2>1. /\ pc = "idle" /\ pc' = "rollback" /\ journal' = journal /\ status' = status
        /\ version' = version /\ listed' = {} /\ errors' = FALSE
    BY <1>18 DEF StartRollback, target
  <2>2. Back(s)'
    BY <1>1, <1>6, <2>1 DEF Back, Plain, Now
  <2>3. PlainAt(at)'
    BY <1>3, <1>5, <2>1, <2>2 DEF PlainAt
  <2> QED
    BY <2>3
<1>19. CASE RunLine
  <2>1. pc = "rollback" /\ pc' = "rollback"
    BY <1>19 DEF RunLine, Running
  <2>2. Back(at[Len(journal) + 1])
    BY <1>3, <1>7, <1>n, <2>1
  <2>3. PICK to : Film(to)' /\ Back(to[Len(journal) + 1])'
    BY <1>0, <1>4, <1>19, <2>2, BackRunLine
  <2>4. PlainAt(to)'
    BY <2>1, <2>3 DEF PlainAt
  <2> QED
    BY <2>4
<1>20. ~ParseFails /\ ~SkipLine /\ ~LineFails
  <2>1. ~LineFails
    BY DEF LineFails, Plainly
  <2>2. ASSUME pc = "rollback", journal # <<>>
        PROVE  Valid(LastLine) /\ ~HasFailedLine
    <3>1. Back(at[Len(journal) + 1])
      BY <1>3, <1>7, <1>n, <2>2
    <3> QED
      BY <1>0, <1>4, <2>2, <3>1, LastShot
  <2>3. HasFailedLine => journal # <<>>
    BY DEF HasFailedLine
  <2> QED
    BY <2>1, <2>2, <2>3 DEF ParseFails, SkipLine, Running
<1>21. CASE RollbackDone
  <2>1. /\ pc' = "done" /\ journal' = journal /\ status' = status /\ journal = <<>>
        /\ version' = version /\ listed' = listed /\ errors' = errors /\ pc = "rollback"
    BY <1>21 DEF RollbackDone, target
  <2>2. Back(s)'
    BY <1>1, <1>7, <2>1 DEF Back
  <2>3. PlainAt(at)'
    BY <1>3, <1>5, <2>1, <2>2 DEF PlainAt
  <2> QED
    BY <2>3
<1> QED
  BY <1>10, <1>11, <1>12, <1>13, <1>14, <1>15, <1>16, <1>17, <1>18, <1>19, <1>20, <1>21
     DEF Next, Session, Rollback

(* Whenever the target was one where every package has what it needs, a    *)
(* session that only installed and deconfigured packages, all of it well,  *)
(* is undone by rollback() without an error: every undo command passes its *)
(* validation and gives its package back.                                  *)
THEOREM PlainSessionsAreUndone ==
    ASSUME \A t \in Start : MetAt(t.status)
    PROVE  Spec => []PlainUndone
<1>1. Init => PlaceInv /\ PlainInv
  BY PlaceInit, PlainInit
<1>2. PlaceInv /\ PlainInv /\ [Next]_vars => (PlaceInv /\ PlainInv)'
  BY PlaceNext, PlainNext
<1>3. PlaceInv /\ PlainInv => PlainUndone
  <2> SUFFICES ASSUME PlaceInv, PlainInv, pc = "done", plain, marred = {}
               PROVE  Restored /\ ~errors
    BY DEF PlainUndone
  <2>1. PICK at : PlainAt(at)
    BY DEF PlainInv, Plainly
  <2>2. Film(at) /\ Back(at[Len(journal) + 1])
    BY <2>1 DEF PlainAt
  <2>3. Len(journal) + 1 = 1
    BY <2>2 DEF Back
  <2>4. at[1] = start.status
    BY <2>2 DEF Film
  <2> QED
    BY <2>2, <2>3, <2>4 DEF Back, Restored, Same
<1> QED
  BY <1>1, <1>2, <1>3, PTL DEF Spec

(* Both together: what the journal is for.                                 *)
THEOREM RollbackIsRight ==
    ASSUME \A t \in Start : MetAt(t.status)
    PROVE  Spec => []RollbackRestores
<1>1. Spec => []RestoredUnlessReported
  BY RollbackRestoresOrReports
<1>2. Spec => []PlainUndone
  BY PlainSessionsAreUndone
<1>3. RestoredUnlessReported /\ PlainUndone => RollbackRestores
  BY DEF RollbackRestores
<1> QED
  BY <1>1, <1>2, <1>3, PTL
==============================================================================
