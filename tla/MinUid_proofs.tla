---------------------------- MODULE MinUid_proofs ----------------------------
(***************************************************************************)
(* Proofs about MinUid for files of any length, all texts and all widths   *)
(* of the integers.                                                        *)
(*                                                                         *)
(* That the readers agree in the end is not inductive: Together says       *)
(* that, while the file is plain, both are in the same section and have    *)
(* stored the same entries, and ZerosRead where a stored 0 has come from.  *)
(***************************************************************************)
EXTENDS MinUid, TLAPS

-----------------------------------------------------------------------------
(* The two conversions.                                                     *)

\* The cast of the module gives a uid_t, the number itself if it fits, and 0 only of 0
\* and of what it wraps.
LEMMA StrtoulIsUid ==
    ASSUME NEW n \in Nat
    PROVE  /\ Strtoul(n) \in Uids
           /\ n < UidMod => Strtoul(n) = n
           /\ Strtoul(n) = 0 => n = 0 \/ (n \in 1 .. LongMax /\ n % UidMod = 0)
<1>1. /\ UidMod \in Nat /\ UidMod > 0 /\ LongMax \in Nat /\ UidMod <= LongMax
      /\ LongMax % UidMod # 0
    BY MinUidAssumption DEF MinUidAssumption
<1>2. \A k \in Nat : k % UidMod \in 0 .. UidMod - 1 /\ (k < UidMod => k % UidMod = k)
    BY <1>1
<1> QED
    BY <1>1, <1>2 DEF Strtoul, Uids

\* The conversion of the daemon never exceeds an int, and is the number itself if it fits.
LEMMA ParseIntBelow ==
    ASSUME NEW t \in Texts
    PROVE  /\ ParseInt(t) \in Int /\ ParseInt(t) <= IntMax
           /\ t.form = "number" /\ t.sign = "unsigned" /\ t.n <= IntMax => ParseInt(t) = t.n
           /\ ParseInt(t) = 0 /\ Default # 0 => t.form = "number" /\ t.n = 0
BY MinUidAssumption DEF MinUidAssumption, ParseInt

-----------------------------------------------------------------------------
(* The inductive invariant.                                                 *)

ReaderTypes ==
    /\ daemon \in [section : Sections \cup {"top"}, security : Entries, general : Entries]
    /\ pam \in [section : Sections \cup {"top"}, security : Slots, first : Slots]
    /\ plain \in BOOLEAN
    /\ zeros \in BOOLEAN /\ wraps \in BOOLEAN

\* Both readers hold nothing, or the same number.
Match(entry, slot) ==
    IF slot.set
    THEN /\ entry.form = "some" /\ entry.text.form = "number" /\ entry.text.sign = "unsigned"
         /\ entry.text.n <= IntMax /\ entry.text.n = slot.uid
    ELSE entry = None

\* Once [Security] has a value the module looks at no other, and neither value of
\* another section counts.
Together ==
    plain =>
        /\ daemon.section = pam.section
        /\ Match(daemon.security, pam.security)
        /\ ~pam.security.set => Match(daemon.general, pam.first)

\* Whatever holds a 0 was read from a line with a 0, or wrapped in the module.
ZerosRead ==
    /\ \A slot \in {pam.security, pam.first} : slot.set /\ slot.uid = 0 => zeros \/ wraps
    /\ \A entry \in {daemon.security, daemon.general} :
          entry.form = "some" /\ entry.text.form = "number" /\ entry.text.n = 0 => zeros

ReadersInv == ReaderTypes /\ Together /\ ZerosRead

\* At the top of the file neither reader holds anything.
LEMMA ReadersInit == Init => ReadersInv
<1> SUFFICES ASSUME Init PROVE ReadersInv
    OBVIOUS
<1>1. Unset \in Slots
    BY MinUidAssumption DEF MinUidAssumption, Unset, Slots, Uids
<1>2. ReaderTypes
    BY <1>1 DEF Init, ReaderTypes, Entries
<1>3. Together
    BY DEF Init, Together, Match, Unset
<1>4. ZerosRead
    BY DEF Init, ZerosRead, Unset, None
<1> QED
    BY <1>2, <1>3, <1>4 DEF ReadersInv

-----------------------------------------------------------------------------
(* One more line.                                                           *)

\* What is known of a line by its kind.
LEMMA LineFacts ==
    ASSUME NEW line \in Lines
    PROVE  /\ line.kind \in {"section", "min_uid"}
           /\ line.cr \in BOOLEAN
           /\ line.kind = "section" => line.name \in Sections
           /\ line.kind = "min_uid" => line.text \in Texts /\ line.text.n \in Nat
BY MinUidAssumption DEF MinUidAssumption, Lines

\* The daemon's reader keeps its types,
LEMMA DaemonReads ==
    ASSUME ReaderTypes, NEW line \in Lines
    PROVE  ParseIniStream(line) \in
               [section : Sections \cup {"top"}, security : Entries, general : Entries]
BY LineFacts DEF ReaderTypes, ParseIniStream, Entries

\* and so does the module's.
LEMMA ModuleReads ==
    ASSUME ReaderTypes, NEW line \in Lines
    PROVE  ProcessPamConfigLine(line) \in
               [section : Sections \cup {"top"}, security : Slots, first : Slots]
<1>1. line.kind = "min_uid" => Set(Strtoul(line.text.n)) \in Slots
    BY LineFacts, StrtoulIsUid DEF Set, Slots
<1> QED
    BY <1>1, LineFacts DEF ReaderTypes, ProcessPamConfigLine

\* A line of a plain file leaves both readers with the same number.
LEMMA PlainLine ==
    ASSUME ReadersInv, plain, NEW line \in Lines, Plain(line), ReadLine(line)
    PROVE  Together'
<1> USE DEF ReadersInv
<1>1. CASE line.kind = "section"
    BY <1>1 DEF ReadLine, Plain, Together, Match, ParseIniStream, ProcessPamConfigLine, ReaderTypes
<1>2. CASE line.kind = "min_uid"
  <2>1. /\ line.text \in Texts /\ line.text.n \in Nat /\ line.text.form = "number"
        /\ line.text.sign = "unsigned" /\ line.text.n <= IntMax /\ Valid(line.text)
      BY <1>2, LineFacts DEF Plain, Valid
  <2>2. Strtoul(line.text.n) = line.text.n
      BY <2>1, StrtoulIsUid, MinUidAssumption DEF MinUidAssumption
  <2> DEFINE entry == [form |-> "some", text |-> line.text, cr |-> line.cr]
  <2>3. Match(entry, Set(Strtoul(line.text.n)))
      BY <2>1, <2>2 DEF Match, Set
  <2>4. CASE pam.section = "Security"
    <3>1. daemon.section = "Security"
        BY <2>4 DEF Together
    <3>2. daemon' = [daemon EXCEPT !.security = entry]
        BY <1>2, <3>1 DEF ReadLine, ParseIniStream
    <3>3. pam' = [pam EXCEPT !.security = Set(Strtoul(line.text.n))]
        BY <1>2, <2>1, <2>4 DEF ReadLine, ProcessPamConfigLine
    <3>4. /\ daemon'.section = pam'.section
          /\ daemon'.security = entry
          /\ pam'.security = Set(Strtoul(line.text.n))
        BY <2>4, <3>1, <3>2, <3>3 DEF ReaderTypes
    <3> QED
        BY <2>3, <3>4 DEF Together, Match, Set
  <2>5. CASE pam.section = "General" /\ daemon.general = None
    <3>1. daemon.section = "General"
        BY <2>5 DEF Together
    <3>2. daemon' = [daemon EXCEPT !.general = entry]
        BY <1>2, <3>1 DEF ReadLine, ParseIniStream
    <3>3. CASE pam.security.set
      <4>1. pam' = pam
          BY <1>2, <2>1, <2>5, <3>3 DEF ReadLine, ProcessPamConfigLine
      <4>2. daemon'.section = daemon.section /\ daemon'.security = daemon.security
          BY <3>2 DEF ReaderTypes
      <4> QED
          BY <3>3, <4>1, <4>2 DEF Together, Match
    <3>4. CASE ~pam.security.set
      <4>1. ~pam.first.set
          BY <2>5, <3>4 DEF Together, Match, None
      <4>2. pam' = [pam EXCEPT !.first = Set(Strtoul(line.text.n))]
          BY <1>2, <2>1, <2>5, <3>4, <4>1 DEF ReadLine, ProcessPamConfigLine
      <4>3. /\ daemon'.section = daemon.section /\ pam'.section = pam.section
            /\ daemon'.security = daemon.security /\ pam'.security = pam.security
            /\ daemon'.general = entry
            /\ pam'.first = Set(Strtoul(line.text.n))
          BY <3>2, <4>2 DEF ReaderTypes
      <4> QED
          BY <2>3, <4>3 DEF Together, Match, Set
    <3> QED
        BY <3>3, <3>4
  <2> QED
      BY <1>2, <2>4, <2>5 DEF Plain
<1> QED
    BY <1>1, <1>2, LineFacts

\* Only the value of the line itself is new in a reader.
LEMMA DaemonZeros ==
    ASSUME ReadersInv, NEW line \in Lines, ReadLine(line)
    PROVE  \A entry \in {daemon'.security, daemon'.general} :
              entry.form = "some" /\ entry.text.form = "number" /\ entry.text.n = 0 => zeros'
<1> DEFINE new == [form |-> "some", text |-> line.text, cr |-> line.cr]
<1>1. /\ daemon'.security \in {daemon.security, new}
      /\ daemon'.general \in {daemon.general, new}
      /\ (daemon'.security # daemon.security \/ daemon'.general # daemon.general)
            => line.kind = "min_uid"
    BY DEF ReadersInv, ReaderTypes, ReadLine, ParseIniStream
<1>2. zeros => zeros'
    BY DEF ReadLine, Remember
<1>3. line.kind = "min_uid" /\ line.text.form = "number" /\ line.text.n = 0 => zeros'
    BY DEF ReadLine, Remember, WritesZero
<1>4. \A entry \in {daemon.security, daemon.general} :
        entry.form = "some" /\ entry.text.form = "number" /\ entry.text.n = 0 => zeros'
    BY <1>2 DEF ReadersInv, ZerosRead
<1> QED
    BY <1>1, <1>3, <1>4

\* The module takes a 0 only from a line with a 0 or one it wraps.
LEMMA ModuleZeros ==
    ASSUME ReadersInv, NEW line \in Lines, pam' = ProcessPamConfigLine(line),
           Remember(line)
    PROVE  \A slot \in {pam'.security, pam'.first} :
              slot.set /\ slot.uid = 0 => zeros' \/ wraps'
<1> DEFINE new == Set(Strtoul(line.text.n))
<1>1. /\ pam'.security \in {pam.security, new}
      /\ pam'.first \in {pam.first, new}
      /\ (pam'.security # pam.security \/ pam'.first # pam.first)
            => line.kind = "min_uid" /\ Valid(line.text)
    BY DEF ReadersInv, ReaderTypes, ProcessPamConfigLine
<1>2. line.kind = "min_uid" /\ Valid(line.text) /\ new.uid = 0 => zeros' \/ wraps'
    BY LineFacts, StrtoulIsUid DEF Remember, WritesZero, WrapsToZero, Valid, Set
<1>3. \A slot \in {pam.security, pam.first} : slot.set /\ slot.uid = 0 => zeros' \/ wraps'
    BY DEF ReadersInv, ZerosRead, Remember
<1> QED
    BY <1>1, <1>2, <1>3

\* Every line keeps the invariant.
LEMMA ReadersStep == ReadersInv /\ [Next]_vars => ReadersInv'
<1> SUFFICES ASSUME ReadersInv, [Next]_vars PROVE ReadersInv'
    OBVIOUS
<1>1. ASSUME NEW line \in Lines, ReadLine(line) PROVE ReadersInv'
  <2>1. ReaderTypes'
      BY <1>1, DaemonReads, ModuleReads
      DEF ReadersInv, ReaderTypes, ReadLine, Remember, WritesZero, WrapsToZero, Plain
  <2>2. Together'
    <3>1. CASE plain /\ Plain(line)
        BY <1>1, <3>1, PlainLine
    <3>2. CASE ~(plain /\ Plain(line))
        BY <1>1, <3>2 DEF ReadLine, Together
    <3> QED
        BY <3>1, <3>2
  <2>3. ZerosRead'
      BY <1>1, DaemonZeros, ModuleZeros DEF ZerosRead, ReadLine
  <2> QED
      BY <2>1, <2>2, <2>3 DEF ReadersInv
<1>2. ASSUME NEW line \in Lines, ReadTail(line) PROVE ReadersInv'
  <2>1. ReaderTypes'
      BY <1>2, ModuleReads
      DEF ReadersInv, ReaderTypes, ReadTail, Remember, WritesZero, WrapsToZero
  <2>2. Together'
      BY <1>2 DEF ReadTail, Together
  <2>3. \A entry \in {daemon'.security, daemon'.general} :
          entry.form = "some" /\ entry.text.form = "number" /\ entry.text.n = 0 => zeros'
      BY <1>2 DEF ReadersInv, ZerosRead, ReadTail, Remember
  <2>4. ZerosRead'
      BY <1>2, <2>3, ModuleZeros DEF ZerosRead, ReadTail
  <2> QED
      BY <2>1, <2>2, <2>4 DEF ReadersInv
<1>3. CASE UNCHANGED vars
    BY <1>3 DEF vars, ReadersInv, ReaderTypes, Together, ZerosRead
<1> QED
    BY <1>1, <1>2, <1>3 DEF Next

\* ReadersInv is an invariant.
LEMMA AlwaysReaders == Spec => []ReadersInv
BY ReadersInit, ReadersStep, PTL DEF Spec

-----------------------------------------------------------------------------
(* The results.                                                             *)

\* The value the daemon's reader takes its answer from is none or one of its two.
LEMMA EntryText ==
    ASSUME NEW entry \in Entries, ~Empty(entry)
    PROVE  entry.form = "some" /\ entry.text \in Texts
BY DEF Entries, Empty, None

\* What either reader makes of any file is a uid (parse_int, strtoul and the casts).
THEOREM MinUidTypes == Spec => []MinUidTypeOK
<1>1. ReadersInv => MinUidTypeOK
  <2> SUFFICES ASSUME ReadersInv PROVE MinUidTypeOK
      OBVIOUS
  <2>1. ReaderTypes
      BY DEF ReadersInv
  <2>2. DaemonMinUid \in 0 .. IntMax
    <3>1. daemon.security \in Entries /\ daemon.general \in Entries
        BY <2>1 DEF ReaderTypes
    <3> QED
        BY <3>1, EntryText, ParseIntBelow, MinUidAssumption DEF MinUidAssumption, DaemonMinUid
  <2>3. ResolvePamConfig \in Uids
      BY <2>1, MinUidAssumption DEF MinUidAssumption, ReaderTypes, ResolvePamConfig, Slots, Uids
  <2> QED
      BY <2>1, <2>2, <2>3 DEF MinUidTypeOK, ReaderTypes
<1> QED
    BY <1>1, AlwaysReaders, PTL

\* On a plain file the daemon and the module read the same min_uid.
THEOREM PlainFilesAgree == Spec => []SameMinUid
<1>1. ReadersInv => SameMinUid
  <2> SUFFICES ASSUME ReadersInv, plain PROVE DaemonMinUid = ResolvePamConfig
      BY DEF SameMinUid
  <2>1. /\ ReaderTypes
        /\ Match(daemon.security, pam.security)
        /\ ~pam.security.set => Match(daemon.general, pam.first)
      BY DEF ReadersInv, Together
  <2>2. daemon.security \in Entries /\ daemon.general \in Entries
      BY <2>1 DEF ReaderTypes
  <2>3. ASSUME NEW entry \in Entries, NEW slot \in Slots, Match(entry, slot), slot.set
        PROVE  ~Empty(entry) /\ ParseInt(entry.text) = slot.uid /\ slot.uid >= 0
    <3>1. /\ entry.form = "some" /\ entry.text.form = "number" /\ entry.text.sign = "unsigned"
          /\ entry.text.n <= IntMax /\ entry.text.n = slot.uid
        BY <2>3 DEF Match
    <3>2. ~Empty(entry)
        BY <3>1 DEF Empty
    <3>3. entry.text \in Texts
        BY <3>2, EntryText
    <3> QED
        BY <3>1, <3>2, <3>3, ParseIntBelow, MinUidAssumption DEF MinUidAssumption
  <2>4. ASSUME NEW entry, NEW slot, Match(entry, slot), ~slot.set
        PROVE  Empty(entry)
      BY <2>4 DEF Match, Empty, None
  <2>5. pam.security \in Slots /\ pam.first \in Slots
      BY <2>1 DEF ReaderTypes
  <2>6. CASE pam.security.set
    <3>1. ~Empty(daemon.security) /\ ParseInt(daemon.security.text) = pam.security.uid
          /\ pam.security.uid >= 0
        BY <2>1, <2>2, <2>3, <2>5, <2>6
    <3> QED
        BY <2>5, <2>6, <3>1 DEF DaemonMinUid, ResolvePamConfig, Slots, Uids
  <2>7. CASE ~pam.security.set /\ pam.first.set
    <3>1. Empty(daemon.security)
        BY <2>1, <2>4, <2>7
    <3>2. ~Empty(daemon.general) /\ ParseInt(daemon.general.text) = pam.first.uid
          /\ pam.first.uid >= 0
        BY <2>1, <2>2, <2>3, <2>5, <2>7
    <3> QED
        BY <2>5, <2>7, <3>1, <3>2 DEF DaemonMinUid, ResolvePamConfig, Slots, Uids
  <2>8. CASE ~pam.security.set /\ ~pam.first.set
    <3>1. Empty(daemon.security) /\ Empty(daemon.general)
        BY <2>1, <2>4, <2>8
    <3> QED
        BY <2>8, <3>1, MinUidAssumption DEF MinUidAssumption, DaemonMinUid, ResolvePamConfig
  <2> QED
      BY <2>5, <2>6, <2>7, <2>8 DEF Slots
<1> QED
    BY <1>1, AlwaysReaders, PTL

\* The daemon comes to 0 by a line with a 0 and by nothing else, the module also by one
\* that its cast to uid_t wraps to 0 (parse_int, process_pam_config_line).
THEOREM OffByZeroOrWrap == Spec => []OffOnlyByZeroOrWrap
<1>1. ReadersInv => OffOnlyByZeroOrWrap
  <2> SUFFICES ASSUME ReadersInv, Default # 0
               PROVE  /\ DaemonMinUid = 0 => zeros
                      /\ ResolvePamConfig = 0 => zeros \/ wraps
      BY DEF OffOnlyByZeroOrWrap
  <2>1. ASSUME ResolvePamConfig = 0 PROVE zeros \/ wraps
      BY <2>1 DEF ReadersInv, ZerosRead, ResolvePamConfig
  <2>2. ASSUME DaemonMinUid = 0 PROVE zeros
    <3> DEFINE entry == IF Empty(daemon.security) THEN daemon.general ELSE daemon.security
    <3>1. entry \in Entries /\ entry \in {daemon.security, daemon.general}
        BY DEF ReadersInv, ReaderTypes
    <3>2. ~Empty(entry) /\ ParseInt(entry.text) = 0
        BY <2>2 DEF DaemonMinUid
    <3> HIDE DEF entry
    <3>3. entry.form = "some" /\ entry.text.form = "number" /\ entry.text.n = 0
        BY <3>1, <3>2, EntryText, ParseIntBelow
    <3> QED
        BY <3>1, <3>3 DEF ReadersInv, ZerosRead
  <2> QED
      BY <2>1, <2>2
<1> QED
    BY <1>1, AlwaysReaders, PTL
=============================================================================
