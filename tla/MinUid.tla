------------------------------- MODULE MinUid -------------------------------
(***************************************************************************)
(* The two hand-written INI readers that read min_uid from the same file:   *)
(* parse_ini_stream and the end of parse_ini_into_self in the daemon        *)
(* (src/service/config.cpp), process_pam_config_line and resolve_pam_config *)
(* in the PAM module (src/pam/pam_config.hpp).  Both go through the file    *)
(* line by line; a step of this specification is one more line, so what     *)
(* holds in every state holds of every file.                                *)
(*                                                                          *)
(* Only lines that matter to min_uid are modelled: section headers and      *)
(* "min_uid = text".  A line may end in a carriage return, which the module *)
(* strips and the daemon keeps, and may be longer than the buffer of fgets, *)
(* which the module then takes for several lines.                           *)
(***************************************************************************)
EXTENDS Integers

CONSTANTS
    Texts,     \* what may stand right of "min_uid ="
    Sections,  \* the section names of the file
    IntMax,    \* the largest int
    UidMod,    \* the number of values of uid_t
    LongMax,   \* the largest unsigned long
    Default    \* DEFAULT_MIN_UID

\* A text is empty, starts with a number (a sign and digits), or is anything else.
Numbers == {t \in Texts : t.form = "number"}

ASSUME MinUidAssumption ==
    /\ \A t \in Texts : /\ t.form \in {"empty", "junk", "number"}
                        /\ t.sign \in {"unsigned", "plus", "minus"}
                        /\ t.n \in Nat
    /\ {"Security", "General"} \subseteq Sections
    /\ IntMax \in Nat /\ UidMod \in Nat /\ LongMax \in Nat
    /\ IntMax < UidMod /\ UidMod <= LongMax /\ LongMax % UidMod # 0
    /\ Default \in 0 .. IntMax

\* Before the first header the section is "top".
ASSUME NoSection == "top" \notin Sections

VARIABLES
    daemon,   \* the daemon's map: the section, Security.min_uid, General.min_uid
    pam,      \* PamConfigState: the section, the value of [Security], the first other
    plain,    \* history: every line so far is one both readers are meant for
    zeros,    \* history: a min_uid of 0 was read
    wraps     \* history: a min_uid was read that is 0 only once it is cut to a uid_t

vars == <<daemon, pam, plain, zeros, wraps>>

None == [form |-> "none"]

Lines ==
    [kind : {"section"}, name : Sections, cr : BOOLEAN]
        \cup [kind : {"min_uid"}, text : Texts, cr : BOOLEAN]

-----------------------------------------------------------------------------
(* The daemon.                                                              *)

\* A header needs ']' as its last character; the last value of a key wins.
ParseIniStream(line) ==
    CASE line.kind = "section" ->
            IF line.cr THEN daemon ELSE [daemon EXCEPT !.section = line.name]
      [] line.kind = "min_uid" /\ daemon.section = "Security" ->
            [daemon EXCEPT !.security = [form |-> "some", text |-> line.text, cr |-> line.cr]]
      [] line.kind = "min_uid" /\ daemon.section = "General" ->
            [daemon EXCEPT !.general = [form |-> "some", text |-> line.text, cr |-> line.cr]]
      [] OTHER -> daemon

\* A missing key is an empty string; a carriage return is not.
Empty(entry) == entry.form = "none" \/ (entry.text.form = "empty" /\ ~entry.cr)

\* from_chars knows no '+', and leaves the default alone when it fails.
ParseInt(text) ==
    IF text.form # "number" \/ text.sign = "plus" \/ text.n > IntMax THEN Default
    ELSE IF text.sign = "minus" THEN -text.n
    ELSE text.n

DaemonMinUid ==
    LET entry  == IF Empty(daemon.security) THEN daemon.general ELSE daemon.security
        parsed == IF Empty(entry) THEN Default ELSE ParseInt(entry.text)
    IN IF parsed < 0 THEN Default ELSE parsed

-----------------------------------------------------------------------------
(* The PAM module.                                                          *)

\* A bug to compare with: the result is not cut.
StrtoulWide(n) == IF n > LongMax THEN LongMax ELSE n

\* strtoul takes a '+' and saturates; the result is cut to the width of uid_t.
Strtoul(n) == (IF n > LongMax THEN LongMax ELSE n) % UidMod

Unset    == [set |-> FALSE, uid |-> 0]
Set(uid) == [set |-> TRUE, uid |-> uid]

Valid(text) == text.form = "number" /\ text.sign # "minus"

\* A bug to compare with: what strtoul makes of a text without digits is taken.
ProcessPamConfigLineUnchecked(line) ==
    CASE line.kind = "section" -> [pam EXCEPT !.section = line.name]
      [] line.kind = "min_uid" /\ line.text.sign # "minus" ->
            LET uid == IF line.text.form = "number" THEN Strtoul(line.text.n) ELSE 0
            IN IF pam.section = "Security" THEN [pam EXCEPT !.security = Set(uid)]
               ELSE IF ~pam.first.set /\ ~pam.security.set
                    THEN [pam EXCEPT !.first = Set(uid)]
               ELSE pam
      [] OTHER -> pam

\* A bug to compare with: the section's value is kept once it was found.
ProcessPamConfigLineOnce(line) ==
    CASE line.kind = "section" -> [pam EXCEPT !.section = line.name]
      [] line.kind = "min_uid" /\ Valid(line.text) ->
            IF pam.section = "Security" /\ ~pam.security.set
            THEN [pam EXCEPT !.security = Set(Strtoul(line.text.n))]
            ELSE IF ~pam.first.set /\ ~pam.security.set
                 THEN [pam EXCEPT !.first = Set(Strtoul(line.text.n))]
            ELSE pam
      [] OTHER -> pam

\* A line without a valid number changes nothing.  Outside [Security] the first
\* value counts, and none after the first in [Security].
ProcessPamConfigLine(line) ==
    CASE line.kind = "section" -> [pam EXCEPT !.section = line.name]
      [] line.kind = "min_uid" /\ Valid(line.text) ->
            IF pam.section = "Security"
            THEN [pam EXCEPT !.security = Set(Strtoul(line.text.n))]
            ELSE IF ~pam.first.set /\ ~pam.security.set
                 THEN [pam EXCEPT !.first = Set(Strtoul(line.text.n))]
            ELSE pam
      [] OTHER -> pam

ResolvePamConfig ==
    IF pam.security.set THEN pam.security.uid
    ELSE IF pam.first.set THEN pam.first.uid
    ELSE Default

-----------------------------------------------------------------------------
(* Reading the file.                                                        *)

Init ==
    /\ daemon = [section |-> "top", security |-> None, general |-> None]
    /\ pam = [section |-> "top", security |-> Unset, first |-> Unset]
    /\ plain = TRUE
    /\ zeros = FALSE
    /\ wraps = FALSE

\* What both readers are meant for: Unix lines, a number without a sign that is an
\* int, in [Security] or once in [General].
Plain(line) ==
    IF line.kind = "section" THEN ~line.cr
    ELSE /\ line.text.form = "number" /\ line.text.sign = "unsigned" /\ line.text.n <= IntMax
         /\ \/ pam.section = "Security"
            \/ pam.section = "General" /\ daemon.general = None

WritesZero(line) ==
    line.kind = "min_uid" /\ line.text.form = "number" /\ line.text.n = 0

\* A number of an unsigned long of which the cast to uid_t leaves nothing: a multiple
\* of 2^32.
WrapsToZero(line) ==
    /\ line.kind = "min_uid" /\ line.text.form = "number"
    /\ line.text.n \in 1 .. LongMax /\ line.text.n % UidMod = 0

Remember(line) ==
    /\ zeros' = (zeros \/ WritesZero(line))
    /\ wraps' = (wraps \/ WrapsToZero(line))

ReadLine(line) ==
    /\ daemon' = ParseIniStream(line)
    /\ pam' = ProcessPamConfigLine(line)
    /\ plain' = (plain /\ Plain(line))
    /\ Remember(line)

\* A comment longer than the buffer of the module: its tail is a line of its own.
ReadTail(line) ==
    /\ pam' = ProcessPamConfigLine(line)
    /\ plain' = FALSE
    /\ Remember(line)
    /\ UNCHANGED daemon

Next == \E line \in Lines : ReadLine(line) \/ ReadTail(line)

Spec == Init /\ [][Next]_vars

-----------------------------------------------------------------------------
(* Properties.                                                              *)

Uids    == 0 .. UidMod - 1
Entries == {None} \cup [form : {"some"}, text : Texts, cr : BOOLEAN]
Slots   == [set : BOOLEAN, uid : Uids]

\* The states of the two readers; whatever the file says, what they read is a uid.
MinUidTypeOK ==
    /\ daemon \in [section : Sections \cup {"top"}, security : Entries, general : Entries]
    /\ pam \in [section : Sections \cup {"top"}, security : Slots, first : Slots]
    /\ plain \in BOOLEAN
    /\ zeros \in BOOLEAN /\ wraps \in BOOLEAN
    /\ DaemonMinUid \in 0 .. IntMax
    /\ ResolvePamConfig \in Uids

\* On a plain file of any length, whatever its sections and their order, the daemon
\* and the module read the same min_uid.
SameMinUid == plain => DaemonMinUid = ResolvePamConfig

\* A min_uid of 0 switches the check off.  The daemon comes to 0 only by a 0 in the
\* file: no line that is empty, garbage, negative or too large does that.  The module
\* comes to 0 also by a positive multiple of 2^32, which its cast cuts to 0, and by
\* nothing else.
OffOnlyByZeroOrWrap ==
    Default # 0 =>
        /\ DaemonMinUid = 0 => zeros
        /\ ResolvePamConfig = 0 => zeros \/ wraps
=============================================================================
