------------------------------ MODULE UserStore -----------------------------
(***************************************************************************)
(* The file of one user (<users_dir>/<user>.json) and the commands that    *)
(* change it: enrollUser, setLabel, trainUser and removeEmbedding of       *)
(* src/service/auth_engine.cpp, sent by concurrent sessions of the command *)
(* line tool (src/cli/main.cpp).  The files of different users are         *)
(* independent, so one user is enough.                                     *)
(*                                                                         *)
(* The daemon serves one command at a time: it parses the file into a      *)
(* document, changes the document camera by camera and writes the file at  *)
(* the end, truncating it first and ignoring what the stream reports.  A   *)
(* session of "add" is several commands with the user's typing in between, *)
(* and commands of other sessions are served there.                        *)
(*                                                                         *)
(* An embedding is abstracted to the set of sessions whose captures went   *)
(* into it ("old" for those of earlier sessions); the empty set stands for *)
(* a key that is absent.  An array of embeddings is the set of its entries *)
(* with their positions.                                                   *)
(***************************************************************************)
EXTENDS Integers, Sequences, FiniteSets, FiniteSetsExt

CONSTANTS
    Sessions,       \* runs of the command line tool, one command each
    Types,          \* camera types
    Layouts,        \* the types of the active cameras, in order
    Labels,         \* labels as the daemon reads them
    Typed,          \* labels as they are typed
    Word,           \* what is left of a typed label after the wire
    NoWord,         \* nothing is left of it
    MaxEmbeddings,  \* max_embeddings; 0 is unlimited
    InitialFiles    \* the files a daemon may find

Default  == "default"
Sources  == Sessions \cup {"old"}
Entries  == [at: Nat, label: Labels, data: SUBSET Sources]
Docs     == [pending: [Types -> SUBSET Sources],    \* _pending_<type>
             legacy:  [Types -> SUBSET Sources],    \* embedding_<type>
             array:   [Types -> BOOLEAN],           \* embeddings_<type> exists
             entries: [Types -> SUBSET Entries]]    \* and its elements
Files    == [state: {"absent", "ok", "corrupt"}, doc: Docs]
Ops      == {"ADD_USER", "SET_LABEL", "TRAIN_USER", "TRAIN_NEW", "REMOVE_EMBEDDING"}

\* No file the daemon wrote has both formats of one type.
Shadowed(d) == \E t \in Types : d.array[t] /\ d.legacy[t] # {}

ASSUME StoreAssumption ==
    /\ Layouts \subseteq Seq(Types)
    /\ Default \in Labels
    /\ NoWord \notin Labels
    /\ Word \in [Typed -> Labels \cup {NoWord}]
    /\ MaxEmbeddings \in Nat
    /\ InitialFiles \subseteq Files
    /\ \A f \in InitialFiles : ~Shadowed(f.doc)
    /\ \A f \in InitialFiles, t \in Types : f.doc.entries[t] # {} => f.doc.array[t]
    /\ \A f \in InitialFiles, t \in Types :
         {e.at : e \in f.doc.entries[t]} = 1 .. Cardinality(f.doc.entries[t])
    /\ \A f \in InitialFiles, t \in Types : IsFiniteSet(f.doc.entries[t])

NoDoc == [pending |-> [t \in Types |-> {}], legacy  |-> [t \in Types |-> {}],
          array   |-> [t \in Types |-> FALSE], entries |-> [t \in Types |-> {}]]
Cut   == [state |-> "corrupt", doc |-> NoDoc]
Idle  == [op |-> "idle"]

VARIABLES
    file,     \* the user's file: absent, not parseable, or a document
    layout,   \* the types of the active cameras
    job,      \* the command being served and its document j
    sess      \* the sessions: where they are and what they printed at the end

vars == <<file, layout, job, sess>>

-----------------------------------------------------------------------------
(* Documents.                                                               *)

Labelled(s, l) == {e \in s : e.label = l}
First(s, l)    == CHOOSE e \in Labelled(s, l) : \A k \in Labelled(s, l) : e.at <= k.at
Full(s)        == MaxEmbeddings > 0 /\ Cardinality(s) >= MaxEmbeddings

Add(s, l, x) == s \cup {[at |-> 1 + Max({0} \cup {e.at : e \in s}), label |-> l, data |-> x]}

\* Give the first entry with the label the data x, or add an entry.
Put(s, l, x) ==
    IF Labelled(s, l) = {} THEN Add(s, l, x)
    ELSE (s \ {First(s, l)}) \cup {[First(s, l) EXCEPT !.data = x]}

\* Average the first entry with the label with a new capture, or add an entry.
Refine(s, l, x) ==
    IF Labelled(s, l) = {} THEN Add(s, l, x)
    ELSE Put(s, l, First(s, l).data \cup x)

Migrated(d, t) == IF d.legacy[t] = {} THEN {}
                  ELSE {[at |-> 1, label |-> Default, data |-> d.legacy[t]]}

\* A bug to compare with: the old key is left where it is.
MigrateCopying(d, t) ==
    IF d.array[t] THEN d
    ELSE [d EXCEPT !.array[t] = TRUE, !.entries[t] = Migrated(d, t)]

\* Another: the old key is erased and its embedding with it.
MigrateLosing(d, t) ==
    IF d.array[t] THEN d ELSE [d EXCEPT !.array[t] = TRUE, !.legacy[t] = {}]

\* Create the array of a type; a single embedding of the old format becomes its
\* first element, labelled "default".
Migrate(d, t) ==
    IF d.array[t] THEN d
    ELSE [d EXCEPT !.array[t] = TRUE, !.legacy[t] = {}, !.entries[t] = Migrated(d, t)]

\* listEmbeddings; "default (legacy)" contains the label "default".
Listed(d) ==
    UNION {{e.label : e \in d.entries[layout[c]]}
             \cup {e.label : e \in Migrated(d, layout[c])} : c \in DOMAIN layout}

-----------------------------------------------------------------------------
(* The command line tool.                                                   *)

Init ==
    /\ file \in InitialFiles
    /\ layout \in Layouts
    /\ job = Idle
    /\ sess = [s \in Sessions |-> [pc |-> "start", typed |-> {}, listed |-> {}, said |-> "nothing"]]

\* The tool reads the answer r of op ("" when the connection was closed without).
\* It prints that an embedding is saved unless the answer is empty or an error.
Answer(s, op, r) ==
    LET enrolled == op = "ADD_USER" /\ r = "SUCCESS"
        saved    == op = "SET_LABEL" /\ r \notin {"", "ERROR"}
    IN  sess' = [sess EXCEPT ![s].pc   = IF enrolled THEN "list" ELSE "done",
                             ![s].said = IF saved THEN "saved" ELSE @]

\* A command is sent.  The daemon may be out of reach.  A file that does not parse
\* makes its handler throw, and all but ADD_USER need a file.
Serve(s, op, l) ==
    /\ job = Idle
    /\ UNCHANGED <<file, layout>>
    /\ \/ Answer(s, op, "") /\ UNCHANGED job
       \/ file.state = "corrupt" /\ Answer(s, op, "ERROR") /\ UNCHANGED job
       \/ file.state = "absent" /\ op # "ADD_USER" /\ Answer(s, op, "FAIL") /\ UNCHANGED job
       \/ /\ file.state = "ok" \/ (file.state = "absent" /\ op = "ADD_USER")
          /\ job' = [op |-> op, by |-> s, label |-> l, cam |-> 1, doc |-> file.doc,
                     updated |-> FALSE]
          /\ sess' = [sess EXCEPT ![s].pc = "wait"]

\* A request without the label it needs is refused.
Refused(s, op) == job = Idle /\ Answer(s, op, "ERROR") /\ UNCHANGED <<file, layout, job>>

AddUser(s) == sess[s].pc = "start" /\ Serve(s, "ADD_USER", Default)

\* train, train --new and remove.  Without a label the daemon trains "default".
TrainOrRemove(s, op, t) ==
    /\ sess[s].pc = "start"
    /\ op \in {"TRAIN_USER", "TRAIN_NEW", "REMOVE_EMBEDDING"}
    /\ IF Word[t] # NoWord THEN Serve(s, op, Word[t])
       ELSE IF op = "REMOVE_EMBEDDING" THEN Refused(s, op)
       ELSE Serve(s, op, Default)

\* After the enrolment the labels are listed ...
List(s) ==
    /\ sess[s].pc = "list"
    /\ job = Idle
    /\ \E answered \in BOOLEAN :
         sess' = [sess EXCEPT ![s].pc = "prompt",
                              ![s].listed = IF answered /\ file.state = "ok"
                                            THEN Listed(file.doc) ELSE {}]
    /\ UNCHANGED <<file, layout, job>>

\* ... and the user types one.  The tool asks whether to overwrite when the text
\* occurs anywhere in the answer, so certainly when it is a label that was listed.
Type(s, t) ==
    /\ sess[s].pc = "prompt"
    /\ \E ask \in BOOLEAN :
         /\ t \in sess[s].listed => ask
         /\ sess' = [sess EXCEPT ![s].typed = {t}, ![s].pc = IF ask THEN "ask" ELSE "go"]
    /\ UNCHANGED <<file, layout, job>>

Cancel(s) ==
    /\ sess[s].pc = "ask"
    /\ sess' = [sess EXCEPT ![s].pc = "done", ![s].said = "discarded"]
    /\ UNCHANGED <<file, layout, job>>

SetLabel(s) ==
    /\ sess[s].pc \in {"ask", "go"}
    /\ \E t \in sess[s].typed :
         IF Word[t] # NoWord THEN Serve(s, "SET_LABEL", Word[t]) ELSE Refused(s, "SET_LABEL")

-----------------------------------------------------------------------------
(* The daemon: one iteration of a command's loop over the cameras.          *)

\* A bug to compare with: an early return that leaves the client without an answer.
AbandonSilently(r) == job' = Idle /\ UNCHANGED <<file, layout, sess>>

Abandon(r) ==
    /\ job' = Idle
    /\ Answer(job.by, job.op, r)
    /\ UNCHANGED <<file, layout>>

NextCamera(d, updated) ==
    /\ job' = [job EXCEPT !.cam = @ + 1, !.doc = d, !.updated = @ \/ updated]
    /\ UNCHANGED <<file, layout, sess>>

AtCamera(op) == job.op = op /\ job.cam <= Len(layout)
CameraType   == layout[job.cam]

\* What a camera gives: exactly one face; no frame, no face or several; an exception.
Captures == {"one", "none", "throws"}

\* A bug to compare with: a camera that fails is skipped, as training does.
AddCameraSkipping(o) ==
    /\ AtCamera("ADD_USER")
    /\ IF o = "throws" THEN Abandon("ERROR")
       ELSE IF o = "none" THEN NextCamera(job.doc, FALSE)
       ELSE NextCamera([job.doc EXCEPT !.pending[CameraType] = {job.by}], TRUE)

AddCamera(o) ==
    /\ AtCamera("ADD_USER")
    /\ CASE o = "one"    -> NextCamera([job.doc EXCEPT !.pending[CameraType] = {job.by}], TRUE)
         [] o = "none"   -> Abandon("FAIL")
         [] o = "throws" -> Abandon("ERROR")

\* A bug to compare with: the label is given, the pending embedding stays.
LabelCameraKeepingPending ==
    /\ AtCamera("SET_LABEL")
    /\ LET t == CameraType
           x == job.doc.pending[t]
           d == Migrate(job.doc, t)
       IN  IF x = {} THEN NextCamera(job.doc, FALSE)
           ELSE IF Full(d.entries[t]) /\ Labelled(d.entries[t], job.label) = {}
           THEN Abandon("FAIL")
           ELSE NextCamera([d EXCEPT !.entries[t] = Put(@, job.label, x)], TRUE)

\* setLabel: the pending embedding of the type gets the label.  At the limit an
\* embedding can be replaced but none added; then nothing is written at all.
LabelCamera ==
    /\ AtCamera("SET_LABEL")
    /\ LET t == CameraType
           x == job.doc.pending[t]
           d == Migrate(job.doc, t)
       IN  IF x = {} THEN NextCamera(job.doc, FALSE)
           ELSE IF Full(d.entries[t]) /\ Labelled(d.entries[t], job.label) = {}
           THEN Abandon("FAIL")
           ELSE NextCamera([d EXCEPT !.pending[t] = {},
                                     !.entries[t] = Put(@, job.label, x)], TRUE)

\* A bug to compare with: the new capture takes the place of what was learnt before.
TrainDocForgetting(d, t) ==
    [d EXCEPT !.entries[t] = IF job.op = "TRAIN_NEW" THEN Add(@, job.label, {job.by})
                             ELSE Put(@, job.label, {job.by})]

TrainDoc(d, t) ==
    [d EXCEPT !.entries[t] = IF job.op = "TRAIN_NEW" THEN Add(@, job.label, {job.by})
                             ELSE Refine(@, job.label, {job.by})]

\* A bug to compare with: the limit is checked once, before the loop.
TrainCameraCheckingOnce(o) ==
    /\ AtCamera("TRAIN_USER") \/ AtCamera("TRAIN_NEW")
    /\ LET t == CameraType
           d == Migrate(job.doc, t)
       IN  IF o = "throws" THEN Abandon("ERROR")
           ELSE IF o = "none" THEN NextCamera(job.doc, FALSE)
           ELSE IF job.op = "TRAIN_NEW" /\ job.cam = 1 /\ Full(d.entries[t])
           THEN Abandon("FAIL")
           ELSE NextCamera(TrainDoc(d, t), TRUE)

\* trainUser: with create_new an entry is added unless the array is full, whatever
\* labels it has; otherwise an entry is refined, or added without a limit.
TrainCamera(o) ==
    /\ AtCamera("TRAIN_USER") \/ AtCamera("TRAIN_NEW")
    /\ LET t == CameraType
           d == Migrate(job.doc, t)
       IN  IF o = "throws" THEN Abandon("ERROR")
           ELSE IF o = "none" THEN NextCamera(job.doc, FALSE)
           ELSE IF job.op = "TRAIN_NEW" /\ Full(d.entries[t]) THEN Abandon("FAIL")
           ELSE NextCamera(TrainDoc(d, t), TRUE)

RemoveCamera ==
    /\ AtCamera("REMOVE_EMBEDDING")
    /\ LET gone == Labelled(job.doc.entries[CameraType], job.label)
       IN  NextCamera([job.doc EXCEPT !.entries[CameraType] = @ \ gone], gone # {})

\* std::ofstream truncates the file and writes the document.  The file may not
\* open, the write may be cut short; nobody looks.
Write(d) == file' \in {[state |-> "ok", doc |-> d], Cut, file}

Writing == job # Idle /\ job.cam > Len(layout) /\ (job.updated \/ job.op = "ADD_USER")

\* After the loop.
FinishJob ==
    /\ job # Idle
    /\ job.cam > Len(layout)
    /\ IF Writing THEN Write(job.doc) ELSE UNCHANGED file
    /\ Answer(job.by, job.op, IF Writing THEN "SUCCESS" ELSE "FAIL")
    /\ job' = Idle
    /\ UNCHANGED layout

\* The daemon dies, in the middle of a write perhaps, and is started again, perhaps
\* with other cameras.
DaemonRestarts ==
    /\ job # Idle \/ Layouts # {layout}
    /\ IF Writing THEN Write(job.doc) ELSE UNCHANGED file
    /\ IF job # Idle THEN Answer(job.by, job.op, "") ELSE UNCHANGED sess
    /\ job' = Idle
    /\ layout' \in Layouts

Next ==
    \/ \E s \in Sessions : AddUser(s)
    \/ \E s \in Sessions, op \in Ops, t \in Typed : TrainOrRemove(s, op, t)
    \/ \E s \in Sessions : List(s)
    \/ \E s \in Sessions, t \in Typed : Type(s, t)
    \/ \E s \in Sessions : Cancel(s)
    \/ \E s \in Sessions : SetLabel(s)
    \/ \E o \in Captures : AddCamera(o)
    \/ LabelCamera
    \/ \E o \in Captures : TrainCamera(o)
    \/ RemoveCamera
    \/ FinishJob
    \/ DaemonRestarts

Spec == Init /\ [][Next]_vars

-----------------------------------------------------------------------------
(* Properties.                                                              *)

Jobs == [op: Ops, by: Sessions, label: Labels, cam: Nat \ {0}, doc: Docs, updated: BOOLEAN]

Progress == [pc: {"start", "wait", "list", "prompt", "ask", "go", "done"},
             typed: SUBSET Typed, listed: SUBSET Labels,
             said: {"nothing", "saved", "discarded"}]

\* The states the code can be in, for the file, the command and the sessions; at
\* most one session waits for the daemon, and it is the one being served.
StoreTypeOK ==
    /\ file \in Files
    /\ layout \in Layouts
    /\ job \in {Idle} \cup Jobs
    /\ sess \in [Sessions -> Progress]
    /\ \A s \in Sessions : sess[s].pc = "wait" <=> job # Idle /\ job.by = s

\* The embeddings of a type that verifyUserCore compares a face with: those of the
\* array, and the single one of the old format only when there is no array.
Templates(d, t) == IF d.array[t] THEN d.entries[t] ELSE Migrated(d, t)

\* An embedding of the old format is never hidden by an array of the new one, in
\* the file or in the document of a command: whichever command meets it first
\* moves it (setLabel, trainUser).
NothingShadowed == ~Shadowed(file.doc) /\ (job # Idle => ~Shadowed(job.doc))

Others(d, t, l) == {e \in Templates(d, t) : e.label # l}

\* Whatever the interleaving of sessions, restarts and failing writes, a file that
\* still parses after a step holds every embedding it held before, under the same
\* label and with the same data, but for the label the command named.
OnlyTheNamedLabel ==
    [][ file' # file /\ file'.state = "ok" =>
          \A t \in Types : Others(file'.doc, t, job.label) = Others(file.doc, t, job.label) ]_vars

\* Enrolment is all or nothing over the cameras: when it changes a file, every
\* camera type of the layout has a pending embedding of this very session.
EnrolledEverywhere ==
    [][ job.op = "ADD_USER" /\ file' # file /\ file'.state = "ok" =>
          \A c \in DOMAIN layout : file'.doc.pending[layout[c]] = {job.by} ]_vars

\* The limit holds against setLabel and trainUser with create_new, for any number
\* of cameras of one type: such a command lets no array grow beyond it.
LimitHolds ==
    [][ file' # file /\ file'.state = "ok" /\ MaxEmbeddings > 0 /\ job.op # "TRAIN_USER" =>
          \A t \in Types :
            \/ Cardinality(file'.doc.entries[t]) <= MaxEmbeddings
            \/ Cardinality(file'.doc.entries[t]) <= Cardinality(Templates(file.doc, t)) ]_vars

\* A label that was written: the first embedding with it is, for the type of each
\* camera, the pending one, and nothing of that type is pending any more; what is
\* pending of a type that no camera has now stays pending, unchanged.
PendingIsLabelled ==
    [][ job.op = "SET_LABEL" /\ file' # file /\ file'.state = "ok" =>
          /\ \A c \in DOMAIN layout :
                LET t == layout[c] IN
                /\ file'.doc.pending[t] = {}
                /\ file.doc.pending[t] # {} =>
                     First(file'.doc.entries[t], job.label).data = file.doc.pending[t]
          /\ \A t \in Types \ Range(layout) : file'.doc.pending[t] = file.doc.pending[t] ]_vars

\* What the commands do to the file is one step of Gallery: in whichever format the
\* file is and however many cameras there are, a print changes by one whole command,
\* under the label it names, from a capture of its own session or the one that was
\* pending; nothing else gets into a print and none disappears, but all at once.
PrintsOf(d) ==
    [t \in Types |-> {[label |-> e.label, data |-> e.data] : e \in Templates(d, t)}]

G == INSTANCE Gallery WITH People <- Sessions, prints <- PrintsOf(file.doc),
                           waiting <- file.doc.pending, readable <- file.state # "corrupt"

ImplementsGallery == G!Spec
=============================================================================
