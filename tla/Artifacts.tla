----------------------------- MODULE Artifacts -----------------------------
(***************************************************************************)
(* The artifact store of a project (rust/artifacts.rs, and the artifact    *)
(* objects of src/expr_tracker/artifacts.py that feed it).  Publishers are *)
(* threads of any number of processes; they share the source files of the  *)
(* user, the index file, the version directories and the `.lock` file.     *)
(*                                                                         *)
(* An artifact is a name and entries, each with the digest taken when the  *)
(* entry was added; log() takes the lock, reads the index, and either      *)
(* appends a reuse of the version with the same content or stages the      *)
(* files, checks their bytes against the digests, renames the directory    *)
(* into place and appends the record.  A publisher may die at any step.    *)
(*                                                                         *)
(* A content is its own digest, and an artifact's digest is the function   *)
(* from its logical paths to the digests of the entries.                   *)
(***************************************************************************)
EXTENDS Naturals, Sequences, FiniteSets, SequencesExt

CONSTANTS Procs,      \* publishers
          Names,      \* artifact names
          Sources,    \* files of the user, each entered under one path
          Contents,   \* what a source file can hold
          Aliases,    \* aliases other than "latest"
          Modes,      \* the storage modes in use
          MaxLogs,    \* bound: calls of log()
          MaxErrors,  \* bound: I/O errors
          MaxMishaps, \* bound: crashes, failed removals and damaged lines
          Latest, NoOne, Shared

Digests == UNION {[F -> Contents] : F \in SUBSET Sources}

\* The lines of the index.
Rows == [name : Names, version : Nat, digest : Digests, aliases : SUBSET Aliases,
         reused : BOOLEAN, ok : BOOLEAN, stored : BOOLEAN, whole : BOOLEAN]

\* "latest" is dropped from the aliases an artifact asks for; an alias that
\* reads like a version number would be taken for one by resolve().
ASSUME ArtifactsAssumption ==
    /\ Modes \subseteq {"copy", "link", "reference"}
    /\ {MaxLogs, MaxErrors, MaxMishaps} \subseteq Nat
    /\ NoOne \notin Procs \cup Names \cup Rows
    /\ Shared \notin Contents
    /\ Latest \notin Aliases \cup Nat /\ Aliases \cap Nat = {}

VARIABLES src,      \* [Sources -> Contents]: the user's files, rewritten in place
          index,    \* the lines of index.jsonl
          versions, \* what reading the index yields: Read(index), kept at hand
          dirs,     \* <<name, version>> -> the files of that directory
          holder,   \* who holds .lock
          pc, draft, job,
          logs, errors, mishaps

vars == <<src, index, versions, dirs, holder, pc, draft, job, logs, errors, mishaps>>

NoFiles == CHOOSE d \in Digests : DOMAIN d = {}

\* An artifact object: `files` maps paths to digests, `held` are the entries
\* whose source is still known.
NoDraft == [name |-> NoOne, files |-> NoFiles, held |-> {}]

\* A call of log() under way: the record it will append, what is staged, and
\* the files left to stage.
NoJob == [row |-> NoOne, staged |-> NoFiles, todo |-> {}]

Init ==
    /\ src \in [Sources -> Contents]
    /\ index = <<>> /\ versions = <<>>
    /\ dirs = [k \in {} |-> NoFiles]
    /\ holder = NoOne
    /\ pc = [p \in Procs |-> "idle"]
    /\ draft = [p \in Procs |-> NoDraft]
    /\ job = [p \in Procs |-> NoJob]
    /\ logs = 0 /\ errors = 0 /\ mishaps = 0

-----------------------------------------------------------------------------
(* Reading the index. *)

\* Mutant: an alias stays where it was when another version takes it.
Absorb_Keeping(known, row) ==
    LET own == {k \in DOMAIN known : known[k].name = row.name
                                     /\ known[k].version = row.version}
    IN  IF ~row.ok \/ (row.reused <=> own = {}) THEN known
        ELSE IF ~row.reused THEN Append(known, row)
        ELSE [k \in DOMAIN known |->
                 IF k \in own THEN [known[k] EXCEPT !.aliases = @ \cup row.aliases]
                 ELSE known[k]]

\* One line of the index added to the versions known so far: a damaged line, a
\* reuse of an unknown version and a second record of a known one are skipped;
\* the other versions of the name lose the aliases the line assigns.
Absorb(known, row) ==
    LET own == {k \in DOMAIN known : known[k].name = row.name
                                     /\ known[k].version = row.version}
        rest == [k \in DOMAIN known |->
                    IF known[k].name = row.name /\ k \notin own
                    THEN [known[k] EXCEPT !.aliases = @ \ row.aliases]
                    ELSE known[k]]
    IN  IF ~row.ok \/ (row.reused <=> own = {}) THEN known
        ELSE IF ~row.reused THEN Append(rest, row)
        ELSE [k \in DOMAIN rest |->
                 IF k \in own THEN [rest[k] EXCEPT !.aliases = @ \cup row.aliases]
                 ELSE rest[k]]

Read(lines) ==
    LET known[i \in 0..Len(lines)] ==
            IF i = 0 THEN <<>> ELSE Absorb(known[i - 1], lines[i])
    IN  known[Len(lines)]

\* The index file is replaced by one with these lines.
Replace(lines) == index' = lines /\ versions' = Read(lines)

\* Where the versions of a name are among those that were read.
Versions(n) == {k \in DOMAIN versions : versions[k].name = n}

\* resolve(): Latest takes the last record, a number or an alias the last
\* record that has it; NoOne when there is none.
Selected(n, sel) ==
    LET found == {k \in Versions(n) : \/ sel \in {Latest, versions[k].version}
                                     \/ sel \in versions[k].aliases}
    IN  IF found = {} THEN NoOne ELSE versions[Max(found)]

\* What download() yields of a version: the files among the entries that the
\* directory holds; a missing one is passed over.
Download(row) ==
    LET key == <<row.name, row.version>>
        kept == IF key \in DOMAIN dirs THEN dirs[key] ELSE NoFiles
    IN  [p \in DOMAIN kept \cap DOMAIN row.digest |->
            IF kept[p] = Shared THEN src[p] ELSE kept[p]]

-----------------------------------------------------------------------------
(* The artifact object. *)

New(p, n) ==
    /\ pc[p] = "idle" /\ logs < MaxLogs
    /\ draft[p] = NoDraft
    /\ draft' = [draft EXCEPT ![p].name = n]
    /\ UNCHANGED <<src, index, versions, dirs, holder, pc, job, logs, errors, mishaps>>

\* add_file() hashes the file as it is now and remembers where it lies.
AddFile(p, f) ==
    /\ pc[p] = "idle" /\ draft[p].name # NoOne
    /\ f \notin DOMAIN draft[p].files
    /\ draft' = [draft EXCEPT ![p].files =
                                 [q \in DOMAIN @ \cup {f} |->
                                     IF q = f THEN src[f] ELSE @[q]],
                              ![p].held = @ \cup {f}]
    /\ UNCHANGED <<src, index, versions, dirs, holder, pc, job, logs, errors, mishaps>>

\* An artifact object made from a record of the index knows no sources.
FromRow(row) == [name |-> row.name, files |-> row.digest, held |-> {}]

\* use_artifact(): the object may be extended and logged like any other.
Use(p, n, sel) ==
    /\ pc[p] = "idle" /\ logs < MaxLogs
    /\ Selected(n, sel) # NoOne
    /\ draft' = [draft EXCEPT ![p] = FromRow(Selected(n, sel))]
    /\ UNCHANGED <<src, index, versions, dirs, holder, pc, job, logs, errors, mishaps>>

\* The user rewrites a source file in place.
Rewrite(f, c) ==
    /\ src[f] # c
    /\ src' = [src EXCEPT ![f] = c]
    /\ UNCHANGED <<index, versions, dirs, holder, pc, draft, job, logs, errors, mishaps>>

-----------------------------------------------------------------------------
(* log() *)

\* The record that log() will append: a reuse of the last known version with
\* the same content, or the number after the highest known one.  Two fields
\* are not in the file: whether log() makes a directory for the version, and
\* whether the object knew the source of every file.
Record(d, mode, as) ==
    LET known == Versions(d.name)
        same  == {k \in known : versions[k].digest = d.files}
        next  == IF known = {} THEN 0
                 ELSE 1 + Max({versions[k].version : k \in known})
    IN  IF same # {}
        THEN [versions[Max(same)] EXCEPT !.aliases = @ \cup as, !.reused = TRUE]
        ELSE [name |-> d.name, version |-> next, digest |-> d.files,
              aliases |-> as, reused |-> FALSE, ok |-> TRUE,
              stored |-> mode # "reference",
              whole |-> d.held = DOMAIN d.files]

\* Mutant: the lock is shared.
Enter_Shared(p, mode, as) ==
    /\ pc[p] = "idle" /\ logs < MaxLogs
    /\ draft[p].name # NoOne
    /\ LET row == Record(draft[p], mode, as)
           fresh == ~row.reused /\ mode # "reference"
       IN  /\ job' = [job EXCEPT ![p] = [row |-> row, staged |-> NoFiles,
                          todo |-> IF fresh THEN draft[p].held ELSE {}]]
           /\ pc' = [pc EXCEPT ![p] = IF fresh THEN mode ELSE "append"]
    /\ holder' = p /\ logs' = logs + 1
    /\ UNCHANGED <<src, index, versions, dirs, draft, errors, mishaps>>

\* Take the lock, read the index, decide.
Enter(p, mode, as) ==
    /\ pc[p] = "idle" /\ holder = NoOne /\ logs < MaxLogs
    /\ draft[p].name # NoOne
    /\ LET row == Record(draft[p], mode, as)
           fresh == ~row.reused /\ mode # "reference"
       IN  /\ job' = [job EXCEPT ![p] = [row |-> row, staged |-> NoFiles,
                          todo |-> IF fresh THEN draft[p].held ELSE {}]]
           /\ pc' = [pc EXCEPT ![p] = IF fresh THEN mode ELSE "append"]
    /\ holder' = p /\ logs' = logs + 1
    /\ UNCHANGED <<src, index, versions, dirs, draft, errors, mishaps>>

\* The call ends with an error: the staging directory goes, the lock is free,
\* the artifact object stays as it was.
Fail(p) ==
    /\ pc' = [pc EXCEPT ![p] = "idle"]
    /\ job' = [job EXCEPT ![p] = NoJob]
    /\ holder' = NoOne
    /\ UNCHANGED draft

\* While it stages, a publisher's pc is the storage mode.
Staging(p) == pc[p] \in {"copy", "link"}

\* Mutant: the staged bytes are not compared with the digest of add_file().
StageFile_Unhashed(p, f, linked) ==
    /\ Staging(p) /\ f \in job[p].todo
    /\ linked => pc[p] = "link"
    /\ job' = [job EXCEPT ![p].todo = @ \ {f},
                          ![p].staged = [q \in DOMAIN @ \cup {f} |->
                              IF q # f THEN @[q]
                              ELSE IF linked THEN Shared ELSE src[f]]]
    /\ UNCHANGED <<src, index, versions, dirs, holder, pc, draft, logs, errors, mishaps>>

\* One file into the staging directory: linked where that works, else copied,
\* and hashed there; it must still have the digest of add_file().
StageFile(p, f, linked) ==
    /\ Staging(p) /\ f \in job[p].todo
    /\ linked => pc[p] = "link"
    /\ src[f] = draft[p].files[f]
    /\ job' = [job EXCEPT ![p].todo = @ \ {f},
                          ![p].staged = [q \in DOMAIN @ \cup {f} |->
                              IF q # f THEN @[q]
                              ELSE IF linked THEN Shared ELSE src[f]]]
    /\ UNCHANGED <<src, index, versions, dirs, holder, pc, draft, logs, errors, mishaps>>

\* "Artifact source changed after add_file".
StageChanged(p, f) ==
    /\ Staging(p) /\ f \in job[p].todo
    /\ src[f] # draft[p].files[f]
    /\ Fail(p)
    /\ UNCHANGED <<src, index, versions, dirs, logs, errors, mishaps>>

Destination(p) == <<job[p].row.name, job[p].row.version>>

\* Everything is staged: the directory is renamed into place, unless there is
\* one already, which no record of the index accounts for.
Rename(p) ==
    /\ Staging(p) /\ job[p].todo = {}
    /\ Destination(p) \notin DOMAIN dirs
    /\ dirs' = [k \in DOMAIN dirs \cup {Destination(p)} |->
                   IF k = Destination(p) THEN job[p].staged ELSE dirs[k]]
    /\ pc' = [pc EXCEPT ![p] = "append"]
    /\ job' = [job EXCEPT ![p].staged = NoFiles]
    /\ UNCHANGED <<src, index, versions, holder, draft, logs, errors, mishaps>>

Occupied(p) ==
    /\ Staging(p) /\ job[p].todo = {}
    /\ Destination(p) \in DOMAIN dirs
    /\ Fail(p)
    /\ UNCHANGED <<src, index, versions, dirs, logs, errors, mishaps>>

\* The index with the new line is written beside the old one and renamed over
\* it: a reader sees the one or the other.
AppendIndex(p) ==
    /\ pc[p] = "append"
    /\ Replace(Append(index, job[p].row))
    /\ pc' = [pc EXCEPT ![p] = "done"]
    /\ UNCHANGED <<src, dirs, holder, draft, job, logs, errors, mishaps>>

\* The directory that the call has renamed into place, if any.
Published(p) ==
    IF job[p].row.reused \/ ~job[p].row.stored THEN {} ELSE {Destination(p)}

\* Mutant: the published directory stays when the index cannot be written.
AppendFails_Left(p) ==
    /\ pc[p] = "append" /\ errors < MaxErrors
    /\ Fail(p)
    /\ errors' = errors + 1
    /\ UNCHANGED <<src, index, versions, dirs, logs, mishaps>>

\* Writing the index failed: the directory the call published is removed.
AppendFails(p) ==
    /\ pc[p] = "append" /\ errors < MaxErrors
    /\ dirs' = [k \in DOMAIN dirs \ Published(p) |-> dirs[k]]
    /\ Fail(p)
    /\ errors' = errors + 1
    /\ UNCHANGED <<src, index, versions, logs, mishaps>>

\* The removal failed as well, which no one hears of.
RemovalFails(p) ==
    /\ pc[p] = "append" /\ errors < MaxErrors /\ mishaps < MaxMishaps
    /\ Published(p) # {}
    /\ Fail(p)
    /\ errors' = errors + 1 /\ mishaps' = mishaps + 1
    /\ UNCHANGED <<src, index, versions, dirs, logs>>

\* log() returns.  The object of a fresh version takes over the record, and
\* its entries forget their sources; the object of a reused one keeps them.
Return(p) ==
    /\ pc[p] = "done"
    /\ draft' = [draft EXCEPT ![p] = IF job[p].row.reused THEN @
                                     ELSE FromRow(job[p].row)]
    /\ pc' = [pc EXCEPT ![p] = "idle"]
    /\ job' = [job EXCEPT ![p] = NoJob]
    /\ holder' = NoOne
    /\ UNCHANGED <<src, index, versions, dirs, logs, errors, mishaps>>

-----------------------------------------------------------------------------
(* Mishaps. *)

\* Linking and copying failed, or renaming did.
StageFails(p) ==
    /\ Staging(p) /\ errors < MaxErrors
    /\ Fail(p)
    /\ errors' = errors + 1
    /\ UNCHANGED <<src, index, versions, dirs, logs, mishaps>>

\* A publisher dies inside log(): the system frees the lock, what it renamed
\* stays, its staging directory is left for no one.
Crash(p) ==
    /\ pc[p] # "idle" /\ mishaps < MaxMishaps
    /\ pc' = [pc EXCEPT ![p] = "idle"]
    /\ job' = [job EXCEPT ![p] = NoJob]
    /\ draft' = [draft EXCEPT ![p] = NoDraft]
    /\ holder' = NoOne
    /\ mishaps' = mishaps + 1
    /\ UNCHANGED <<src, index, versions, dirs, logs, errors>>

\* Something else damages a line of the index.
Damage(i) ==
    /\ index[i].ok /\ mishaps < MaxMishaps
    /\ Replace([index EXCEPT ![i].ok = FALSE])
    /\ mishaps' = mishaps + 1
    /\ UNCHANGED <<src, dirs, holder, pc, draft, job, logs, errors>>

Selectors == {Latest} \cup Aliases \cup 0..MaxLogs

Next ==
    \/ \E p \in Procs :
          \/ \E n \in Names : New(p, n) \/ \E s \in Selectors : Use(p, n, s)
          \/ \E f \in Sources : \/ AddFile(p, f) \/ StageChanged(p, f)
                                \/ \E linked \in BOOLEAN : StageFile(p, f, linked)
          \/ \E mode \in Modes, as \in SUBSET Aliases : Enter(p, mode, as)
          \/ Rename(p) \/ Occupied(p) \/ AppendIndex(p) \/ Return(p)
          \/ AppendFails(p) \/ RemovalFails(p) \/ StageFails(p) \/ Crash(p)
    \/ \E f \in Sources, c \in Contents : Rewrite(f, c)
    \/ \E i \in DOMAIN index : Damage(i)

Spec == Init /\ [][Next]_vars

-----------------------------------------------------------------------------
(* Properties. *)

\* The files that a version promises are in its directory, and each one that
\* was copied has the bytes that were hashed when it was added.
Complete(row) ==
    LET got == Download(row)
    IN  /\ DOMAIN got = DOMAIN row.digest
        /\ \A f \in DOMAIN got : got[f] = row.digest[f]
                                  \/ dirs[<<row.name, row.version>>][f] = Shared

\* A version that was stored from an object that knew all its sources is
\* complete as soon as a reader can find it and for good, whatever was
\* rewritten before, during and after log() and whoever died.
VersionsComplete ==
    \A k \in DOMAIN versions :
        versions[k].stored /\ versions[k].whole => Complete(versions[k])

\* "Rust atomically publishes complete versions" (src/expr_tracker/artifacts.py,
\* line 9), of every version that log() stored.
PublishesComplete ==
    \A k \in DOMAIN versions : versions[k].stored => Complete(versions[k])

\* What log() is about to return is what a reader of the index then finds:
\* its number leads to its content, and every alias it names to its number.
AnswerFound ==
    \A p \in Procs :
        pc[p] = "done" /\ (\A i \in DOMAIN index : index[i].ok) =>
            LET row  == job[p].row
                here == Selected(row.name, row.version)
            IN  /\ here # NoOne
                /\ here.digest = row.digest
                /\ \A a \in row.aliases : Selected(row.name, a) = here

\* A version directory without a record, which makes every later log() of new
\* content under that name fail, is left only by a crash, a failed removal or
\* damage from outside, never by an error that log() reports; otherwise it is
\* the one the holder of the lock has just renamed.
OrphansExplained ==
    mishaps = 0 =>
        \A key \in DOMAIN dirs :
            \/ \E i \in DOMAIN index : /\ <<index[i].name, index[i].version>> = key
                                       /\ index[i].stored
            \/ holder # NoOne /\ pc[holder] = "append" /\ Destination(holder) = key

\* The registry of versions as a reader of the index sees it.
Table(n) ==
    LET found(v) == CHOOSE k \in Versions(n) : versions[k].version = v
    IN  [v \in {versions[k].version : k \in Versions(n)} |->
            [digest  |-> versions[found(v)].digest,
             aliases |-> versions[found(v)].aliases]]

Registry == INSTANCE ArtifactRegistry WITH
                table <- [n \in Names |-> Table(n)],
                sound <- \A i \in DOMAIN index : index[i].ok

\* The versions and aliases a reader finds are those of a registry in which
\* every log() is one step, as long as no line of the index is damaged.
ImplementsRegistry == Registry!Spec

=============================================================================
