-------------------------- MODULE ArtifactSnapshot --------------------------
(***************************************************************************)
(* How a declared artifact is read while other processes edit the tree:    *)
(* _snapshot_artifact of engine.py with held descriptors ("posix") or by   *)
(* path ("fallback"), and fingerprint_artifacts of evidence.py, which      *)
(* copies by path ("copy").  The artifact is d/a below the work directory. *)
(* Each reader is followed system call by system call, and runs twice, as  *)
(* attest_action and the verifier runner do around a command.              *)
(***************************************************************************)
EXTENDS Naturals, Sequences

CONSTANTS Modes,      \* readers: "posix", "fallback", "copy"
          Shapes,     \* the artifact at first: "file", "flat", "nested", "absent"
          MaxEdits,   \* edits by others
          MaxEntries  \* WORKSPACE_MAX_ENTRIES

VARIABLES disk, edits, r, round, first, held, past

vars == <<disk, edits, r, round, first, held, past>>

Names == {"d", "a", "s", "x", "y"}
InOrder == <<"a", "d", "s", "x", "y">>
Root == 1
Absent == {}
Failed == "failed"

-----------------------------------------------------------------------------
(* The file system: an inode is a number, 0 is no inode.  A stamp stands    *)
(* for size, mtime, ctime and link count.  Edits never restore an earlier   *)
(* state: contents are fresh, what was created is not removed again, and a  *)
(* directory that comes holds a file, since an empty one could come twice.  *)

NoKids == [n \in Names |-> 0]
File(data) == [kind |-> "file", data |-> data, kids |-> NoKids, stamp |-> 0, made |-> FALSE]
Link(data) == [kind |-> "link", data |-> data, kids |-> NoKids, stamp |-> 0, made |-> FALSE]
Dir(kids) == [kind |-> "dir", data |-> 0, kids |-> kids, stamp |-> 0, made |-> FALSE]

InitialDisk(shape) ==
    <<Dir([NoKids EXCEPT !["d"] = 2]),
      Dir([NoKids EXCEPT !["a"] = IF shape = "absent" THEN 0 ELSE 3])>>
    \o CASE shape = "absent" -> << >>
         [] shape = "file" -> <<File(1)>>
         [] shape = "flat" -> <<Dir([NoKids EXCEPT !["x"] = 4, !["y"] = 5]), File(1), File(2)>>
         [] shape = "nested" -> <<Dir([NoKids EXCEPT !["s"] = 4, !["y"] = 6]),
                                  Dir([NoKids EXCEPT !["x"] = 5]), File(1), File(2)>>

Kid(i, n) == IF i # 0 /\ disk[i].kind = "dir" THEN disk[i].kids[n] ELSE 0
Resolve(path) ==
    LET at[k \in 0 .. Len(path)] == IF k = 0 THEN Root ELSE Kid(at[k - 1], path[k])
    IN at[Len(path)]
Listing(i) == SelectSeq(InOrder, LAMBDA n : disk[i].kids[n] # 0)

\* lstat and fstat.
NoStat == [ino |-> 0, kind |-> "none", stamp |-> 0]
Stat(i) == IF i = 0 THEN NoStat
           ELSE [ino |-> i, kind |-> disk[i].kind, stamp |-> disk[i].stamp]

\* _artifact_identity_key, _workspace_identity_key: what excludes the stamp.
Identity(st) == <<st.ino, st.kind>>

\* What is on disk below d/a, in the form a snapshot reports it.
Entry(path, i) ==
    <<path, disk[i].kind, IF disk[i].kind = "dir" THEN << >> ELSE <<disk[i].data, disk[i].data>>>>

Tree ==
    LET a == Resolve(<<"d", "a">>)
        kids(i) == IF i # 0 /\ disk[i].kind = "dir" THEN {n \in Names : disk[i].kids[n] # 0} ELSE {}
    IN IF a = 0 THEN Absent
       ELSE {Entry(<<"a">>, a)}
            \cup {Entry(<<"a", n>>, disk[a].kids[n]) : n \in kids(a)}
            \cup UNION {{Entry(<<"a", n, m>>, disk[disk[a].kids[n]].kids[m]) :
                             m \in kids(disk[a].kids[n])} : n \in kids(a)}

-----------------------------------------------------------------------------
(* Edits by other processes *)

\* A write in place.
Write(i) ==
    /\ disk[i].kind = "file"
    /\ disk' = [disk EXCEPT ![i].data = 10 + edits, ![i].stamp = @ + 1]

\* A rename or creation over a name, or its removal.  What is renamed comes with
\* the inodes below it.
Rename(i, n, new) ==
    /\ disk[i].kind = "dir" /\ ~disk[i].made
    /\ disk' = [disk EXCEPT ![i].kids[n] = Len(disk) + 1, ![i].stamp = @ + 1]
               \o [k \in DOMAIN new |-> [new[k] EXCEPT !.made = TRUE]]

Unlink(i, n) ==
    /\ Kid(i, n) # 0 /\ ~disk[Kid(i, n)].made
    /\ disk' = [disk EXCEPT ![i].kids[n] = 0, ![i].stamp = @ + 1]

Edit ==
    /\ edits < MaxEdits
    /\ edits' = edits + 1
    /\ \/ \E i \in DOMAIN disk : Write(i)
       \/ \E i \in DOMAIN disk, n \in {"x", "y"} :
             /\ i > 2
             /\ Unlink(i, n) \/ \E new \in {File(10 + edits), Link(10 + edits)} : Rename(i, n, <<new>>)
       \/ \E at \in {<<Root, "d">>, <<2, "a">>} :
             \/ Unlink(at[1], at[2])
             \/ Rename(at[1], at[2], <<File(10 + edits)>>)
             \/ Rename(at[1], at[2], <<Dir([NoKids EXCEPT !["x"] = Len(disk) + 2]),
                                       File(10 + edits)>>)

-----------------------------------------------------------------------------
(* A reader: r.frames is the stack of directories it is in, the work        *)
(* directory and d first; each holds the descriptor it was opened with, the *)
(* names to visit and their stat before the visit.                          *)

Frame(fd, path, names, before) ==
    [fd |-> fd, path |-> path, names |-> names, before |-> before, at |-> 1, saw |-> << >>]

Starting(mode) ==
    [mode |-> mode, pc |-> "look", st |-> NoStat, fd |-> 0, base |-> NoStat, got |-> << >>,
     frames |-> <<Frame(Root, << >>, <<"d">>, NoStat)>>, recs |-> {}, entries |-> 0]

Top == r.frames[Len(r.frames)]
Below == r.frames[Len(r.frames) - 1]
Holds == r.mode = "posix"

\* Whether the top frame is still on the way to the artifact.
OnRoute == Len(r.frames) <= 2

Name == Top.names[Top.at]
Path == Append(Top.path, Name)

\* The directory a name is looked up in: the descriptor held, or the path again.
In(f) == IF Holds THEN f.fd ELSE Resolve(f.path)
StatAt(f, n) == Stat(Kid(In(f), n))

Fail == r' = [r EXCEPT !.pc = Failed]
Go(pc) == r' = [r EXCEPT !.pc = pc]

\* The copy's entry counter: files and directories below the artifact, and an
\* artifact that is a file.
Counted(st) ==
    IF r.mode = "copy" /\ (~OnRoute \/ (Name = "a" /\ st.kind = "file"))
    THEN r.entries + 1 ELSE r.entries

\* lstat of the next name.  Missing on the way, or a route through a file, may
\* mean that the artifact is absent; anywhere else it means a change.
Look ==
    /\ r.pc = "look"
    /\ LET st == StatAt(Top, Name) IN
       CASE st.kind = "link" \/ (st.kind = "none" /\ ~OnRoute) \/ Counted(st) > MaxEntries -> Fail
         [] OnRoute /\ (st.kind = "none" \/ (st.kind = "file" /\ Name = "d")) ->
               r' = [r EXCEPT !.pc = "missing", !.st = st]
         [] OTHER -> r' = [r EXCEPT !.pc = "open", !.st = st, !.entries = Counted(st)]

\* _verify_posix_route, _verify_fallback_route, _verify_artifact_route.  When a
\* name is missing the route is verified and the name looked up again;
\* fingerprint_artifacts does not look again at a file in place of d.
RouteHolds ==
    Len(r.frames) = 2 =>
        Identity(StatAt(r.frames[1], "d")) = Identity(r.frames[1].saw[1])

VerifyMissing ==
    /\ r.pc = "missing"
    /\ IF RouteHolds THEN Go("again") ELSE Fail

LookAgain ==
    /\ r.pc = "again"
    /\ IF StatAt(Top, Name) = r.st \/ (r.mode = "copy" /\ r.st.kind = "file")
       THEN r' = [r EXCEPT !.pc = "done", !.recs = Absent] ELSE Fail

\* Into a directory: d is only passed, the artifact and below are listed.
Entered(fd) ==
    LET frames == [r.frames EXCEPT ![Len(r.frames)].saw = Append(@, r.st)] IN
    IF Len(r.frames) = 1
    THEN r' = [r EXCEPT !.pc = "look", !.frames = Append(frames, Frame(fd, Path, <<"a">>, NoStat))]
    ELSE r' = [r EXCEPT !.pc = "statdir", !.recs = @ \cup {<<Tail(Path), "dir", << >>>>},
                        !.frames = Append(frames, Frame(fd, Path, << >>, NoStat))]

\* open: relative to the descriptor without following links ("posix"), by path
\* without following ("copy"), by path ("fallback").  Directories are opened by
\* "posix" only.
Open ==
    /\ r.pc = "open"
    /\ LET i == Kid(In(Top), Name) IN
       IF r.st.kind = "dir"
       THEN IF ~Holds THEN Entered(0)
            ELSE IF Stat(i).kind # "dir" THEN Fail
                 ELSE r' = [r EXCEPT !.pc = "opened", !.fd = i]
       ELSE IF Stat(i).kind \notin (IF r.mode = "fallback" THEN {"file", "link"} ELSE {"file"})
            THEN Fail
            ELSE r' = [r EXCEPT !.pc = IF r.mode = "fallback" THEN "read" ELSE "opened",
                                !.fd = i, !.got = << >>]

\* _posix_open_stable: descriptor and name are still what lstat saw.
PosixOpenStable == Stat(r.fd) = r.st /\ StatAt(Top, Name) = r.st

\* _copy_workspace_file: the same inode; the bracket starts from the descriptor.
CopyOpened == Identity(Stat(r.fd)) = Identity(r.st)

CheckOpened ==
    /\ r.pc = "opened"
    /\ IF ~(IF Holds THEN PosixOpenStable ELSE CopyOpened) THEN Fail
       ELSE IF r.st.kind = "dir" THEN Entered(r.fd)
       ELSE r' = [r EXCEPT !.pc = "read", !.base = Stat(r.fd)]

\* _hash_artifact_file and the copy loop, in two chunks.
ReadChunk ==
    /\ r.pc = "read"
    /\ r' = [r EXCEPT !.got = Append(@, disk[r.fd].data),
                      !.pc = IF Len(r.got) = 1 THEN "readdone" ELSE "read"]

\* Mutated: only identities are compared after the read.
MutFileUnchanged == Identity(StatAt(Top, Name)) = Identity(r.st)

\* The bracket around the read.
PosixUnchanged == Stat(r.fd) = r.st /\ StatAt(Top, Name) = r.st
FallbackUnchanged == StatAt(Top, Name) = r.st
CopyUnchanged == Stat(r.fd) = r.base /\ StatAt(Top, Name) = r.base

FileUnchanged ==
    CASE r.mode = "posix" -> PosixUnchanged
      [] r.mode = "fallback" -> FallbackUnchanged
      [] r.mode = "copy" -> CopyUnchanged

\* On to the next name, or out of the directory, or out of the artifact.
Advance(frames, recs) ==
    LET k == Len(frames) IN
    IF k = 2 THEN r' = [r EXCEPT !.pc = "verify", !.frames = frames, !.recs = recs]
    ELSE r' = [r EXCEPT !.frames = [frames EXCEPT ![k].at = @ + 1], !.recs = recs,
                        !.pc = IF frames[k].at = Len(frames[k].names) THEN "relist" ELSE "look"]

AfterRead ==
    /\ r.pc = "readdone"
    /\ IF FileUnchanged
       THEN Advance([r.frames EXCEPT ![Len(r.frames)].saw = Append(@, r.st)],
                    r.recs \cup {<<Tail(Path), "file", r.got>>})
       ELSE Fail

\* Entering a directory: its stat, then its names.
StatDir ==
    /\ r.pc = "statdir"
    /\ LET st == Stat(In(Top)) IN
       IF st.kind # "dir" THEN Fail
       ELSE r' = [r EXCEPT !.pc = "list", !.frames[Len(r.frames)].before = st]

ListDir ==
    /\ r.pc = "list"
    /\ LET i == In(Top) IN
       IF Stat(i).kind # "dir" THEN Fail
       ELSE r' = [r EXCEPT !.frames[Len(r.frames)].names = Listing(i),
                           !.pc = IF Listing(i) = << >> THEN "relist" ELSE "look"]

\* Leaving it: the names and the stat again; the engine's readers then compare
\* every entry once more, from the first.
CopySameDir(st) == Identity(st) = Identity(Top.before)
SameDir(st) == IF r.mode = "copy" THEN CopySameDir(st) ELSE st = Top.before

Relist ==
    /\ r.pc = "relist"
    /\ LET i == In(Top) IN
       IF Stat(i).kind # "dir" \/ ~SameDir(Stat(i)) \/ Listing(i) # Top.names THEN Fail
       ELSE r' = [r EXCEPT !.pc = IF r.mode = "copy" \/ Top.names = << >> THEN "leave" ELSE "recheck",
                           !.frames[Len(r.frames)].at = 1]

\* Mutated: the entries are not compared again.
MutRecheck == r.pc = "recheck" /\ Go("leave")

Recheck ==
    /\ r.pc = "recheck"
    /\ IF StatAt(Top, Name) # Top.saw[Top.at] THEN Fail
       ELSE r' = [r EXCEPT !.pc = IF Top.at = Len(Top.names) THEN "leave" ELSE "recheck",
                           !.frames[Len(r.frames)].at = @ + 1]

\* Back in the parent: the directory is still the one that was entered.
Entering == Below.saw[Len(Below.saw)]
Reentered == StatAt(Below, Below.names[Below.at])
PosixSameChild == Reentered = Entering /\ Stat(Top.fd) = Entering
FallbackSameChild == Reentered = Entering
CopySameChild == Identity(Reentered) = Identity(Entering)

SameChild ==
    CASE r.mode = "posix" -> PosixSameChild
      [] r.mode = "fallback" -> FallbackSameChild
      [] r.mode = "copy" -> CopySameChild

\* Mutated: what was found in the subdirectory is dropped.
MutLeave ==
    /\ r.pc = "leave"
    /\ IF SameChild
       THEN Advance(SubSeq(r.frames, 1, Len(r.frames) - 1),
                    {rec \in r.recs : Len(rec[1]) < Len(r.frames)})
       ELSE Fail

Leave ==
    /\ r.pc = "leave"
    /\ IF SameChild THEN Advance(SubSeq(r.frames, 1, Len(r.frames) - 1), r.recs) ELSE Fail

\* The last look at the route; fingerprint_artifacts has the artifact itself on
\* it.
CopyTargetHolds == Identity(StatAt(Top, "a")) = Identity(Top.saw[1])

Verify ==
    /\ r.pc = "verify"
    /\ IF RouteHolds /\ (r.mode # "copy" \/ CopyTargetHolds) THEN Go("done") ELSE Fail

ReaderStep ==
    \/ Look \/ VerifyMissing \/ LookAgain \/ Open \/ CheckOpened \/ ReadChunk \/ AfterRead
    \/ StatDir \/ ListDir \/ Relist \/ Recheck \/ Leave \/ Verify

-----------------------------------------------------------------------------
(* _artifact_digests before the verifiers run and again after them *)

Rerun ==
    /\ r.pc = "done" /\ round = 1
    /\ r' = Starting(r.mode) /\ round' = 2
    /\ first' = r.recs /\ held' = Tree /\ past' = {Tree}
    /\ UNCHANGED <<disk, edits>>

Init ==
    /\ \E shape \in Shapes : disk = InitialDisk(shape)
    /\ \E mode \in Modes : r = Starting(mode)
    /\ edits = 0 /\ round = 1 /\ first = Absent /\ held = Absent
    /\ past = {Tree}

Next ==
    \/ Edit /\ past' = past \cup {Tree'} /\ UNCHANGED <<r, round, first, held>>
    \/ ReaderStep /\ UNCHANGED <<disk, edits, round, first, held, past>>
    \/ Rerun

Spec == Init /\ [][Next]_vars

-----------------------------------------------------------------------------
(* Properties *)

Done == r.pc = "done"
Nested == \E rec \in r.recs : Len(rec[1]) = 3

\* A file read while it is edited, renamed over or removed is refused: every
\* line of a digest is the full content of that path at one moment of the
\* snapshot, never parts of two versions, never bytes behind a link.
EveryEntryWasThere ==
    Done => IF r.recs = Absent THEN Absent \in past
            ELSE \A rec \in r.recs : \E tree \in past : rec \in tree

\* The engine's digest of a file or of a directory without subdirectories is
\* the artifact as it was at one moment.
DigestOfOneMoment == Done /\ r.mode # "copy" /\ ~Nested => r.recs \in past

\* Two digests that agree, before and after a command, on an artifact that is
\* there, are the artifact as it was when the command started, subdirectories and the copying reader
\* included.
AgreementIsExact ==
    Done /\ round = 2 /\ r.recs = first /\ first # Absent => held = first

\* What a snapshot that completes says of the artifact was so.
SnapshotsExact == EveryEntryWasThere /\ DigestOfOneMoment /\ AgreementIsExact
=============================================================================
