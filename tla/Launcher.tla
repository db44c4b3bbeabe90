------------------------------- MODULE Launcher -------------------------------
(* The launcher's index: the bookmarks of Chrome's two files and the       *)
(* applications of some directories, read once when the engine is made and *)
(* again whenever a watcher reports a change, while queries read it and    *)
(* the use of a hit raises its rank.                                       *)
EXTENDS Integers, Sequences, FiniteSets, SequencesExt, TLC

CONSTANTS Bookmarks, Apps, \* what the files and the directories may hold
          Skipped,         \* the bookmark nodes without an address
          Catalog,         \* the applications that are always there
          Commands,        \* the built-in commands
          KeyOf,           \* what an item is remembered by
          Score,           \* how well an item matches the query, 0 if it does not
          Calculates,      \* the query is also an expression
          NDirs,           \* bound: directories of applications
          TopItems,        \* bound of the code: hits of one provider
          TopCommands,     \* bound of the code: hits among the commands
          MaxHits,         \* bound of the code: hits in all
          FirstMarks,      \* bound: what a file may hold at first
          FirstApps,       \* bound: what a directory may hold at first
          MaxMoves       \* bound: changes of files, uses, and half-lives

ASSUME DirsAssumption == NDirs \in Nat \ {0}

VARIABLES stage,    \* what the engine is being made of, then "open"
          file,     \* Chrome's files
          changed,  \* the files whose change the watcher was told of
          load,     \* the loading of bookmarks under way
          entries,  \* the bookmarks that were loaded last
          marks,    \* the index made of them
          dir,      \* the directories of applications
          stirred,  \* the directories whose change a watcher was told of
          watching, \* the directories that are watched
          scan,     \* the scan of each thread
          found,    \* the applications that were scanned last
          apps,     \* the index made of them
          usage,    \* what was used, how often and when
          clock, moves,
          good,     \* history: what each file last held when it could be read
          suspect,  \* history: a change of the files went by unwatched
          doubtful  \* history: a change of a directory did, or scans overlapped

bookvars == <<file, changed, load, entries, marks, good, suspect>>
appvars == <<dir, stirred, watching, scan, found, apps, doubtful>>
usevars == <<usage, clock>>
launchvars == <<stage, moves, bookvars, appvars, usevars>>

Dirs == 1..NDirs
Opener == 0
Sources == <<"Bookmarks", "AccountBookmarks">>
Files == {Sources[i] : i \in 1..2}
Missing == [state |-> "missing", holds |-> {}]
Broken == [state |-> "broken", holds |-> {}]
Holding(s) == [state |-> "readable", holds |-> s]
Rest == [step |-> "idle"]

Keys == {KeyOf[i] : i \in Bookmarks \cup Apps \cup Commands}

LauncherInit ==
  /\ stage = "apps" /\ moves = 0
  /\ file \in [Files -> {Missing} \cup {Holding(s) : s \in FirstMarks}]
  /\ good = [f \in Files |-> file[f].holds]
  /\ changed = {} /\ load = Rest /\ entries = {} /\ marks = {} /\ suspect = FALSE
  /\ dir \in [Dirs -> {Missing} \cup {Holding(s) : s \in FirstApps}]
  /\ stirred = {} /\ watching = {} /\ found = {} /\ apps = {} /\ doubtful = FALSE
  /\ scan = [t \in {Opener} \cup Dirs |->
               IF t = Opener THEN [step |-> "read", next |-> 1, apps |-> {}, sure |-> TRUE]
               ELSE Rest]
  /\ usage = [k \in Keys |-> [hits |-> 0, at |-> 0]] /\ clock = 0

(***************************************************************************)
(* The bookmarks.  One thread loads them: the opener's, then the watcher's. *)
(***************************************************************************)
BookmarksWatched == stage = "open"

(* Chrome writes a file, leaves it half written, or removes it.            *)
ChangeFile(f, content) ==
  /\ moves < MaxMoves /\ content # file[f] /\ moves' = moves + 1
  /\ file' = [file EXCEPT ![f] = content]
  /\ good' = IF content = Broken THEN good ELSE [good EXCEPT ![f] = content.holds]
  /\ changed' = IF BookmarksWatched THEN changed \cup {f} ELSE changed
  /\ suspect' = (suspect \/ ~BookmarksWatched)
  /\ load' = IF load # Rest /\ ~BookmarksWatched THEN [load EXCEPT !.sure = FALSE] ELSE load
  /\ UNCHANGED <<stage, entries, marks, appvars, usevars>>

StartLoad == [step |-> "read", next |-> 1, merged |-> {}, sure |-> TRUE]

(* What happens from here on is reported again.                            *)
Reload ==
  /\ load = Rest /\ changed # {}
  /\ load' = StartLoad /\ changed' = {}
  /\ UNCHANGED <<stage, file, entries, marks, good, suspect, moves, appvars, usevars>>

Collected(nodes) == nodes \ Skipped

(* A missing file counts as empty; any other failure ends the loading and  *)
(* leaves everything as it was.                                            *)
Tolerated(f) == TRUE
Readable(f) == file[f].state # "broken"

LoadFile ==
  /\ load.step = "read"
  /\ LET f == Sources[load.next] IN
       load' = IF ~Readable(f) THEN Rest
               ELSE [load EXCEPT !.step = IF load.next = 2 THEN "write" ELSE "read",
                                 !.next = @ + 1,
                                 !.merged = @ \cup Collected(file[f].holds)]
  /\ UNCHANGED <<stage, file, changed, entries, marks, good, suspect, moves, appvars, usevars>>

WriteEntries ==
  /\ load.step = "write"
  /\ entries' = load.merged /\ suspect' = ~load.sure
  /\ load' = [load EXCEPT !.step = "index"]
  /\ UNCHANGED <<stage, file, changed, marks, good, moves, appvars, usevars>>

IndexBookmarks ==
  /\ load.step = "index"
  /\ marks' = entries /\ load' = Rest
  /\ UNCHANGED <<stage, file, changed, entries, good, suspect, moves, appvars, usevars>>

(***************************************************************************)
(* The applications.  Every directory that is there is watched by a thread *)
(* of its own, and each of them scans all directories.                     *)
(***************************************************************************)
ChangeDir(d, content) ==
  /\ moves < MaxMoves /\ content # dir[d] /\ moves' = moves + 1
  /\ content = Missing => dir[d] = Missing
  /\ dir' = [dir EXCEPT ![d] = content]
  /\ IF d \in watching
     THEN stirred' = stirred \cup {d} /\ UNCHANGED <<scan, doubtful>>
     ELSE /\ doubtful' = TRUE /\ UNCHANGED stirred
          /\ scan' = [t \in DOMAIN scan |->
                        IF scan[t] = Rest THEN Rest ELSE [scan[t] EXCEPT !.sure = FALSE]]
  /\ UNCHANGED <<stage, watching, found, apps, bookvars, usevars>>

(* Two scans that overlap may write in either order.                       *)
Underway(t) == scan[t].step \in {"read", "write"}

Rescan(d) ==
  /\ d \in stirred /\ scan[d] = Rest
  /\ stirred' = stirred \ {d}
  /\ scan' = [t \in DOMAIN scan |->
                IF t = d THEN [step |-> "read", next |-> 1, apps |-> {},
                               sure |-> ~\E u \in DOMAIN scan : Underway(u)]
                ELSE IF Underway(t) THEN [scan[t] EXCEPT !.sure = FALSE] ELSE scan[t]]
  /\ UNCHANGED <<stage, dir, watching, found, apps, doubtful, moves, bookvars, usevars>>

(* A directory that is not there or cannot be read has no applications.    *)
ScanDir(t) ==
  /\ scan[t].step = "read"
  /\ scan' = [scan EXCEPT ![t].step = IF scan[t].next = NDirs THEN "write" ELSE "read",
                          ![t].next = @ + 1,
                          ![t].apps = @ \cup dir[scan[t].next].holds]
  /\ UNCHANGED <<stage, dir, stirred, watching, found, apps, doubtful, moves, bookvars, usevars>>

(* Who makes an index of the list keeps it from being written until the    *)
(* index is in place.                                                      *)
Writable == \A u \in DOMAIN scan : scan[u].step # "made"

WriteApps(t) ==
  /\ scan[t].step = "write" /\ Writable
  /\ found' = scan[t].apps /\ doubtful' = ~scan[t].sure
  /\ scan' = [scan EXCEPT ![t].step = "make"]
  /\ UNCHANGED <<stage, dir, stirred, watching, apps, moves, bookvars, usevars>>

(* Of the applications with one key the first by name is kept.             *)
Indexed(s) == {a \in s \cup Catalog :
                 \A b \in s \cup Catalog : KeyOf[b] = KeyOf[a] => a <= b}

MakeIndex(t) ==
  /\ scan[t].step = "make"
  /\ scan' = [scan EXCEPT ![t] = [step |-> "made", index |-> Indexed(found), sure |-> TRUE]]
  /\ UNCHANGED <<stage, dir, stirred, watching, found, apps, doubtful, moves, bookvars, usevars>>

PlaceIndex(t) ==
  /\ scan[t].step = "made"
  /\ apps' = scan[t].index /\ scan' = [scan EXCEPT ![t] = Rest]
  /\ UNCHANGED <<stage, dir, stirred, watching, found, doubtful, moves, bookvars, usevars>>

(***************************************************************************)
(* The engine is made of the two in turn; then it answers.                 *)
(***************************************************************************)
WatchDirs ==
  /\ stage = "apps" /\ scan[Opener] = Rest
  /\ watching' = {d \in Dirs : dir[d] # Missing}
  /\ stage' = "bookmarks" /\ load' = StartLoad
  /\ UNCHANGED <<file, changed, entries, marks, good, suspect, dir, stirred, scan, found,
                 apps, doubtful, moves, usevars>>

WatchBookmarks ==
  /\ stage = "bookmarks" /\ load = Rest
  /\ stage' = "open"
  /\ UNCHANGED <<moves, bookvars, appvars, usevars>>

(* A use before there is an engine is not recorded.                        *)
RecordUsage(k) ==
  /\ moves < MaxMoves /\ moves' = moves + 1
  /\ usage' = IF stage = "open" THEN [usage EXCEPT ![k] = [hits |-> @.hits + 1, at |-> clock]]
              ELSE usage
  /\ UNCHANGED <<stage, clock, bookvars, appvars>>

HalfLife ==
  /\ moves < MaxMoves /\ moves' = moves + 1 /\ clock' = clock + 1
  /\ UNCHANGED <<stage, usage, bookvars, appvars>>

LauncherNext ==
  \/ \E f \in Files :
       \/ \E s \in SUBSET Bookmarks : ChangeFile(f, Holding(s))
       \/ ChangeFile(f, Missing) \/ ChangeFile(f, Broken)
  \/ Reload \/ LoadFile \/ WriteEntries \/ IndexBookmarks
  \/ \E d \in Dirs :
       Rescan(d) \/ \E a \in SUBSET Apps : ChangeDir(d, Holding(a))
  \/ \E t \in DOMAIN scan : ScanDir(t) \/ WriteApps(t) \/ MakeIndex(t) \/ PlaceIndex(t)
  \/ WatchDirs \/ WatchBookmarks
  \/ (\E k \in Keys : RecordUsage(k)) \/ HalfLife

LauncherSpec == LauncherInit /\ [][LauncherNext]_launchvars

(***************************************************************************)
(* A query.                                                                *)
(***************************************************************************)
(* By score, then by title, which is the order of the items themselves.    *)
Better(i, j) == Score[i] > Score[j] \/ (Score[i] = Score[j] /\ i < j)
Truncated(seq, n) == SubSeq(seq, 1, IF Len(seq) < n THEN Len(seq) ELSE n)
Best(s, n) == Truncated(SetToSortSeq({i \in s : Score[i] > 0}, Better), n)

(* What a use is worth, in 48ths: half of it is for having been used at    *)
(* all, the rest grows with the number of uses; both halve with time.      *)
Factor(u) ==
  IF u.hits = 0 THEN 0
  ELSE (24 * (1 + 2 * u.hits)) \div ((1 + u.hits) * 2 ^ (clock - u.at))
Rank(i, used) == Score[i] * (10 * 48 + 6 * Factor(used[KeyOf[i]]))

(* Each provider gives its best by the match alone; uses order the rest.   *)
Candidates(bookmarks) ==
  Best(Commands, TopCommands) \o (IF bookmarks THEN Best(marks, TopItems) ELSE <<>>)
                              \o Best(apps, TopItems)

Ranked(hits, used) ==
  LET order == SetToSortSeq(DOMAIN hits, LAMBDA i, j :
                 \/ Rank(hits[i], used) > Rank(hits[j], used)
                 \/ Rank(hits[i], used) = Rank(hits[j], used) /\ i < j)
  IN [n \in DOMAIN hits |-> hits[order[n]]]

Calculator == -1

Search(bookmarks, used) ==
  LET hits == Truncated(Ranked(Candidates(bookmarks), used), MaxHits)
  IN Truncated(IF Calculates THEN <<Calculator>> \o hits ELSE hits, MaxHits)

(***************************************************************************)
(* Properties.                                                             *)
(***************************************************************************)
Settled == load = Rest /\ stage = "open" /\ changed = {}
Scanned == stirred = {} /\ \A t \in DOMAIN scan : scan[t] = Rest

(* No index stays behind the list it was made of, whoever made it last.    *)
IndexIsRaw ==
  /\ load.step # "index" => marks = entries
  /\ (stage # "apps" /\ \A t \in DOMAIN scan : scan[t].step \notin {"make", "made"}) =>
       apps = Indexed(found)

(* Once the watchers rest, the index shows the files and the directories   *)
(* as they are, but for a change before they were watched and for scans    *)
(* that overlapped.                                                        *)
IndexIsFresh ==
  /\ Settled /\ ~suspect /\ (\A f \in Files : file[f] # Broken) =>
       marks = UNION {Collected(file[f].holds) : f \in Files}
  /\ Scanned /\ ~doubtful => found = UNION {dir[d].holds : d \in Dirs}

(* A bookmark never goes because a file could not be read.                 *)
NothingVanishes ==
  load.step = "index" /\ changed = {} /\ ~suspect =>
    \A f \in Files : Collected(good[f]) \subseteq entries

(* A use moves no hit back that shares its key, and none out of the list.  *)
Place(hits, i) == IF \E n \in DOMAIN hits : hits[n] = i
                  THEN CHOOSE n \in DOMAIN hits : hits[n] = i ELSE Len(hits) + 1
UseHelps ==
  stage = "open" =>
    \A i \in marks \cup apps \cup Commands, b \in BOOLEAN :
      LET k == KeyOf[i]
          after == [usage EXCEPT ![k] = [hits |-> @.hits + 1, at |-> clock]]
      IN Place(Search(b, after), i) <= Place(Search(b, usage), i)

LauncherKept == IndexIsRaw /\ IndexIsFresh /\ NothingVanishes /\ UseHelps
=============================================================================
