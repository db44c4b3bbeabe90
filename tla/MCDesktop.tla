------------------------------- MODULE MCDesktop -------------------------------
(* The parts of the desktop that share no state: a behaviour is that of    *)
(* one of them, chosen at the start.                                       *)
EXTENDS MCGateway, Settings, Clipboard, Launcher, NativeAccount

MCDInit ==
  /\ part \in {"calls", "streams", "local", "remote", "settings", "clipboard", "launcher",
              "operations", "requests"}
  /\ CallsInit /\ StreamsInit /\ EventsInit /\ SettingsInit /\ ClipboardInit /\ LauncherInit
  /\ NativeInit
  /\ part # "clipboard" => board.c = Empty
  /\ dir[2] = Missing
  /\ part # "launcher" => (\A f \in Files : file[f] = Missing) /\ (\A d \in Dirs : dir[d] = Missing)

MCDNext ==
  /\ UNCHANGED part
  /\ \/ part = "calls" /\ CallsNext /\ UNCHANGED <<svars, evars, setvars, bvars, launchvars, nativevars>>
     \/ part = "streams" /\ StreamsNext /\ UNCHANGED <<cvars, evars, setvars, bvars, launchvars, nativevars>>
     \/ part = "local" /\ LocalNext /\ UNCHANGED <<cvars, svars, setvars, bvars, launchvars, nativevars>>
     \/ part = "remote" /\ RemoteNext /\ UNCHANGED <<cvars, svars, setvars, bvars, launchvars, nativevars>>
     \/ part = "settings" /\ SettingsNext /\ UNCHANGED <<cvars, svars, evars, bvars, launchvars, nativevars>>
     \/ part = "clipboard" /\ ClipboardNext /\ UNCHANGED <<cvars, svars, evars, setvars, launchvars, nativevars>>
     \/ part = "launcher" /\ LauncherNext /\ UNCHANGED <<cvars, svars, evars, setvars, bvars, nativevars>>
     \/ part = "operations" /\ OperationsNext /\ UNCHANGED <<cvars, svars, evars, setvars, bvars, launchvars>>
     \/ part = "requests" /\ RequestsNext /\ UNCHANGED <<cvars, svars, evars, setvars, bvars, launchvars>>

MCDSpec ==
  MCDInit /\ [][MCDNext]_<<part, cvars, svars, evars, setvars, bvars, launchvars, nativevars>>

(* One call at most comes from the host, and no behaviour of the clipboard  *)
(* uses up its copies, its commands and its failure together.              *)
MCDBound ==
  /\ call[1].via # "native" \/ call[2].via # "native"
  /\ calls + board.n + failures <= 4

(* Bookmarks 1 and 2, applications 3 to 5 - the last one always there, and *)
(* with the key of the first - and a command.                              *)
MCKeyOf == [i \in {1, 2, 3, 4, 5, 9} |-> IF i \in {3, 5} THEN 3 ELSE i]
MCScore == [i \in {1, 2, 3, 4, 5, 9} |-> IF i \in {1, 5} THEN 2 ELSE 3]
MCFirstMarks == {{1}}
MCFirstApps == {{3}}
=============================================================================
