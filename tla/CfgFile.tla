------------------------------ MODULE CfgFile ------------------------------
(***************************************************************************)
(* cfg.yaml and the server's view of it: src/src/cfg/file.c, the directory *)
(* watch of src/src/fds.c and the part of loop in src/src/server.c that    *)
(* reloads and serves IPC requests.  The user saves files at any moment.   *)
(*                                                                         *)
(* All candidates are called cfg.yaml in directories of their own, so a    *)
(* candidate stands for its file and its directory.  The two closes of a   *)
(* write queue events that one read of the watch takes together with any   *)
(* others that wait (the buffer holds more than a hundred).                *)
(***************************************************************************)
EXTENDS CfgMerge

CONSTANTS Candidates,   \* g_candidates, in order of preference
          Saved,        \* what a user may save
          Requests,     \* [command, cfg] of the IPC requests
          Absent,       \* no such file, or not readable
          Bad,          \* a file that cannot be unmarshalled
          MaxEdits, MaxRequests

Paths == {Candidates[i] : i \in 1..Len(Candidates)}
Contents == Files \cup {Absent, Bad}
MergeCommands == {"CFG_SET", "CFG_DEL", "CFG_TOGGLE"}
RequestCommands == MergeCommands \cup {"CFG_WRITE", "LIST", "REAPPLY", "GET"}

ASSUME CfgFileAssumption ==
    /\ Candidates \in Seq(Paths)
    /\ \A i, j \in 1..Len(Candidates) : Candidates[i] = Candidates[j] => i = j
    /\ Saved \subseteq Files \cup {Bad}
    /\ Requests \subseteq [command : RequestCommands, cfg : CfgData]
    /\ Absent \notin Files /\ Bad \notin Files /\ Absent # Bad
    /\ NULL \notin Paths
    /\ MaxEdits \in Nat /\ MaxRequests \in Nat

VARIABLES disk,       \* what every candidate holds
          file_path,  \* g_cfg_file.file_path, NULL when empty
          watch,      \* the directory of fd_cfg_dir, NULL when -1
          pending,    \* an IN_CLOSE_WRITE of the file waits to be read
          written,    \* g_cfg_file.written
          g_cfg,
          phase,
          ready,      \* poll found the watch readable
          edited,     \* history: the user saved the file after it was last read or written
          edits, requests

fileVars == <<disk, file_path, watch, pending, written>>
vars == <<fileVars, g_cfg, phase, ready, edited, edits, requests>>

TypeOK ==
    /\ disk \in [Paths -> Contents]
    /\ file_path \in Paths \cup {NULL}
    /\ watch \in Paths \cup {NULL}
    /\ pending \in BOOLEAN /\ written \in BOOLEAN /\ ready \in BOOLEAN /\ edited \in BOOLEAN
    /\ g_cfg \in CfgData
    /\ phase \in {"poll", "cfg_dir", "ipc"}
    /\ edits \in Nat /\ requests \in Nat

(* The first candidate of the list that is in S, NULL when there is none.  *)
Preferred(S) ==
    LET first(p) == \E i \in 1..Len(Candidates) :
                       Candidates[i] = p /\ \A j \in 1..(i - 1) : Candidates[j] \notin S
    IN  IF \E p \in S : first(p) THEN CHOOSE p \in S : first(p) ELSE NULL

resolve == Preferred({p \in Paths : disk[p] # Absent})

(* g_cfg_file_init_read, and the watch create_fds makes for its directory. *)
Init ==
    /\ disk \in [Paths -> Saved \cup {Absent}]
    /\ file_path = resolve
    /\ watch = file_path
    /\ g_cfg = IF file_path = NULL \/ disk[file_path] = Bad THEN default_cfg
               ELSE load(disk[file_path])
    /\ pending = FALSE
    /\ written = FALSE
    /\ phase = "poll"
    /\ ready = FALSE
    /\ edited = FALSE
    /\ edits = 0
    /\ requests = 0

(* The user saves a candidate, or removes it, which raises no event.       *)
UserSaves(p, content) ==
    /\ edits < MaxEdits
    /\ edits' = edits + 1
    /\ disk' = [disk EXCEPT ![p] = content]
    /\ pending' = (pending \/ (content # Absent /\ watch = p))
    /\ edited' = (edited \/ (content # Absent /\ file_path = p))
    /\ UNCHANGED <<file_path, watch, written, g_cfg, phase, ready, requests>>

-----------------------------------------------------------------------------
(* One iteration of loop.                                                  *)

Poll ==
    /\ phase = "poll"
    /\ phase' = "cfg_dir"
    /\ ready' = pending
    /\ UNCHANGED <<fileVars, g_cfg, edited, edits, requests>>

(* Where the file has gone bad or away the configuration stays as it is.   *)
g_cfg_file_reload ==
    IF file_path = NULL \/ disk[file_path] \in {Absent, Bad}
    THEN UNCHANGED g_cfg
    ELSE g_cfg' = load(disk[file_path])

CfgDirQuiet ==
    /\ ~ready
    /\ UNCHANGED <<pending, written, g_cfg, edited>>

CfgDirOwnWrite ==
    /\ ready
    /\ written
    /\ written' = FALSE
    /\ pending' = FALSE
    /\ UNCHANGED <<g_cfg, edited>>

CfgDirReload ==
    /\ ready
    /\ ~written
    /\ g_cfg_file_reload
    /\ pending' = FALSE
    /\ edited' = FALSE
    /\ UNCHANGED written

CfgDir ==
    /\ phase = "cfg_dir"
    /\ phase' = "ipc"
    /\ ready' = FALSE
    /\ CfgDirQuiet \/ CfgDirOwnWrite \/ CfgDirReload
    /\ UNCHANGED <<disk, file_path, watch, edits, requests>>

-----------------------------------------------------------------------------
(* --write.  A candidate takes the whole configuration, or loses it and    *)
(* does not report that (only the result of fclose is looked at), or takes *)
(* the comment and then reports failure, or cannot be opened.  The outcome *)
(* of every candidate is in out.                                           *)
Outcomes == {"ok", "short", "full", "no"}
Reported == {"ok", "short"}

Content(outcome) == IF outcome = "ok" THEN yaml_map_from_cfg(g_cfg) ELSE Bad

\* Mutant: the write is not remembered.
WriteSucceedsUnmarked(out) ==
    /\ disk' = [disk EXCEPT ![file_path] = Content(out[file_path])]
    /\ pending' = (pending \/ watch = file_path)
    /\ written' = FALSE
    /\ UNCHANGED <<file_path, watch>>

WriteSucceeds(out) ==
    /\ disk' = [disk EXCEPT ![file_path] = Content(out[file_path])]
    /\ pending' = (pending \/ watch = file_path)
    /\ written' = TRUE
    /\ UNCHANGED <<file_path, watch>>

(* The candidates tried when p is the first that can be written.           *)
Tried(p) == {q \in Paths : q = file_path \/ Preferred({p, q} \ {NULL}) = q}

WriteTo(p, out) ==
    disk' = [q \in Paths |-> IF q = p THEN Content(out[q])
                             ELSE IF q \in Tried(p) /\ out[q] = "full" THEN Bad
                             ELSE disk[q]]

Writable(out) == Preferred({q \in Paths \ {file_path} : out[q] \in Reported})

\* Mutant: the old directory stays watched.
WriteAlternativeUnwatched(out) ==
    /\ WriteTo(Writable(out), out)
    /\ file_path' = Writable(out)
    /\ pending' = FALSE
    /\ written' = FALSE
    /\ UNCHANGED watch

\* Mutant: the flag is set although the new watch saw no event.
WriteAlternativeMarked(out) ==
    /\ WriteTo(Writable(out), out)
    /\ file_path' = Writable(out)
    /\ watch' = Writable(out)
    /\ pending' = FALSE
    /\ written' = (Writable(out) # NULL)

(* The file cannot be written: its watch is dropped and the candidates are *)
(* tried in turn.  The first that can be written becomes the file, and is  *)
(* watched from then on.                                                   *)
WriteAlternative(out) ==
    /\ WriteTo(Writable(out), out)
    /\ file_path' = Writable(out)
    /\ watch' = Writable(out)
    /\ pending' = FALSE
    /\ written' = FALSE

g_cfg_file_write ==
    \E out \in [Paths -> Outcomes] :
        IF file_path # NULL /\ out[file_path] \in Reported
        THEN WriteSucceeds(out) ELSE WriteAlternative(out)

-----------------------------------------------------------------------------

(* Heads only take overrides where g_cfg disables something under          *)
(* conditions.                                                             *)
Overridable == IF \E e \in g_cfg.disableds : e.val = "IF" THEN SUBSET Names ELSE {{}}

g_cfg_process_ipc_request(r) ==
    /\ phase = "ipc"
    /\ requests < MaxRequests
    /\ requests' = requests + 1
    /\ phase' = "poll"
    /\ \/ /\ r.command \in {"LIST", "REAPPLY", "GET"}
          /\ UNCHANGED <<fileVars, g_cfg, edited>>
       \/ /\ r.command = "CFG_WRITE"
          /\ g_cfg_file_write
          /\ edited' = FALSE
          /\ UNCHANGED g_cfg
       \/ /\ r.command \in MergeCommands
          /\ \E overridden \in Overridable :
                g_cfg' = cfg_merge(g_cfg, ipc_request_filter(r.cfg, g_cfg.disableds, overridden),
                                   r.command)
          /\ UNCHANGED <<fileVars, edited>>
    /\ UNCHANGED <<ready, edits>>

NoRequest ==
    /\ phase = "ipc"
    /\ phase' = "poll"
    /\ UNCHANGED <<fileVars, g_cfg, ready, edited, edits, requests>>

Next ==
    \/ \E p \in Paths, content \in Saved \cup {Absent} : UserSaves(p, content)
    \/ Poll
    \/ CfgDir
    \/ \E r \in Requests : g_cfg_process_ipc_request(r)
    \/ NoRequest

Spec == Init /\ [][Next]_vars

-----------------------------------------------------------------------------
(* Properties.                                                             *)

Valid(cfg) ==
    /\ cfg.arrange \in {"ROW", "COL"}
    /\ cfg.align \in AlignsOf(cfg.arrange)
    /\ cfg.scaling \in OnOff /\ cfg.auto_scale \in OnOff
    /\ cfg.auto_scale_dpi >= AUTO_SCALE_DPI_MIN
    /\ cfg.callback_cmd # NULL
    /\ \A e \in cfg.modes : ~mode_is_invalid(e.val)

(* Whatever files are read and requests merged, in any order, the active   *)
(* configuration is complete and consistent: ALIGN suits ARRANGE, no       *)
(* invalid MODE, AUTO_SCALE_DPI not below its documented minimum, nothing  *)
(* unset (cfg_apply_defaults, cfg_validate_fix).                           *)
ValidCfg == Valid(g_cfg)

(* --write loses nothing but what a MODE says beside MAX: a server that    *)
(* reads the file written now gets the active configuration back, an       *)
(* emptied DISABLED and a removed CALLBACK_CMD included                    *)
(* (yaml_map_from_cfg, disableds_empty, cfg_apply_defaults).               *)
FileRestores ==
    load(yaml_map_from_cfg(g_cfg)) = [g_cfg EXCEPT !.modes = yaml_map_from_cfg_modes(@)]

(* The server never takes its own write for an edit: the file is only read *)
(* again after the user saved it ("set on write to prevent fs watch        *)
(* reloading it", written of struct CfgFile).                              *)
OwnWriteNotReloaded == [][CfgDir /\ CfgDirReload => edited]_vars

(* The flag never outlives the event of the write it stands for, so it     *)
(* cannot swallow an edit made after that event was read.                  *)
WrittenHasEvent == written => pending

(* The directory that is watched is the one of the file in use, also after *)
(* a write that failed part of the way and fell back to another candidate, *)
(* or to none (fd_wd_cfg_dir_destroy, fd_wd_cfg_dir_create).               *)
WatchFollowsFile == watch = file_path

(* way-displays(1): cfg.yaml "will be monitored for changes, which will be *)
(* immediately applied".  Once the events are read no edit is left unread. *)
EditApplied == phase = "poll" /\ ~pending => ~edited

(* way-displays(5): AUTO_SCALE_DPI is an "Integer, minimum 8".  A file     *)
(* that sets the minimum or more is obeyed (cfg_validate_fix).             *)
DocumentedDpiKept ==
    \A p \in Paths : disk[p] \in Files =>
        LET dpi == disk[p].cfg.auto_scale_dpi
        IN  dpi >= AUTO_SCALE_DPI_MIN => load(disk[p]).auto_scale_dpi = dpi

(* way-displays(1), of ORDER in a CFG_SET: "Replaces previous order"       *)
(* (cfg_merge_set, cfg_equal).                                             *)
OrderReplaced ==
    [][\A r \in Requests :
        g_cfg_process_ipc_request(r) /\ r.command = "CFG_SET" /\ r.cfg.order_name_desc # <<>> =>
            g_cfg'.order_name_desc = r.cfg.order_name_desc]_vars
=============================================================================
