--------------------------- MODULE CfgFileProofs ---------------------------
(***************************************************************************)
(* Proofs about CfgMerge and CfgFile: whatever is read, merged and written,*)
(* the configuration is valid, a written file restores it, and the watch   *)
(* and the written flag stay in step with the file.                        *)
(***************************************************************************)
EXTENDS CfgFile, TLAPS

(* Every element that a request can set is set.                            *)
Complete(cfg) ==
    /\ cfg.arrange \in {"ROW", "COL"}
    /\ cfg.align \in Aligns
    /\ cfg.scaling \in OnOff /\ cfg.auto_scale \in OnOff
    /\ cfg.callback_cmd \in Commands

(* What cfg_validate_fix leaves.  Valid would not do: AUTO_SCALE_DPI at    *)
(* its minimum is valid and yet replaced when it is read back.             *)
Fixed(cfg) == Valid(cfg) /\ cfg.auto_scale_dpi # AUTO_SCALE_DPI_MIN

-----------------------------------------------------------------------------
(* The configuration operators.                                            *)

(* cfg_disabled_add_lid_condition adds an entry of the right type.         *)
LEMMA AddLidType ==
    ASSUME NEW d \in SUBSET DisabledEntries, NEW n \in Names
    PROVE  cfg_disabled_add_lid_condition(d, n) \in SUBSET DisabledEntries
BY DEF cfg_disabled_add_lid_condition, DisabledEntries, Entries, HasName

(* After cfg_apply_defaults every element is set.                          *)
LEMMA DefaultsComplete ==
    ASSUME NEW cfg \in CfgData, NEW b \in BOOLEAN
    PROVE  /\ cfg_apply_defaults(cfg, b) \in CfgData
           /\ Complete(cfg_apply_defaults(cfg, b))
<1> DEFINE disableds == IF cfg.disableds = {} /\ ~b
                        THEN cfg_disabled_add_lid_condition(cfg.disableds, LidName)
                        ELSE cfg.disableds
           dpi == IF cfg.auto_scale_dpi = 0 THEN AUTO_SCALE_DPI_DEFAULT ELSE cfg.auto_scale_dpi
<1>1. disableds \in SUBSET DisabledEntries
  BY AddLidType, CfgMergeAssumption DEF CfgData
<1>2. /\ Set(cfg.arrange, "ROW") \in {"ROW", "COL"}
      /\ Set(cfg.align, "TOP") \in Aligns
      /\ Set(cfg.scaling, "ON") \in OnOff
      /\ Set(cfg.auto_scale, "ON") \in OnOff
      /\ Set(cfg.callback_cmd, "default") \in Commands
  BY DEF CfgData, Set, Aligns, OnOff, Commands
<1>3. dpi \in Int
  BY DEF CfgData, AUTO_SCALE_DPI_DEFAULT
<1>4. cfg_apply_defaults(cfg, b) =
        [cfg EXCEPT !.arrange = Set(cfg.arrange, "ROW"), !.align = Set(cfg.align, "TOP"),
                    !.scaling = Set(cfg.scaling, "ON"), !.auto_scale = Set(cfg.auto_scale, "ON"),
                    !.auto_scale_dpi = dpi, !.callback_cmd = Set(cfg.callback_cmd, "default"),
                    !.disableds = disableds]
  BY DEF cfg_apply_defaults
<1> HIDE DEF disableds, dpi
<1> QED
  BY <1>1, <1>2, <1>3, <1>4 DEF CfgData, Complete

(* cfg_validate_fix makes a complete configuration valid, and Fixed.       *)
LEMMA FixValid ==
    ASSUME NEW cfg \in CfgData, Complete(cfg)
    PROVE  /\ cfg_validate_fix(cfg) \in CfgData
           /\ Fixed(cfg_validate_fix(cfg))
<1> DEFINE align == IF cfg.align \in AlignsOf(cfg.arrange) THEN cfg.align
                    ELSE IF cfg.arrange = "COL" THEN "LEFT" ELSE "TOP"
           dpi == IF cfg.auto_scale_dpi <= AUTO_SCALE_DPI_MIN THEN AUTO_SCALE_DPI_DEFAULT
                  ELSE cfg.auto_scale_dpi
           modes == {e \in cfg.modes : ~mode_is_invalid(e.val)}
           fixed == [cfg EXCEPT !.align = align, !.auto_scale_dpi = dpi, !.modes = modes]
<1>1. cfg_validate_fix(cfg) = fixed
  BY DEF cfg_validate_fix
<1>2. align \in Aligns /\ align \in AlignsOf(cfg.arrange)
  BY DEF Complete, AlignsOf, Aligns
<1>3. dpi \in Int /\ dpi >= AUTO_SCALE_DPI_MIN /\ dpi # AUTO_SCALE_DPI_MIN
  BY DEF CfgData, AUTO_SCALE_DPI_DEFAULT, AUTO_SCALE_DPI_MIN
<1>4. modes \in SUBSET Entries(UserModes) /\ \A e \in modes : ~mode_is_invalid(e.val)
  BY DEF CfgData
<1>5. cfg.callback_cmd # NULL
  BY CfgMergeAssumption DEF Complete, Commands
<1> HIDE DEF align, dpi, modes
<1>6. /\ fixed \in CfgData
      /\ fixed.arrange = cfg.arrange /\ fixed.align = align
      /\ fixed.scaling = cfg.scaling /\ fixed.auto_scale = cfg.auto_scale
      /\ fixed.auto_scale_dpi = dpi /\ fixed.modes = modes
      /\ fixed.callback_cmd = cfg.callback_cmd
  BY <1>2, <1>3, <1>4 DEF CfgData
<1> QED
  BY <1>1, <1>2, <1>3, <1>4, <1>5, <1>6 DEF Fixed, Valid, Complete

(* A valid configuration is complete.                                      *)
LEMMA ValidComplete ==
    ASSUME NEW cfg \in CfgData, Fixed(cfg)
    PROVE  Complete(cfg)
BY DEF Fixed, Valid, Complete, CfgData, AlignsOf, Aligns

(* The map merges keep the type of a map.                                  *)
LEMMA MapMergeType ==
    ASSUME NEW V, NEW to \in SUBSET Entries(V), NEW from \in SUBSET Entries(V)
    PROVE  put_all(to, from) \in SUBSET Entries(V) /\ remove_in(to, from) \in SUBSET Entries(V)
BY DEF put_all, remove_in

(* cfg_merge_set leaves no element unset.                                  *)
LEMMA MergeSetComplete ==
    ASSUME NEW to \in CfgData, Complete(to), NEW from \in CfgData
    PROVE  cfg_merge_set(to, from) \in CfgData /\ Complete(cfg_merge_set(to, from))
<1> DEFINE disableds == put_all(to.disableds, from.disableds)
           modes == put_all(to.modes, from.modes)
           scales == put_all(to.scales, from.scales)
           off == to.adaptive_sync_off \cup from.adaptive_sync_off
           order == IF from.order_name_desc = <<>> THEN to.order_name_desc ELSE from.order_name_desc
<1>1. /\ to.disableds \in SUBSET Entries({"always", "IF"})
      /\ from.disableds \in SUBSET Entries({"always", "IF"})
      /\ to.modes \in SUBSET Entries(UserModes) /\ from.modes \in SUBSET Entries(UserModes)
      /\ to.scales \in SUBSET Entries(ScaleValues) /\ from.scales \in SUBSET Entries(ScaleValues)
  BY DEF CfgData, DisabledEntries
<1>2. /\ disableds \in SUBSET DisabledEntries
      /\ modes \in SUBSET Entries(UserModes)
      /\ scales \in SUBSET Entries(ScaleValues)
  BY <1>1, MapMergeType DEF DisabledEntries
<1>3. off \in SUBSET Names /\ order \in Seq(Names)
  BY DEF CfgData
<1>4. /\ Set(from.arrange, to.arrange) \in {"ROW", "COL"}
      /\ Set(from.align, to.align) \in Aligns
      /\ Set(from.scaling, to.scaling) \in OnOff
      /\ Set(from.auto_scale, to.auto_scale) \in OnOff
      /\ Set(from.callback_cmd, to.callback_cmd) \in Commands
  BY DEF CfgData, Set, Complete
<1> DEFINE scalars ==
             [to EXCEPT !.align = Set(from.align, to.align), !.arrange = Set(from.arrange, to.arrange),
                        !.auto_scale = Set(from.auto_scale, to.auto_scale),
                        !.scaling = Set(from.scaling, to.scaling),
                        !.callback_cmd = Set(from.callback_cmd, to.callback_cmd)]
<1>5. cfg_merge_set(to, from) =
        [scalars EXCEPT !.disableds = disableds, !.modes = modes, !.scales = scales,
                        !.adaptive_sync_off = off, !.order_name_desc = order]
  BY DEF cfg_merge_set
<1> HIDE DEF disableds, modes, scales, off, order
<1>6. scalars \in CfgData /\ Complete(scalars)
  BY <1>4 DEF CfgData, Complete
<1> HIDE DEF scalars
<1> DEFINE maps == [scalars EXCEPT !.disableds = disableds, !.modes = modes, !.scales = scales]
<1>7. maps \in CfgData /\ Complete(maps)
  BY <1>2, <1>6 DEF CfgData, Complete
<1>8. cfg_merge_set(to, from) = [maps EXCEPT !.adaptive_sync_off = off, !.order_name_desc = order]
  BY <1>5
<1> HIDE DEF maps
<1> QED
  BY <1>3, <1>7, <1>8 DEF CfgData, Complete

(* cfg_merge_del leaves no element unset.                                  *)
LEMMA MergeDelComplete ==
    ASSUME NEW to \in CfgData, Complete(to), NEW from \in CfgData
    PROVE  cfg_merge_del(to, from) \in CfgData /\ Complete(cfg_merge_del(to, from))
<1> DEFINE disableds == remove_in(to.disableds, from.disableds)
           modes == remove_in(to.modes, from.modes)
           scales == remove_in(to.scales, from.scales)
           off == to.adaptive_sync_off \ from.adaptive_sync_off
           callback == IF from.callback_cmd = NULL THEN to.callback_cmd ELSE ""
<1>1. /\ disableds \in SUBSET DisabledEntries
      /\ modes \in SUBSET Entries(UserModes)
      /\ scales \in SUBSET Entries(ScaleValues)
  BY DEF CfgData, remove_in
<1>2. off \in SUBSET Names /\ callback \in Commands
  BY DEF CfgData, Complete, Commands
<1>3. cfg_merge_del(to, from) =
        [to EXCEPT !.disableds = disableds, !.modes = modes, !.scales = scales,
                   !.adaptive_sync_off = off, !.callback_cmd = callback]
  BY DEF cfg_merge_del
<1> HIDE DEF disableds, modes, scales, off, callback
<1> QED
  BY <1>1, <1>2, <1>3 DEF CfgData, Complete

(* cfg_merge_toggle leaves no element unset.                               *)
LEMMA MergeToggleComplete ==
    ASSUME NEW to \in CfgData, Complete(to), NEW from \in CfgData
    PROVE  cfg_merge_toggle(to, from) \in CfgData /\ Complete(cfg_merge_toggle(to, from))
<1> DEFINE disableds == remove_in(to.disableds, from.disableds)
                        \cup {e \in from.disableds : ~HasName(to.disableds, e.name)}
           off == (to.adaptive_sync_off \ from.adaptive_sync_off)
                  \cup (from.adaptive_sync_off \ to.adaptive_sync_off)
           scaling == IF from.scaling = "ON" THEN on_off_invert(to.scaling) ELSE to.scaling
           auto_scale == IF from.auto_scale = "ON" THEN on_off_invert(to.auto_scale)
                         ELSE to.auto_scale
<1>1. disableds \in SUBSET DisabledEntries /\ off \in SUBSET Names
  BY DEF CfgData, remove_in
<1>2. scaling \in OnOff /\ auto_scale \in OnOff
  BY DEF CfgData, Complete, on_off_invert, OnOff
<1>3. cfg_merge_toggle(to, from) =
        [to EXCEPT !.scaling = scaling, !.auto_scale = auto_scale,
                   !.adaptive_sync_off = off, !.disableds = disableds]
  BY DEF cfg_merge_toggle
<1> HIDE DEF disableds, off, scaling, auto_scale
<1> QED
  BY <1>1, <1>2, <1>3 DEF CfgData, Complete

(* cfg_merge of a valid configuration and any request gives a valid one,   *)
(* whether or not anything changes.                                        *)
THEOREM MergeValid ==
    ASSUME NEW to \in CfgData, Fixed(to), NEW from \in CfgData, NEW command \in MergeCommands
    PROVE  cfg_merge(to, from, command) \in CfgData /\ Fixed(cfg_merge(to, from, command))
<1>1. Complete(to)
  BY ValidComplete
<1>2. merged(to, from, command) \in CfgData /\ Complete(merged(to, from, command))
  <2>1. CASE command = "CFG_SET"
    BY <1>1, <2>1, MergeSetComplete DEF merged
  <2>2. CASE command = "CFG_DEL"
    BY <1>1, <2>2, MergeDelComplete DEF merged
  <2>3. CASE command = "CFG_TOGGLE"
    BY <1>1, <2>3, MergeToggleComplete DEF merged
  <2> QED
    BY <2>1, <2>2, <2>3 DEF MergeCommands
<1> DEFINE fixed == cfg_validate_fix(merged(to, from, command))
<1>3. fixed \in CfgData /\ Fixed(fixed)
  BY <1>2, FixValid
<1>4. cfg_merge(to, from, command) \in {fixed, to}
  BY DEF cfg_merge, KeptIfEqual
<1> QED
  BY <1>3, <1>4

(* Whatever a file holds, what is loaded from it is valid.                 *)
THEOREM LoadValid ==
    ASSUME NEW file \in Files
    PROVE  load(file) \in CfgData /\ Fixed(load(file))
<1> DEFINE migrated == cfg_migrate_v1(file.cfg, file.v1)
<1>1. migrated \in CfgData
  <2>1. CASE file.v1 = NULL
    BY <2>1 DEF cfg_migrate_v1, Files
  <2>2. CASE file.v1 # NULL
    <3> DEFINE disableds == cfg_disabled_add_lid_condition(file.cfg.disableds, file.v1)
    <3>1. disableds \in SUBSET DisabledEntries
      BY <2>2, AddLidType DEF Files, CfgData
    <3>2. migrated = [file.cfg EXCEPT !.disableds = disableds]
      BY <2>2 DEF cfg_migrate_v1
    <3>3. file.cfg \in CfgData
      BY DEF Files
    <3> HIDE DEF disableds, migrated
    <3> QED BY <3>1, <3>2, <3>3 DEF CfgData
  <2> QED BY <2>1, <2>2
<1>2. disableds_empty(file) \in BOOLEAN
  BY DEF disableds_empty
<1> HIDE DEF migrated
<1>3. /\ cfg_apply_defaults(migrated, disableds_empty(file)) \in CfgData
      /\ Complete(cfg_apply_defaults(migrated, disableds_empty(file)))
  BY <1>1, <1>2, DefaultsComplete
<1>4. load(file) = cfg_validate_fix(cfg_apply_defaults(migrated, disableds_empty(file)))
  BY DEF load, migrated
<1> QED BY <1>3, <1>4, FixValid

(* The configuration used when there is no file is valid.                  *)
LEMMA DefaultValid == default_cfg \in CfgData /\ Fixed(default_cfg)
<1>1. cfg_init \in CfgData
  BY DEF cfg_init, CfgData
<1> QED BY <1>1, DefaultsComplete, FixValid DEF default_cfg

(* A mode that is written in place of a valid one is valid.                *)
LEMMA WrittenModes ==
    ASSUME NEW modes \in SUBSET Entries(UserModes), \A e \in modes : ~mode_is_invalid(e.val)
    PROVE  /\ yaml_map_from_cfg_modes(modes) \in SUBSET Entries(UserModes)
           /\ \A e \in yaml_map_from_cfg_modes(modes) : ~mode_is_invalid(e.val)
<1>1. ASSUME NEW m \in UserModes, ~mode_is_invalid(m)
      PROVE  yaml_map_from_cfg_mode(m) \in UserModes /\ ~mode_is_invalid(yaml_map_from_cfg_mode(m))
  BY <1>1 DEF yaml_map_from_cfg_mode, UserModes, mode_is_invalid
<1>2. ASSUME NEW w \in yaml_map_from_cfg_modes(modes)
      PROVE  w \in Entries(UserModes) /\ ~mode_is_invalid(w.val)
  <2>1. PICK e \in modes : w = [name |-> e.name, val |-> yaml_map_from_cfg_mode(e.val)]
    BY <1>2 DEF yaml_map_from_cfg_modes
  <2>2. e.name \in Names /\ e.val \in UserModes /\ ~mode_is_invalid(e.val)
    BY DEF Entries
  <2>3. /\ yaml_map_from_cfg_mode(e.val) \in UserModes
        /\ ~mode_is_invalid(yaml_map_from_cfg_mode(e.val))
    BY <1>1, <2>2
  <2> QED BY <2>1, <2>2, <2>3 DEF Entries
<1> QED BY <1>2

(* Defaults and fixes leave a valid configuration alone.                   *)
LEMMA ValidKept ==
    ASSUME NEW cfg \in CfgData, Fixed(cfg)
    PROVE  /\ cfg_apply_defaults(cfg, cfg.disableds = {}) = cfg
           /\ cfg_validate_fix(cfg) = cfg
<1>1. /\ Set(cfg.arrange, "ROW") = cfg.arrange /\ Set(cfg.align, "TOP") = cfg.align
      /\ Set(cfg.scaling, "ON") = cfg.scaling /\ Set(cfg.auto_scale, "ON") = cfg.auto_scale
      /\ Set(cfg.callback_cmd, "default") = cfg.callback_cmd
  BY CfgMergeAssumption DEF Fixed, Valid, Set, AlignsOf, OnOff
<1>2. /\ cfg.auto_scale_dpi # 0
      /\ ~(cfg.auto_scale_dpi <= AUTO_SCALE_DPI_MIN)
  BY DEF Fixed, Valid, CfgData, AUTO_SCALE_DPI_MIN
<1>3. cfg_apply_defaults(cfg, cfg.disableds = {}) =
        [cfg EXCEPT !.arrange = cfg.arrange, !.align = cfg.align, !.scaling = cfg.scaling,
                    !.auto_scale = cfg.auto_scale, !.auto_scale_dpi = cfg.auto_scale_dpi,
                    !.callback_cmd = cfg.callback_cmd, !.disableds = cfg.disableds]
  BY <1>1, <1>2 DEF cfg_apply_defaults
<1>4. {e \in cfg.modes : ~mode_is_invalid(e.val)} = cfg.modes
  BY DEF Fixed, Valid
<1>5. cfg_validate_fix(cfg) =
        [cfg EXCEPT !.align = cfg.align, !.auto_scale_dpi = cfg.auto_scale_dpi, !.modes = cfg.modes]
  BY <1>2, <1>4 DEF cfg_validate_fix, Fixed, Valid
<1> QED BY <1>3, <1>5 DEF CfgData

(* What is read back from the file written for a valid configuration.      *)
THEOREM Restores ==
    ASSUME NEW cfg \in CfgData, Fixed(cfg)
    PROVE  load(yaml_map_from_cfg(cfg)) = [cfg EXCEPT !.modes = yaml_map_from_cfg_modes(@)]
<1> DEFINE modes == yaml_map_from_cfg_modes(cfg.modes)
           back == [cfg EXCEPT !.modes = modes]
           file == yaml_map_from_cfg(cfg)
<1>1. modes \in SUBSET Entries(UserModes) /\ \A e \in modes : ~mode_is_invalid(e.val)
  <2>1. cfg.modes \in SUBSET Entries(UserModes) /\ \A e \in cfg.modes : ~mode_is_invalid(e.val)
    BY DEF CfgData, Fixed, Valid
  <2> QED BY <2>1, WrittenModes
<1>2. file.cfg = back /\ file.v1 = NULL /\ file.disabled = TRUE
  BY DEF yaml_map_from_cfg
<1> HIDE DEF modes, file
<1>3. back \in CfgData
  BY <1>1 DEF CfgData
<1>4. Fixed(back)
  BY <1>1 DEF CfgData, Fixed, Valid
<1> HIDE DEF back
<1>5. cfg_migrate_v1(file.cfg, file.v1) = back
  BY <1>2 DEF cfg_migrate_v1
<1>6. disableds_empty(file) = (back.disableds = {})
  BY <1>2 DEF disableds_empty
<1>7. load(file) = cfg_validate_fix(cfg_apply_defaults(back, back.disableds = {}))
  BY <1>5, <1>6 DEF load
<1>8. load(file) = back
  BY <1>3, <1>4, <1>7, ValidKept
<1> QED BY <1>8 DEF file, back, modes

-----------------------------------------------------------------------------
(* The inductive invariant.  WatchFollowsFile and WrittenHasEvent are not  *)
(* enough for OwnWriteNotReloaded: an event that waits must stem from the  *)
(* user or from a write that is still marked.                              *)
EventExplained ==
    /\ pending => written \/ edited
    /\ ready => pending /\ phase = "cfg_dir"

FixedCfg == Fixed(g_cfg)

IInv == TypeOK /\ FixedCfg /\ WatchFollowsFile /\ WrittenHasEvent /\ EventExplained

(* Preferred picks a member, or nothing.                                   *)
LEMMA PreferredType ==
    ASSUME NEW S \in SUBSET Paths
    PROVE  Preferred(S) \in S \cup {NULL}
BY DEF Preferred

(* A file written for a valid configuration is a file.                     *)
LEMMA WrittenType ==
    ASSUME NEW cfg \in CfgData, Fixed(cfg)
    PROVE  yaml_map_from_cfg(cfg) \in Files
<1> DEFINE modes == yaml_map_from_cfg_modes(cfg.modes)
<1>1. modes \in SUBSET Entries(UserModes)
  <2>1. cfg.modes \in SUBSET Entries(UserModes) /\ \A e \in cfg.modes : ~mode_is_invalid(e.val)
    BY DEF CfgData, Fixed, Valid
  <2> QED BY <2>1, WrittenModes
<1>2. yaml_map_from_cfg(cfg) =
        [cfg |-> [cfg EXCEPT !.modes = modes], disabled |-> TRUE, v1 |-> NULL]
  BY DEF yaml_map_from_cfg
<1> HIDE DEF modes
<1>3. [cfg EXCEPT !.modes = modes] \in CfgData
  BY <1>1 DEF CfgData
<1> QED BY <1>2, <1>3 DEF Files

(* ipc_request_filter keeps the type of a request.                         *)
LEMMA FilterType ==
    ASSUME NEW from \in CfgData, NEW d, NEW o
    PROVE  ipc_request_filter(from, d, o) \in CfgData
<1> DEFINE disableds == {e \in from.disableds : /\ e.name \notin o
                           /\ \A c \in d : ~cfg_disabled_cond_with_name_desc(c, e.name)}
<1>1. disableds \in SUBSET DisabledEntries
  BY DEF CfgData
<1>2. ipc_request_filter(from, d, o) = [from EXCEPT !.disableds = disableds]
  BY DEF ipc_request_filter
<1> HIDE DEF disableds
<1> QED BY <1>1, <1>2 DEF CfgData

(* The states that g_cfg_file_init_read leaves satisfy the invariant.      *)
LEMMA InitIInv == Init => IInv
<1> SUFFICES ASSUME Init PROVE IInv
  OBVIOUS
<1>1. disk \in [Paths -> Contents]
  BY CfgFileAssumption DEF Init, Contents
<1>2. file_path \in Paths \cup {NULL}
  BY PreferredType DEF Init, resolve
<1>3. g_cfg \in CfgData /\ Fixed(g_cfg)
  <2>1. CASE file_path = NULL \/ disk[file_path] = Bad
    BY <2>1, DefaultValid DEF Init
  <2>2. CASE ~(file_path = NULL \/ disk[file_path] = Bad)
    <3>1. resolve \in {p \in Paths : disk[p] # Absent} \cup {NULL}
      BY PreferredType DEF resolve
    <3>2. file_path \in Paths /\ disk[file_path] # Absent
      BY <2>2, <3>1 DEF Init
    <3>3. disk[file_path] \in Files
      BY <1>1, <2>2, <3>2 DEF Contents
    <3> QED BY <2>2, <3>3, LoadValid DEF Init
  <2> QED BY <2>1, <2>2
<1> QED
  BY <1>1, <1>2, <1>3
  DEF Init, IInv, TypeOK, FixedCfg, WatchFollowsFile, WrittenHasEvent, EventExplained

(* --write keeps the invariant of the file, its watch and its flag.        *)
LEMMA WriteStep ==
    ASSUME IInv, g_cfg_file_write
    PROVE  /\ disk' \in [Paths -> Contents]
           /\ file_path' \in Paths \cup {NULL}
           /\ watch' = file_path'
           /\ pending' \in BOOLEAN /\ written' \in BOOLEAN
           /\ written' => pending'
           /\ pending' => written'
<1> USE DEF IInv, TypeOK
<1>1. PICK out \in [Paths -> Outcomes] :
        IF file_path # NULL /\ out[file_path] \in Reported
        THEN WriteSucceeds(out) ELSE WriteAlternative(out)
  BY DEF g_cfg_file_write
<1>2. \A o : Content(o) \in Contents
  BY WrittenType DEF Content, Contents, FixedCfg
<1>3. CASE file_path # NULL /\ out[file_path] \in Reported
  <2>1. WriteSucceeds(out)
    BY <1>1, <1>3
  <2> QED BY <1>2, <1>3, <2>1 DEF WriteSucceeds, WatchFollowsFile
<1>4. CASE ~(file_path # NULL /\ out[file_path] \in Reported)
  <2>1. WriteAlternative(out)
    BY <1>1, <1>4
  <2>2. disk' \in [Paths -> Contents]
    BY <1>2, <2>1 DEF WriteAlternative, WriteTo, Contents
  <2>3. Writable(out) \in Paths \cup {NULL}
    BY PreferredType DEF Writable
  <2> QED BY <2>1, <2>2, <2>3 DEF WriteAlternative
<1> QED BY <1>3, <1>4

(* Every step keeps the invariant.                                         *)
LEMMA NextIInv == IInv /\ [Next]_vars => IInv'
<1> SUFFICES ASSUME IInv, [Next]_vars PROVE IInv'
  OBVIOUS
<1> USE DEF IInv
<1>1. ASSUME NEW p \in Paths, NEW content \in Saved \cup {Absent}, UserSaves(p, content)
      PROVE  IInv'
  <2>1. content \in Contents
    BY CfgFileAssumption DEF Contents
  <2> QED
    BY <1>1, <2>1
    DEF UserSaves, TypeOK, FixedCfg, WatchFollowsFile, WrittenHasEvent, EventExplained
<1>2. CASE Poll
  BY <1>2
  DEF Poll, TypeOK, FixedCfg, WatchFollowsFile, WrittenHasEvent, EventExplained, fileVars
<1>3. CASE CfgDir
  <2>1. g_cfg' \in CfgData /\ Fixed(g_cfg')
    <3>1. CASE g_cfg' = g_cfg
      BY <3>1 DEF TypeOK, FixedCfg
    <3>2. CASE g_cfg' # g_cfg
      <4>1. /\ file_path # NULL /\ disk[file_path] \notin {Absent, Bad}
            /\ g_cfg' = load(disk[file_path])
        BY <1>3, <3>2 DEF CfgDir, CfgDirQuiet, CfgDirOwnWrite, CfgDirReload, g_cfg_file_reload
      <4>2. disk[file_path] \in Files
        BY <4>1 DEF TypeOK, Contents
      <4> QED BY <4>1, <4>2, LoadValid
    <3> QED BY <3>1, <3>2
  <2>2. /\ pending' \in BOOLEAN /\ written' \in BOOLEAN /\ edited' \in BOOLEAN
        /\ written' => pending'
        /\ pending' => written' \/ edited'
    <3>1. CASE CfgDirQuiet
      BY <3>1 DEF CfgDirQuiet, TypeOK, WrittenHasEvent, EventExplained
    <3>2. CASE CfgDirOwnWrite
      BY <3>2 DEF CfgDirOwnWrite, TypeOK
    <3>3. CASE CfgDirReload
      <4>1. pending' = FALSE /\ edited' = FALSE /\ written' = written /\ written = FALSE
        BY <3>3 DEF CfgDirReload, TypeOK
      <4> QED BY <4>1
    <3> QED BY <1>3, <3>1, <3>2, <3>3 DEF CfgDir
  <2>3. ready' = FALSE /\ phase' = "ipc" /\ UNCHANGED <<disk, file_path, watch, edits, requests>>
    BY <1>3 DEF CfgDir
  <2> QED
    BY <2>1, <2>2, <2>3
    DEF TypeOK, FixedCfg, WatchFollowsFile, WrittenHasEvent, EventExplained
<1>4. ASSUME NEW r \in Requests, g_cfg_process_ipc_request(r)
      PROVE  IInv'
  <2>0. r.command \in RequestCommands /\ r.cfg \in CfgData
    BY CfgFileAssumption
  <2>1. CASE r.command \in {"LIST", "REAPPLY", "GET"}
    BY <1>4, <2>1
    DEF g_cfg_process_ipc_request, MergeCommands, TypeOK, FixedCfg, WatchFollowsFile,
        WrittenHasEvent, EventExplained, fileVars
  <2>2. CASE r.command = "CFG_WRITE"
    <3>1. g_cfg_file_write /\ UNCHANGED <<g_cfg, ready, edits>> /\ edited' = FALSE
      BY <1>4, <2>2 DEF g_cfg_process_ipc_request, MergeCommands
    <3>2. /\ disk' \in [Paths -> Contents]
          /\ file_path' \in Paths \cup {NULL}
          /\ watch' = file_path'
          /\ pending' \in BOOLEAN /\ written' \in BOOLEAN
          /\ written' => pending'
          /\ pending' => written'
      BY <3>1, WriteStep
    <3>3. ~ready /\ phase' = "poll" /\ requests' \in Nat
      BY <1>4 DEF g_cfg_process_ipc_request, EventExplained, TypeOK
    <3> QED
      BY <3>1, <3>2, <3>3
      DEF TypeOK, FixedCfg, WatchFollowsFile, WrittenHasEvent, EventExplained
  <2>3. CASE r.command \in MergeCommands
    <3>1. PICK overridden \in Overridable :
            g_cfg' = cfg_merge(g_cfg, ipc_request_filter(r.cfg, g_cfg.disableds, overridden),
                               r.command)
      BY <1>4, <2>3 DEF g_cfg_process_ipc_request, MergeCommands
    <3>2. ipc_request_filter(r.cfg, g_cfg.disableds, overridden) \in CfgData
      BY <2>0, FilterType
    <3>3. g_cfg' \in CfgData /\ Fixed(g_cfg')
      BY <2>3, <3>1, <3>2, MergeValid DEF TypeOK, FixedCfg
    <3>4. UNCHANGED <<fileVars, edited, ready, edits>>
      BY <1>4, <2>3 DEF g_cfg_process_ipc_request, MergeCommands
    <3>5. ~ready /\ phase' = "poll" /\ requests' \in Nat
      BY <1>4 DEF g_cfg_process_ipc_request, EventExplained, TypeOK
    <3> QED
      BY <3>3, <3>4, <3>5
      DEF TypeOK, FixedCfg, WatchFollowsFile, WrittenHasEvent, EventExplained, fileVars
  <2> QED BY <2>0, <2>1, <2>2, <2>3 DEF RequestCommands
<1>5. CASE NoRequest
  BY <1>5
  DEF NoRequest, TypeOK, FixedCfg, WatchFollowsFile, WrittenHasEvent, EventExplained, fileVars
<1>6. CASE UNCHANGED vars
  BY <1>6
  DEF vars, TypeOK, FixedCfg, WatchFollowsFile, WrittenHasEvent, EventExplained, fileVars
<1> QED
  BY <1>1, <1>2, <1>3, <1>4, <1>5, <1>6 DEF Next

(* The invariant holds throughout.                                         *)
LEMMA Invariant == Spec => []IInv
BY InitIInv, NextIInv, PTL DEF Spec

-----------------------------------------------------------------------------
(* The theorems.                                                           *)

(* Every variable of the file and its watch keeps its type.                *)
THEOREM TypeCorrect == Spec => []TypeOK
BY Invariant, PTL DEF IInv

(* The active configuration is valid whatever is read, written and merged. *)
THEOREM AlwaysValid == Spec => []ValidCfg
<1>1. IInv => ValidCfg
  BY DEF IInv, FixedCfg, Fixed, ValidCfg
<1> QED BY <1>1, Invariant, PTL

(* The file that --write would write at any moment restores the active     *)
(* configuration.                                                          *)
THEOREM AlwaysRestores == Spec => []FileRestores
<1>1. IInv => FileRestores
  BY Restores DEF IInv, TypeOK, FixedCfg, FileRestores
<1> QED BY <1>1, Invariant, PTL

(* The watch is on the directory of the file in use.                       *)
THEOREM AlwaysWatched == Spec => []WatchFollowsFile
BY Invariant, PTL DEF IInv

(* The written flag is only set while the event of the write waits.        *)
THEOREM WrittenConsumed == Spec => []WrittenHasEvent
BY Invariant, PTL DEF IInv

(* The server never reads its own write back.                              *)
THEOREM NeverReloadsOwnWrite == Spec => OwnWriteNotReloaded
<1>1. IInv /\ [Next]_vars => [CfgDir /\ CfgDirReload => edited]_vars
  BY DEF IInv, EventExplained, CfgDirReload
<1> QED BY <1>1, Invariant, PTL DEF Spec, OwnWriteNotReloaded
=============================================================================
