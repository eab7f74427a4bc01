----------------------------- MODULE ControlPanel -----------------------------
(***************************************************************************)
(* The control panel, gui/pyvdm/ControlPanel.py: the Domain Manager tab    *)
(* with its details area, and the Plugin Manager tab.  Slots and the       *)
(* refresh timer run on the main thread, one after another; the timer also *)
(* runs while a dialog waits for its answer.                               *)
(*                                                                         *)
(* A configuration is its name and the plugins it enables; of the plugins, *)
(* those of the tab "Others" are shown.  The tray, the command line and    *)
(* the user change domains and plugins behind the panel's back.            *)
(***************************************************************************)
CONSTANTS Plugin, Domain, None

ASSUME PanelAssumption == None \notin Domain \union Plugin

VARIABLES
    disk,      \* of each domain, the plugins in its config.json; None: no domain
    open,      \* the name in .stat
    plugins,   \* what the plugin manager lists
    rows,      \* the domains in the table
    saved,     \* the domains written since the table was read
    selected,  \* the selected row
    asking,    \* the domain or plugin a dialog asks whether to remove
    config,    \* details.config: None (also {}) or a configuration
    name, boxes, listed,  \* the name field, the ticked plugins and those shown
    mode,      \* the details area: "hidden", "shown" or "edit"
    origin,    \* history: the domain the details were loaded from
    refused    \* history: was it refused a new name since?

details == <<config, name, boxes, mode, origin, refused>>
table == <<rows, saved, selected>>
vars == <<disk, open, plugins, table, asking, details, listed>>

Existing == {d \in Domain : disk[d] # None}
Stale == Existing # rows \/ saved \intersect Existing # {} \/ listed # plugins  \* raw_items differ

Init ==
    /\ disk \in [Domain -> {None, {}}] /\ open = None
    /\ rows = Existing /\ saved = {} /\ selected = None /\ asking = None
    /\ config = None /\ name = None /\ boxes = {} /\ mode = "hidden"
    /\ plugins \in SUBSET Plugin /\ listed = plugins
    /\ origin = None /\ refused = FALSE

(* A slot of the panel runs, which the dialog would keep from the user. *)
Slot == asking = None /\ UNCHANGED <<open, plugins, rows, listed>>

LoadFromConfig(d, enabled) ==
    /\ config' = [name |-> d, plugins |-> enabled]
    /\ name' = d /\ boxes' = enabled \intersect listed
    /\ mode' = "shown"

------------------------------------------------------------------------------
(* DMTabWidget *)

(* showDetails reads the domain again; one that is gone by now raises. *)
Select(d) ==
    /\ Slot
    /\ d \in rows /\ d # selected /\ d \in Existing
    /\ selected' = d /\ origin' = d /\ refused' = FALSE
    /\ LoadFromConfig(d, disk[d])
    /\ UNCHANGED <<disk, saved, asking>>

(* What the user does to the details leaves the domains and the table. *)
Edit == Slot /\ mode = "edit" /\ UNCHANGED <<disk, saved, selected, asking, origin, refused>>

EditDetails ==
    /\ Slot
    /\ selected # None /\ mode = "shown"
    /\ mode' = "edit"
    /\ UNCHANGED <<disk, saved, selected, asking, config, name, boxes, origin, refused>>

(* initDefaultConfig.  The button is there while no row is selected. *)
KeepsConfig == UNCHANGED config
ClearConfig == config' = None
AddDomain ==
    /\ Slot
    /\ selected = None
    /\ ClearConfig
    /\ name' = None /\ boxes' = {} /\ mode' = "edit"
    /\ origin' = None /\ refused' = FALSE
    /\ UNCHANGED <<disk, saved, selected, asking>>

Type(d) ==
    /\ Edit
    /\ name # d /\ name' = d
    /\ UNCHANGED <<config, boxes, mode>>

Toggle(n) ==
    /\ Edit
    /\ n \in listed
    /\ boxes' = IF n \in boxes THEN boxes \ {n} ELSE boxes \union {n}
    /\ UNCHANGED <<config, name, mode>>

CancelEdit ==
    /\ Edit
    /\ \/ config # None /\ LoadFromConfig(config.name, config.plugins)
       \/ config = None /\ mode' = "hidden" /\ UNCHANGED <<config, name, boxes>>

(* updateDomain.  saveConfig replaces details.config first, by {} if there *)
(* is no name.  Since no code equals True, every outcome is reported as an *)
(* error, and a new domain leaves no config even when it was created.      *)
SaveNameless ==
    /\ Edit
    /\ name = None /\ config' = None
    /\ UNCHANGED <<name, boxes, mode>>

SaveNew ==   \* create_domain
    /\ Slot
    /\ mode = "edit" /\ name # None /\ config = None
    /\ \/ name \in Existing /\ UNCHANGED <<disk, saved>>   \* DOMAIN_ALREADY_EXIST
       \/ /\ name \notin Existing
          /\ disk' = [disk EXCEPT ![name] = boxes] /\ saved' = saved \union {name}
    /\ UNCHANGED <<selected, asking, details>>

RefusesTaken(old) == old \notin Existing \/ (name # old /\ name \in Existing)
Refuses(old) == open = old \/ old \notin Existing \/ (name # old /\ name \in Existing)
SaveOld ==   \* update_domain
    /\ Slot
    /\ mode = "edit" /\ name # None /\ config # None
    /\ config' = [name |-> name, plugins |-> boxes]
    /\ \/ /\ Refuses(config.name)
          /\ refused' = (refused \/ name # config.name)
          /\ UNCHANGED <<disk, saved, origin>>
       \/ /\ ~Refuses(config.name)
          /\ disk' = [disk EXCEPT ![config.name] = None, ![name] = boxes]
          /\ saved' = saved \union {name}
          /\ origin' = name /\ UNCHANGED refused
    /\ UNCHANGED <<selected, asking, name, boxes, mode>>

(* removeDomain and uninstallPlugin keep the name while the dialog waits. *)
Ask(x) ==
    /\ Slot
    /\ x = selected \/ x \in listed
    /\ asking' = x
    /\ UNCHANGED <<disk, saved, selected, details>>

RemoveDomain ==
    /\ asking \in Domain /\ asking' = None
    /\ \/ open # asking /\ disk' = [disk EXCEPT ![asking] = None]
       \/ UNCHANGED disk      \* the answer is no, or DOMAIN_IS_OPEN
    /\ UNCHANGED <<open, plugins, table, details, listed>>

UninstallPlugin ==
    /\ asking \in Plugin /\ asking' = None
    /\ plugins' \in {plugins, plugins \ {asking}}
    /\ UNCHANGED <<disk, open, table, details, listed>>

------------------------------------------------------------------------------
(* ControlPanelWindow.refresh, by the timer: a table whose items differ is *)
(* filled again, which takes the selection away and with it the details;   *)
(* in the list of plugins every box is ticked again.                       *)
RefreshTable ==
    /\ rows' = Existing /\ saved' = {} /\ selected' = None
    /\ mode' = IF selected # None THEN "hidden" ELSE mode
TicksOnly == boxes' = listed /\ UNCHANGED listed
RefreshPlugins == listed' = plugins /\ boxes' = plugins

Refresh ==
    /\ Stale
    /\ IF Existing # rows \/ saved \intersect Existing # {}
       THEN RefreshTable ELSE UNCHANGED <<table, mode>>
    /\ IF listed # plugins THEN RefreshPlugins ELSE UNCHANGED <<listed, boxes>>
    /\ UNCHANGED <<disk, open, plugins, asking, config, name, origin, refused>>

(* Elsewhere: the tray switches and closes, others create and delete. *)
Elsewhere(d) ==
    /\ \/ d \in Existing /\ d # open /\ disk' = [disk EXCEPT ![d] = None] /\ UNCHANGED <<open, saved>>
       \/ d \notin Existing /\ disk' = [disk EXCEPT ![d] = {}] /\ saved' = saved \union {d}
          /\ UNCHANGED open
       \/ d \in Existing /\ open' = (IF open = d THEN None ELSE d) /\ UNCHANGED <<disk, saved>>
    /\ UNCHANGED <<plugins, rows, selected, asking, details, listed>>

ElsewherePlugins ==
    /\ plugins' \in (SUBSET Plugin) \ {plugins}
    /\ UNCHANGED <<disk, open, table, asking, details, listed>>

Next ==
    \/ \E d \in Domain : Select(d) \/ Elsewhere(d)
    \/ \E d \in Domain \union {None} : Type(d)
    \/ \E n \in Plugin : Toggle(n)
    \/ \E x \in Domain \union Plugin : Ask(x)
    \/ EditDetails \/ AddDomain \/ CancelEdit \/ SaveNameless \/ SaveNew \/ SaveOld
    \/ RemoveDomain \/ UninstallPlugin \/ Refresh \/ ElsewherePlugins

(* The event loop serves the timer between the clicks. *)
Spec == Init /\ [][Next]_vars /\ WF_vars(Refresh)

------------------------------------------------------------------------------
(* Properties *)

PanelTypeOK ==
    /\ disk \in [Domain -> {None} \union SUBSET Plugin] /\ open \in Domain \union {None}
    /\ rows \subseteq Domain /\ saved \subseteq Domain
    /\ plugins \subseteq Plugin
    /\ selected \in rows \union {None} /\ asking \in Domain \union Plugin \union {None}
    /\ config \in {None} \union [name : Domain, plugins : SUBSET Plugin]
    /\ name \in Domain \union {None} /\ boxes \subseteq listed
    /\ listed \subseteq Plugin /\ mode \in {"hidden", "shown", "edit"}
    /\ origin \in Domain \union {None} /\ refused \in BOOLEAN

(* What is saved goes to the domain whose details were opened: the plugins *)
(* of another domain never change, whatever was selected, added, saved or  *)
(* cancelled before and whenever the tables were filled again - unless a   *)
(* new name was refused, which leaves that name in the configuration.      *)
SavesItsOwn ==
    [][\A d \in Existing :
           disk'[d] \notin {None, disk[d]} => d = origin \/ refused]_vars

(* delete_domain and update_domain refuse the open domain: the panel never *)
(* removes, renames or rewrites the domain that is open when it acts, also *)
(* if it was opened while a dialog waited or while its details were edited.*)
OpenKept == [][open # None => disk'[open] = disk[open]]_vars

(* The timer: whatever is clicked and changed elsewhere, the tables catch  *)
(* up with the domains on disk and the plugins.                            *)
TableCatchesUp == []<>~Stale
==============================================================================
