-------------------------- MODULE ControlPanelProofs --------------------------
(***************************************************************************)
(* Proofs about ControlPanel, for every set of domains and of plugins.     *)
(*                                                                         *)
(* What ties the details area to a domain is the name in details.config:   *)
(* updateDomain passes it to update_domain as the domain to rewrite.  The  *)
(* inductive invariant says whose name that is.                            *)
(***************************************************************************)
EXTENDS ControlPanel, TLAPS

Configuration == [name : Domain, plugins : SUBSET Plugin]

(* The name in the configuration is that of the domain it was loaded from. *)
ConfigIsOwn == config # None => refused \/ config.name = origin
OpenExists == open # None => open \in Existing
PanelInv == PanelTypeOK /\ ConfigIsOwn /\ OpenExists

LEMMA Init_Inv == Init => PanelInv
<1> SUFFICES ASSUME Init PROVE PanelInv
  OBVIOUS
<1>1. PanelTypeOK
  BY DEF Init, PanelTypeOK, Existing
<1> QED BY <1>1 DEF Init, PanelInv, ConfigIsOwn, OpenExists

LEMMA Next_Types == PanelTypeOK /\ [Next]_vars => PanelTypeOK'
<1> SUFFICES ASSUME PanelTypeOK, [Next]_vars PROVE PanelTypeOK'
  OBVIOUS
<1> USE DEF PanelTypeOK, Existing
<1> USE PanelAssumption
<1>1. CASE UNCHANGED vars
  BY <1>1 DEF vars, details, table
<1>2. CASE \E d \in Domain : Select(d)
  <2>1. PICK d \in Domain : Select(d)
    BY <1>2
  <2>2. disk[d] \in SUBSET Plugin
    BY <2>1 DEF Select
  <2>3. config' \in [name : Domain, plugins : SUBSET Plugin]
    BY <2>1, <2>2 DEF Select, LoadFromConfig
  <2>4. boxes' \subseteq listed' /\ name' \in Domain /\ mode' = "shown"
    BY <2>1 DEF Select, Slot, LoadFromConfig
  <2> QED BY <2>1, <2>3, <2>4 DEF Select, Slot
<1>3. CASE \E d \in Domain : Elsewhere(d)
  <2>1. PICK d \in Domain : Elsewhere(d)
    BY <1>3
  <2>2. disk' \in [Domain -> {None} \union SUBSET Plugin]
    BY <2>1 DEF Elsewhere
  <2>3. open' \in Domain \union {None} /\ saved' \subseteq Domain
    BY <2>1 DEF Elsewhere
  <2> QED BY <2>1, <2>2, <2>3 DEF Elsewhere, details
<1>4. CASE \E d \in Domain \union {None} : Type(d)
  BY <1>4 DEF Type, Edit, Slot
<1>5. CASE \E n \in Plugin : Toggle(n)
  BY <1>5 DEF Toggle, Edit, Slot
<1>6. CASE \E x \in Domain \union Plugin : Ask(x)
  BY <1>6 DEF Ask, Slot, details
<1>7. CASE EditDetails
  BY <1>7 DEF EditDetails, Slot
<1>8. CASE AddDomain
  BY <1>8 DEF AddDomain, ClearConfig, Slot
<1>9. CASE CancelEdit
  BY <1>9 DEF CancelEdit, LoadFromConfig, Edit, Slot
<1>10. CASE SaveNameless
  BY <1>10 DEF SaveNameless, Edit, Slot
<1>11. CASE SaveNew
  BY <1>11 DEF SaveNew, Slot, details
<1>12. CASE SaveOld
  BY <1>12 DEF SaveOld, Slot
<1>13. CASE RemoveDomain
  BY <1>13 DEF RemoveDomain, details, table
<1>14. CASE UninstallPlugin
  BY <1>14 DEF UninstallPlugin, details, table
<1>15. CASE Refresh
  BY <1>15 DEF Refresh, RefreshTable, RefreshPlugins, table
<1>16. CASE ElsewherePlugins
  BY <1>16 DEF ElsewherePlugins, details, table
<1> QED BY <1>1, <1>2, <1>3, <1>4, <1>5, <1>6, <1>7, <1>8, <1>9, <1>10, <1>11, <1>12,
           <1>13, <1>14, <1>15, <1>16 DEF Next

LEMMA Next_ConfigIsOwn == PanelInv /\ [Next]_vars => ConfigIsOwn'
<1> SUFFICES ASSUME PanelInv, [Next]_vars PROVE ConfigIsOwn'
  OBVIOUS
<1> USE DEF PanelInv, PanelTypeOK, ConfigIsOwn
<1>1. CASE UNCHANGED <<config, origin, refused>>
  BY <1>1
<1>2. CASE \E d \in Domain : Select(d)
  BY <1>2 DEF Select, LoadFromConfig
<1>3. CASE AddDomain
  BY <1>3 DEF AddDomain, ClearConfig
<1>4. CASE CancelEdit
  BY <1>4 DEF CancelEdit, LoadFromConfig, Edit
<1>5. CASE SaveNameless
  BY <1>5 DEF SaveNameless
<1>6. CASE SaveOld
  BY <1>6 DEF SaveOld
<1>7. ASSUME ~(\E d \in Domain : Select(d)), ~AddDomain, ~CancelEdit, ~SaveNameless, ~SaveOld
      PROVE  UNCHANGED <<config, origin, refused>>
  BY <1>7 DEF Next, vars, details, Elsewhere, Type, Toggle, Edit, Ask, EditDetails, SaveNew,
              RemoveDomain, UninstallPlugin, Refresh, ElsewherePlugins
<1> QED BY <1>1, <1>2, <1>3, <1>4, <1>5, <1>6, <1>7

LEMMA Next_OpenExists == PanelInv /\ [Next]_vars => OpenExists' /\ (open # None => disk'[open] = disk[open])
<1> SUFFICES ASSUME PanelInv, [Next]_vars
             PROVE  OpenExists' /\ (open # None => disk'[open] = disk[open])
  OBVIOUS
<1> USE DEF PanelInv, PanelTypeOK, OpenExists, Existing
<1> USE PanelAssumption
<1>1. CASE UNCHANGED <<disk, open>>
  BY <1>1
<1>2. CASE \E d \in Domain : Elsewhere(d)
  BY <1>2 DEF Elsewhere
<1>3. CASE SaveNew
  BY <1>3 DEF SaveNew, Slot
<1>4. CASE SaveOld
  BY <1>4 DEF SaveOld, Slot, Refuses
<1>5. CASE RemoveDomain
  BY <1>5 DEF RemoveDomain
<1>6. ASSUME ~(\E d \in Domain : Elsewhere(d)), ~SaveNew, ~SaveOld, ~RemoveDomain
      PROVE  UNCHANGED <<disk, open>>
  BY <1>6 DEF Next, vars, Select, Type, Toggle, Edit, Ask, EditDetails, AddDomain, CancelEdit,
              SaveNameless, UninstallPlugin, Refresh, ElsewherePlugins, Slot
<1> QED BY <1>1, <1>2, <1>3, <1>4, <1>5, <1>6

LEMMA Next_SavesItsOwn ==
    ASSUME PanelInv, [Next]_vars, NEW d \in Existing, disk'[d] \notin {None, disk[d]}
    PROVE  d = origin \/ refused
<1> USE DEF PanelInv, PanelTypeOK, Existing
<1> USE PanelAssumption
<1>1. CASE \E e \in Domain : Elsewhere(e)
  BY <1>1 DEF Elsewhere
<1>2. CASE SaveNew
  BY <1>2 DEF SaveNew
<1>3. CASE SaveOld
  <2>1. ~Refuses(config.name) /\ config # None /\ name \in Domain
    BY <1>3 DEF SaveOld
  <2>2. disk' = [disk EXCEPT ![config.name] = None, ![name] = boxes]
    BY <1>3, <2>1 DEF SaveOld
  <2>3. d = name
    BY <2>1, <2>2
  <2>4. d = config.name
    BY <2>1, <2>3 DEF Refuses
  <2> QED BY <2>1, <2>4 DEF ConfigIsOwn
<1>4. CASE RemoveDomain
  BY <1>4 DEF RemoveDomain
<1>5. ASSUME ~(\E e \in Domain : Elsewhere(e)), ~SaveNew, ~SaveOld, ~RemoveDomain
      PROVE  UNCHANGED disk
  BY <1>5 DEF Next, vars, Select, Type, Toggle, Edit, Ask, EditDetails, AddDomain, CancelEdit,
              SaveNameless, UninstallPlugin, Refresh, ElsewherePlugins, Slot
<1> QED BY <1>1, <1>2, <1>3, <1>4, <1>5

LEMMA Next_Inv == PanelInv /\ [Next]_vars => PanelInv'
  BY Next_Types, Next_ConfigIsOwn, Next_OpenExists DEF PanelInv

(* The panel's variables have their types: a selected row is in the table, *)
(* and only plugins that are listed are ticked.                            *)
THEOREM PanelTyped == Spec => []PanelTypeOK
<1>1. PanelInv => PanelTypeOK
  BY DEF PanelInv
<1> QED BY Init_Inv, Next_Inv, <1>1, PTL DEF Spec

(* Saving rewrites no domain but the one whose details were opened, unless *)
(* a new name was refused (updateDomain, saveConfig, update_domain).       *)
THEOREM SavingStaysHome == Spec => SavesItsOwn
<1>1. PanelInv /\ [Next]_vars =>
          [\A d \in Existing : disk'[d] \notin {None, disk[d]} => d = origin \/ refused]_vars
  BY Next_SavesItsOwn
<1> QED BY Init_Inv, Next_Inv, <1>1, PTL DEF Spec, SavesItsOwn

(* The panel leaves the open domain alone, also one that was opened while  *)
(* a dialog waited (delete_domain, update_domain).                         *)
THEOREM OpenIsKept == Spec => OpenKept
<1>1. PanelInv /\ [Next]_vars => [open # None => disk'[open] = disk[open]]_vars
  BY Next_OpenExists
<1> QED BY Init_Inv, Next_Inv, <1>1, PTL DEF Spec, OpenKept
==============================================================================
