--------------------------- MODULE MCDomainManager ---------------------------
(* Small instances of DomainManager for TLC: a domain work, the domain     *)
(* work/mail nested in it, and the forks of work.                          *)
EXTENDS DomainManager, TLC

work == <<"work">>
mail == <<"work", "mail">>
workCopy == <<"work*1">>
workDerived == <<"work", "work+1">>

TwoDomains == {work, mail}
Forks == {work, mail, workCopy, workDerived}

Within(set, list) == SelectSeq(list, LAMBDA e : e \in set)
MCCopyNames ==
    [d \in Domain |-> IF d = work THEN Within(Domain, <<workCopy>>) ELSE <<>>]
MCDeriveNames ==
    [d \in Domain |-> IF d = work THEN Within(Domain, <<workDerived>>) ELSE <<>>]

NoFaults == {}
RebootFaults == {"spawn", "reboot"}
==============================================================================
