---------------------------- MODULE MCOrgSessions ----------------------------
(* Settings for the runs of OrgSessions. *)
EXTENDS OrgSessions

Setting(keep, reset, dispose) ==
  [keepDb |-> keep, resetOnConnect |-> reset, disposeOnZero |-> dispose]

\* As shipped; resetting on every connection; resources dropped at zero.
AllSettings == {Setting(FALSE, FALSE, FALSE), Setting(TRUE, TRUE, FALSE),
                Setting(FALSE, FALSE, TRUE), Setting(FALSE, TRUE, FALSE)}

=============================================================================
