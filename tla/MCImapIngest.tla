---------------------------- MODULE MCImapIngest ----------------------------
(* ImapIngest on three mails: the first two carry the same report, which has
   an identity; the third's report has none.                                 *)
EXTENDS ImapIngest

CONSTANTS m1, m2, m3, r1, r2, SecondMail, ThirdMail

MCMessages == {m1, m2, m3}
MCReports == {r1, r2}
MCIdentified == {r1}
MCReportOf == [m \in MCMessages |-> IF m = m3 THEN r2 ELSE r1]
MCMailKind == [m \in MCMessages |->
               CASE m = m1 -> "report" [] m = m2 -> SecondMail [] m = m3 -> ThirdMail]
=============================================================================
