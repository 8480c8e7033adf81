---------------------------- MODULE MCReminders ----------------------------
(* A day of five ticks of which the first and the last are night.           *)
EXTENDS Reminders

CONSTANTS w1, w2, i1, i2

MCLevels == {3, 5}
MCDailyCap == [l \in MCLevels |-> 1]
MCGenericCap == [l \in MCLevels |-> IF l = 3 THEN 1 ELSE 2]
MCMinGap == [l \in MCLevels |-> 2]
MCItemCooldown == [l \in MCLevels |-> IF l = 3 THEN 3 ELSE 2]

Setting(d, a, l) == [digest |-> d, attention |-> a, level |-> l, generic |-> TRUE]
MCSettings == {Setting(TRUE, TRUE, 5), Setting(FALSE, FALSE, 3)}
MCDigestOnly == {Setting(FALSE, FALSE, 3), Setting(TRUE, FALSE, 3)}
=============================================================================
