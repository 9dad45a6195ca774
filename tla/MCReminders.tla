---------------------------- MODULE MCReminders ----------------------------
(* Instance of Reminders for TLC: one reminder by WhatsApp, due at 1, one    *)
(* request that cancels or removes, and one worker.                          *)
EXTENDS Reminders
CONSTANTS c1, w1
MCDue == [j \in Jobs |-> 1]
============================================================================
