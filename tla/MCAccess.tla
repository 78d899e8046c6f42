------------------------------- MODULE MCAccess -------------------------------
EXTENDS AccessRights, TLC

CONSTANTS ada, bob, bot

\* bot is a Silicon that bob looks after.
Custody == [a \in People |-> IF a = bot THEN bob ELSE Nobody]
===============================================================================
