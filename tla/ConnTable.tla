----------------------------- MODULE ConnTable -----------------------------
(***************************************************************************)
(* What a receiving agent promises about its connections to the masters'   *)
(* agents: one to each, kept until that agent ends, found by whoever looks *)
(* for it.  It promises nothing any more once one has been taken out while *)
(* another thread used them (clash).  MasterConns implements this.         *)
(***************************************************************************)
EXTENDS Sequences, SequencesExt

CONSTANT Master           \* the masters' agents

VARIABLES table,          \* the connections, oldest first
          gone,           \* agents that have ended
          clash

tvars == <<table, gone, clash>>

TInit == table = <<>> /\ gone = {} /\ clash = FALSE

Connect(m) == /\ \A i \in DOMAIN table : table[i] # m
              /\ table' = Append(table, m) /\ UNCHANGED gone

Leave(i) == /\ table[i] \in gone
            /\ table' = RemoveAt(table, i) /\ UNCHANGED gone

Ends(m) == gone' = gone \union {m} /\ table' = table

Works == \/ table' = table /\ gone' = gone
         \/ \E m \in Master : Connect(m) \/ Ends(m)
         \/ \E i \in DOMAIN table : Leave(i)

TNext == \/ ~clash /\ Works /\ clash' \in BOOLEAN
         \/ clash /\ gone \subseteq gone' /\ table' \in Seq(Master) /\ clash'

TSpec == TInit /\ [][TNext]_tvars
=============================================================================
