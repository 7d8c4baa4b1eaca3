------------------------------ MODULE DumpChannel ------------------------------
(* What the work queue of the vpi dumpers promises (vpi/vcd_priv.h:95-125):     *)
(* commands sent to the dumper thread are carried out one at a time, each once, *)
(* in the order they were sent.  Commands are handed over in batches: a command *)
(* that was sent is only held until its batch is published, and a published     *)
(* command is carried out whatever the sender does next.                        *)
EXTENDS Sequences, Naturals

CONSTANTS
    Item,      \* the commands
    NoItem     \* "nothing carried out yet"

VARIABLES
    held,      \* sent, in a batch the sender has not published
    chan,      \* published, not yet carried out
    out        \* the last command carried out

vars == <<held, chan, out>>

TypeOK ==
    /\ held \in Seq(Item)
    /\ chan \in Seq(Item)
    /\ out \in Item \cup {NoItem}

Init ==
    /\ held = <<>>
    /\ chan = <<>>
    /\ out = NoItem

\* The sender adds one command to the batch it is filling.
Send ==
    /\ \E i \in Item : held' = Append(held, i)
    /\ UNCHANGED <<chan, out>>

\* The sender hands the batch over as a whole, behind everything published.
Publish ==
    /\ held # <<>>
    /\ chan' = chan \o held
    /\ held' = <<>>
    /\ UNCHANGED out

\* The dumper carries out the oldest published command.
Deliver ==
    /\ chan # <<>>
    /\ out' = Head(chan)
    /\ chan' = Tail(chan)
    /\ UNCHANGED held

Next == Send \/ Publish \/ Deliver

Spec == Init /\ [][Next]_vars

FairSpec == Spec /\ WF_vars(Deliver)
================================================================================
