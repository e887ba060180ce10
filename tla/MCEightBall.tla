----------------------------- MODULE MCEightBall -----------------------------
EXTENDS EightBall

PodSet == {{"pause:3.2"}, {"pause:3.2", "pause:3.3"}}

\* One answer of each kind of the shipped configuration, and a blank one.
Shipped == {[answer |-> "Yes.", code |-> "Y"], [answer |-> "My reply is no.", code |-> "N"],
            [answer |-> "Ask again later.", code |-> "M"]}
ShippedFile == {Shipped}

\* With a blank answer added; and files with nothing but yes, with nothing, or
\* without sense.
WithBlank == Shipped \cup {[answer |-> "", code |-> "Y"]}
SomeFiles == {WithBlank, {a \in Shipped : a.code = "Y"}, {}, None}
=============================================================================
