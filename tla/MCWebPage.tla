------------------------------ MODULE MCWebPage ------------------------------
(* A form with a box, an optional text that the box shows, and a field     *)
(* that the text shows and that has an initial value.                      *)
EXTENDS WebPage
CONSTANTS box, text, more, on, bad

MCField   == {box, text, more}
MCOffer   == [f \in MCField |-> IF f = text THEN {on, bad, None} ELSE {on, None}]
MCValid   == [f \in MCField |-> {on, None}]
MCDeps    == [f \in MCField |->
                IF f = box THEN {}
                ELSE {[g \in {IF f = text THEN box ELSE text} |-> {on}]}]
MCInitial == [f \in MCField |-> IF f = more THEN on ELSE None]
MCKeep    == {box, text}
MCDecl    == [f \in MCField |-> IF f = box THEN 1 ELSE IF f = text THEN 2 ELSE 3]
=============================================================================
