---------------------------- MODULE MC_ActionDiff ----------------------------
(* Two agents on one tab.  The page shows a button, then another element   *)
(* in front of it or a second button of the same name behind it; the       *)
(* element in front is a file input and the marker a verify waits for.     *)
EXTENDS ActionDiff
CONSTANTS a1, html, b1, b2, in, OK, NO

PageElements == {html, b1, b2, in}
PageLabel    == [e \in PageElements |-> CASE e \in {b1, b2} -> OK [] e = in -> NO [] e = html -> NoLabel]
PageSubtree  == [e \in PageElements |-> IF e = html THEN PageElements ELSE {e}]
PageDocs     == {<<html, b1>>, <<html, in, b1>>, <<html, b1, b2>>}

By(by, what) == [by |-> by, what |-> what]
Asks(op, loc, then) == [op |-> op, loc |-> loc, then |-> then, mark |-> By("role", NO)]

AllUses == {
  Asks("snapshot", By("role", OK), "reply"),    Asks("domText", By("role", OK), "reply"),
  Asks("click", By("id", 2), "snapshot"),       Asks("fill", By("role", OK), "snapshot"),
  Asks("hover", By("css", OK), "reply"),        Asks("select", By("xpath", OK), "reply"),
  Asks("upload", By("text", NO), "reply"),      Asks("drop", By("css", OK), "verify"),
  Asks("drop", By("exactText", NO), "reply"),   Asks("clickAt", By("css", 1), "reply"),
  Asks("hoverAt", By("css", 1), "reply"),       Asks("drag", By("css", 1), "reply"),
  Asks("key", By("css", 0), "reply") }
SomeUses == {Asks("snapshot", By("role", OK), "reply"), Asks("click", By("id", 2), "reply"),
             Asks("fill", By("role", OK), "reply"),     Asks("drag", By("css", 1), "reply")}
DiffedUses == {Asks("click", By("id", 2), "reply"), Asks("key", By("css", 0), "reply")}

OneOfEach == [a \in Agents |-> IF a = a1 THEN SomeUses ELSE AllUses]
OneDiffs  == [a \in Agents |-> IF a = a1 THEN DiffedUses ELSE {}]
DropOnly  == [a \in Agents |-> {Asks("drop", By("css", OK), "verify")}]
NoDiffs   == [a \in Agents |-> {}]
===============================================================================
