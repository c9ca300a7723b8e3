------------------------ MODULE MCResolutionDecisions ------------------------
(* Two events of one source.  "king" is a stage name too common to resolve, *)
(* "promo" is billed as organizer of one and as venue of the other, "fest"  *)
(* names a series, "star" is discovered elsewhere.                          *)
EXTENDS ResolutionDecisions

CONSTANTS e1, e2

Zero == [t \in Types |-> 0]

Plain(s) ==
  [normal |-> [r \in Roles |-> s], parts |-> <<>>, commaList |-> FALSE,
   strong |-> Zero, weak |-> Zero, placeholder |-> FALSE, ambiguous |-> FALSE,
   tribute |-> FALSE, generic |-> {}, digits |-> FALSE, edition |-> FALSE]

MCFacts ==
  [n \in Names |->
     CASE n = "king"  -> [Plain(n) EXCEPT !.ambiguous = TRUE]
       [] n = "promo" -> [Plain(n) EXCEPT !.weak["ORGANIZER"] = 1]
       [] n = "fest"  -> [Plain(n) EXCEPT !.edition = TRUE]
       [] OTHER       -> Plain(n)]

(* Two names written in Devanagari; of the other names and of the city     *)
(* all letters are Latin.                                                  *)
Devanagari == {"kala", "sangeet"}

MCSlug ==
  [p \in Names \cup {"", "pune"} |-> IF p \in Devanagari THEN "" ELSE p]

MCThreshold == [r \in Roles |-> IF r \in {"ARTIST", "VENUE"} THEN 80
                                ELSE IF r = "ORGANIZER" THEN 75 ELSE 70]

PageOf(e, artists, venue, organizer, title) ==
  [event |-> e, source |-> Source[e], city |-> IF venue = None THEN None ELSE "pune",
   organizer |-> organizer, title |-> title,
   performers |-> artists, venue |-> venue, schema |-> [t \in Types |-> None]]

MCSource == [e \in Events |-> "s1"]

MCPage ==
  [e \in Events |->
     CASE e = e1 -> PageOf(e, {"king"}, None, "promo", None)
       [] e = e2 -> PageOf(e, {}, "promo", None, "fest")]

(* Two organizers' names in Devanagari. *)
MCScript ==
  [e \in Events |->
     PageOf(e, {}, None, IF e = e1 THEN "kala" ELSE "sangeet", None)]
=============================================================================
