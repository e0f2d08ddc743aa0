----------------------------- MODULE MCVacation -----------------------------
(***************************************************************************)
(* Vacation over messages with one or two of the headers it looks at.       *)
(***************************************************************************)
EXTENDS Vacation

MCLower == [w \in Word \cup Dotted |->
              CASE w = "Home" -> "home" [] w = "Me" -> "me" [] w = "No" -> "no" [] OTHER -> w]

Me     == <<"me", "@", "home">>
Alias  == <<"me.too", "@", "home">>
Friend == <<"friend", "@", "away">>
Styled == <<"\"", "Me", "\"", "<", "Me", "@", "Home", ">">>
Many   == <<"friend", "@", "away", ",", " ", "me.too", "@", "Home", "(", "(", "me", ")", ")">>
Team   == <<"team", ":", "<", "@", "away", ":", "me", "@", "home", ">", ",", "friend", "@", "away", ";">>
Ends   == {<<"me", "@", "home", "(", "away">>, <<"\"", "me">>, <<"me", "@", "[", "home">>}

Make(hs, from, to) == [headers |-> hs, from |-> from, to |-> to]
To(b)              == [h \in {"to"} |-> <<b>>]
Both(h, b)         == [x \in {"to", h} |-> IF x = h THEN b ELSE <<Me>>]

MCMessage ==
  {Make(To(b), Friend, Me) : b \in {Me, Alias, Styled, Many, Team, Friend, <<"me">>,
                                     Friend \o <<"(", "me">>} \cup Ends}
  \cup {Make(To(Me), f, Me) : f \in {NULL, Me, Alias, <<"<", ">">>, <<"owner", "@", "away">>,
                                     <<"list-request", "@", "away">>, <<"friend">>} \cup Ends}
  \cup {Make(To(Me), Friend, t) : t \in {NULL, Alias, Friend, <<"Me", "@", "home">>} \cup Ends}
  \cup {Make(Both("auto-submitted", <<b>>), Friend, Me) : b \in {<<" ", "No">>, <<"yes">>, <<>>}}
  \cup {Make(Both("precedence", b), Friend, Me) : b \in {<<<<" ", "bulk">>>>, <<<<"me">>, <<"list">>>>}}
  \cup {Make(Both("precedence", <<<<"me">>>>), NULL, Me)}
  \cup {Make(Both("List-Id", <<<<"me">>>>), Friend, Me)}
  \cup {Make(To(<<"away", ")">> \o Me), Friend \o <<"(", "me">>, Me),
        Make(Both("precedence", <<<<"me">>>>), <<"junk">>, Me)}
  \cup {Make([h \in {"cc", "Resent-Bcc"} |-> IF h = "cc" THEN <<Friend, b>> ELSE <<Alias>>], Friend, Me)
          : b \in {<<"\"", "me">>, Styled}}

MCRequest == {[addresses |-> a, from |-> f] :
                a \in {<<>>, <<Me>>, <<Alias, Me>>}, f \in {NULL, Friend}}
=============================================================================
