--------------------------- MODULE LettersProperties ---------------------------
(* What a reader of the mail may rely on (the notification handlers, the   *)
(* worker's unsubscribeTokenFor and the API's unsubscribe).                *)
EXTENDS OutboxProperties, Letters

Letterbox == UNION {LettersOf(e, People) : e \in Events}

\* A link that says "unsubscribe" does, whatever was chosen before: the API
\* accepts the token the worker minted, the letter is not sent again, the
\* preference centre shows it, and no other letter is stopped or started. A
\* letter without one is of a kind no choice can stop, as every letter is that
\* brings a credential: nobody can unsubscribe from their way back in.
LinkIsHonoured ==
    \A letter \in Letterbox : \A some \in SUBSET {p \in People \X Categories : isOptional(p[2])} :
        LET rows == [p \in People \X Categories |-> IF p \in some THEN "off" ELSE "none"]
            token == unsubscribeTokenFor(letter)
            after == Unsubscribed(rows, token)
            same(other) == other.user = letter.user /\ other.category = letter.category
        IN  IF token = Nobody THEN ~mayNotSend(letter, rows)
            ELSE /\ Accepted(token) /\ letter.gives # "token"
                 /\ mayNotSend(letter, after) /\ ~listFor(after, letter.user)[letter.category]
                 /\ \A link \in Links(letter) : Unsubscribed(rows, link[2]) = after
                 /\ \A other \in Letterbox :
                        ~same(other) => mayNotSend(other, after) = mayNotSend(other, rows)

\* Whoever the event is about is told, and nobody else: once an account is
\* verified, a credential changes or is stolen, money moves or a checkout is lost.
Silent(e) ==
    \/ e.type = "SessionsRevoked"
    \/ e.type = "UserRegistered" /\ ~e.verified
    \/ e.type = "OrderExpired" /\ e.items = 0
OwnerIsTold ==
    \A e \in Events : e.email \in {e.about, Nobody} /\ (e \in IdentityEvents => e.email # Nobody) =>
        {letter.to : letter \in LettersOf(e, People)} = IF Silent(e) THEN {} ELSE {e.about}

\* Both, whatever a message that ends PUBLISHED was about.
MailKeepsItsWord ==
    (\E m \in Messages : status[m] = "PUBLISHED") => LinkIsHonoured /\ OwnerIsTold
=============================================================================
