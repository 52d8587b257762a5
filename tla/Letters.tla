-------------------------------- MODULE Letters --------------------------------
(***************************************************************************)
(* What an event says to whom: the handlers of identity's and commerce's   *)
(* events, the template each sends, the category that decides whether the  *)
(* reader may refuse it, and the unsubscribe link, which one service mints *)
(* and another honours. Outbox has the delivery; here is what is delivered.*)
(*                                                                         *)
(* A person's address is the person: who has none is not in `known'.       *)
(***************************************************************************)
EXTENDS Naturals, FiniteSets

CONSTANTS People, Nobody

Categories == {"ACCOUNT_SECURITY", "PURCHASE", "COURSE_ACTIVITY", "ENGAGEMENT", "PRODUCT_NEWS"}
isOptional(category) == category \in {"COURSE_ACTIVITY", "ENGAGEMENT", "PRODUCT_NEWS"}

\* The token of an unsubscribe link: its claims, and a signature of them under
\* the secret worker and API share; whoever presents it is told its claims only
\* if they are the ones that were signed.
Claims == [user : People, category : Categories]
signUnsubscribeToken(claims) ==
    [version |-> "v1", body |-> claims, signature |-> <<"v1", claims>>]
verifyUnsubscribeToken(token) ==
    IF token.version = "v1" /\ token.signature = <<"v1", token.body>> THEN token.body ELSE Nobody

\* Nobody stands for the address, the token and the claims that are null.
ASSUME LettersAssumption ==
    Nobody \notin People \cup Claims \cup {signUnsubscribeToken(claims) : claims \in Claims}

-----------------------------------------------------------------------------
(* Events. `about' is the user of aggregateId or payload.userId, `email'   *)
(* the payload's address, which commerce's events do not carry.            *)

IdentityEvents ==
    [type : {"UserRegistered", "EmailVerificationRequested", "EmailVerified",
             "PasswordResetRequested", "PasswordChanged", "RefreshReuseDetected",
             "SessionsRevoked"},
     about : People, email : People \cup {Nobody}, verified : BOOLEAN, items : {0}]

CommerceEvents ==
    [type : {"OrderPaid", "OrderRefunded", "OrderExpired"},
     about : People, email : {Nobody}, verified : {FALSE}, items : 0..1]

Events == IdentityEvents \cup CommerceEvents

-----------------------------------------------------------------------------
(* Templates and handlers.                                                 *)

\* Of a template's words, only what the link of its button gives to whoever
\* opens the letter: a credential, the order to take up again, or nothing.
Template(key, category, gives) == [key |-> key, category |-> category, gives |-> gives]
VerifyEmail     == Template("verify-email", "ACCOUNT_SECURITY", "token")
Welcome         == Template("welcome", "PRODUCT_NEWS", "nothing")
PasswordReset   == Template("password-reset", "ACCOUNT_SECURITY", "token")
PasswordChanged == Template("password-changed", "ACCOUNT_SECURITY", "nothing")
SecurityAlert   == Template("security-alert", "ACCOUNT_SECURITY", "nothing")
OrderReceipt    == Template("order-receipt", "ACCOUNT_SECURITY", "nothing")
OrderRefunded   == Template("order-refunded", "ACCOUNT_SECURITY", "nothing")
OrderExpired    == Template("order-expired", "PRODUCT_NEWS", "order")
Templates == {VerifyEmail, Welcome, PasswordReset, PasswordChanged, SecurityAlert,
              OrderReceipt, OrderRefunded, OrderExpired}

\* The registry finds a template by its key.
TemplateOf(key) == CHOOSE t \in Templates : t.key = key

Handler(name, on, template) == [name |-> name, on |-> on, template |-> template]
IdentityHandlers == {
    Handler("notification:verify-email", "EmailVerificationRequested", "verify-email"),
    Handler("notification:welcome-on-verified", "EmailVerified", "welcome"),
    Handler("notification:welcome-on-oauth-signup", "UserRegistered", "welcome"),
    Handler("notification:password-reset", "PasswordResetRequested", "password-reset"),
    Handler("notification:password-changed", "PasswordChanged", "password-changed"),
    Handler("notification:security-alert", "RefreshReuseDetected", "security-alert")}
CommerceHandlers == {
    Handler("notification:order-receipt", "OrderPaid", "order-receipt"),
    Handler("notification:order-refunded", "OrderRefunded", "order-refunded"),
    Handler("notification:order-expired", "OrderExpired", "order-expired")}
HandlersOf(e) == {h \in IdentityHandlers \cup CommerceHandlers : h.on = e.type}

\* A handler that returns before it sends is a handler that succeeded.
Concerns(h, e) ==
    /\ h.name = "notification:welcome-on-oauth-signup" => e.verified
    /\ h.name = "notification:order-expired" => e.items > 0

\* Identity's events bring the address; commerce's owner is looked up.
AddressOf(h, e, known) ==
    IF h \in IdentityHandlers THEN e.email
    ELSE IF e.about \in known THEN e.about ELSE Nobody

Letter(h, e, to) ==
    [template |-> h.template, to |-> to, user |-> e.about,
     category |-> TemplateOf(h.template).category, gives |-> TemplateOf(h.template).gives]
LettersOf(e, known) ==
    {Letter(h, e, AddressOf(h, e, known)) :
        h \in {g \in HandlersOf(e) : Concerns(g, e) /\ AddressOf(g, e, known) # Nobody}}

-----------------------------------------------------------------------------
(* Consent. NotificationPreference rows are a function on <<user,          *)
(* category>>, "none" where there is no row.                               *)

hasOptedOut(rows, user, category) == rows[<<user, category>>] = "off"
mayNotSend(letter, rows) ==
    isOptional(letter.category) /\ hasOptedOut(rows, letter.user, letter.category)

\* The worker mints a token for what may be refused, and for nothing else.
ClaimsOf(letter) == [user |-> letter.user, category |-> letter.category]
BugTokenFor(letter) == signUnsubscribeToken(ClaimsOf(letter))
unsubscribeTokenFor(letter) ==
    IF isOptional(letter.category) THEN signUnsubscribeToken(ClaimsOf(letter)) ELSE Nobody

\* The headers and the footer of the letter, both of the one token.
Links(letter) ==
    IF unsubscribeTokenFor(letter) = Nobody THEN {}
    ELSE {"footer", "List-Unsubscribe"} \X {unsubscribeTokenFor(letter)}

\* The preference centre: a row per choice, and what it shows of them.
SetPreference(rows, user, category, enabled) ==
    [rows EXCEPT ![<<user, category>>] = IF enabled THEN "on" ELSE "off"]
listFor(rows, user) ==
    [category \in {c \in Categories : isOptional(c)} |-> rows[<<user, category>>] # "off"]

\* The API follows a token: refused, and nothing changes, where it was not
\* signed or its category is not one to refuse.
Accepted(token) ==
    /\ verifyUnsubscribeToken(token) # Nobody
    /\ isOptional(verifyUnsubscribeToken(token).category)
Unsubscribed(rows, token) ==
    LET claims == verifyUnsubscribeToken(token)
    IN  IF Accepted(token) THEN SetPreference(rows, claims.user, claims.category, FALSE) ELSE rows
=============================================================================
