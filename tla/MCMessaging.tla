---------------------------- MODULE MCMessaging ----------------------------
(***************************************************************************)
(* The small worlds in which TLC runs Messaging.                           *)
(***************************************************************************)
EXTENDS MessagingProofs, TLC

CONSTANTS a, b, c, hello, secret, photo, torn

\* a and b send each other texts.
TalkBoth == {<<a, b, hello>>, <<b, a, hello>>}
\* They are alike: the roles may be exchanged.
Alike == Permutations({a, b})
\* a sends b a burn message, b sends a an image.
TalkMixed == {<<a, b, secret>>, <<b, a, photo>>}
\* a sends b an image.
TalkImage == {<<a, b, photo>>}
\* a sends b a text or an image.
TalkAny == {<<a, b, hello>>, <<a, b, photo>>}
\* a has two partners.
TalkTwoPeers == {<<a, b, hello>>, <<a, c, hello>>}
=============================================================================
