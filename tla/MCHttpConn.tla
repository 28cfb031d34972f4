----------------------------- MODULE MCHttpConn -----------------------------
(* HttpConn for TLC: the messages of the client. *)
EXTENDS HttpConn

Api(segments, plain) == [parts |-> <<"api">> \o segments, plain |-> plain]

Page == [parts |-> <<"page">>, plain |-> TRUE]

Message(method, path, headers, body, declared, crlf) ==
  [method |-> method, path |-> path, headers |-> headers, body |-> body,
   length |-> declared, crlf |-> crlf]

MCMessages ==
  { Message("Get", Api(<<"books", "search">>, TRUE), <<"keep">>, << >>, 0, TRUE),
    Message("Get", Api(<<"books", "7", "similar">>, FALSE), <<"close", "keep">>, << >>, 0, TRUE),
    Message("Get", Api(<<"books", "7">>, TRUE), << >>, << >>, 0, TRUE),
    Message("Post", Api(<<"orders", "7", "cancel">>, TRUE), <<"keep", "len">>, <<"x", "x">>, 2,
            TRUE),
    Message("Post", Api(<<"orders">>, TRUE), <<"len">>, <<"x", "CR", "LF">>, 3, TRUE),
    Message("Get", Page, <<"keep">>, << >>, 0, TRUE),
    Message("Patch", Api(<<"books", "7">>, TRUE), <<"keep">>, << >>, 0, TRUE),
    Message("Get", Page, << >>, << >>, 0, FALSE),
    Message("Post", Api(<<"nowhere">>, TRUE), <<"len">>, << >>, -1, TRUE),
    Message("Post", Api(<<"nowhere">>, TRUE), <<"badlen">>, <<"x">>, 1, TRUE),
    Message("Get", Api(<<"health">>, TRUE), <<"keep", "host", "host">>, << >>, 0, TRUE),
    Message("Get", Api(<<"live">>, TRUE), <<"keep", "host", "host", "host">>, << >>, 0, TRUE) }
=============================================================================
