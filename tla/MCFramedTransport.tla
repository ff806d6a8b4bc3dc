--------------------------- MODULE MCFramedTransport ---------------------------
(***************************************************************************)
(* Payload sizes for FramedTransport with a maxFrameLength of 13 bytes: a  *)
(* channel request then has room for 3 data bytes and for an empty         *)
(* metadata section only, a PAYLOAD for 4 bytes of metadata.               *)
(***************************************************************************)
EXTENDS FramedTransport

\* A channel whose request carries an empty metadata section and two fragments of data, or more
\* metadata than it has room for (it throws); then a request-response in one frame.
SmallRequests(s) ==
  IF s = 1 THEN {<<"request_channel", <<0, 5>>>>, <<"request_channel", <<5, 3>>>>}
  ELSE {<<"request_response", <<-1, 3>>>>}

\* Metadata, then the rest of the metadata with the data.
SmallItems == {<<5, 3>>}
=============================================================================
