------------------------------ MODULE MCDesktop ------------------------------
(* A child's or a parent's session beside one parent with a policy tool. *)
EXTENDS Desktop

CONSTANTS app, net, dad, window

\* Unknown apps and apps without an entry are asked about, never automatic.
ASSUME UnknownIsAsked ==
  \A doc \in Document : \A a \in Apps :
    doc[a] # "auto" => GetAppPolicy(doc, a) # "auto"
=============================================================================
