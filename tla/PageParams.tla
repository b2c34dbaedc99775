----------------------------- MODULE PageParams -----------------------------
(* What the container page shows, and how often it is opened.                *)
EXTENDS Naturals

CONSTANTS
    Container,          \* the containers of the list
    NoContainer,        \* nil
    MaxOpens            \* bound: how often the user opens a container

ASSUME ContainerAssumption == NoContainer \notin Container
ASSUME OpensAssumption == MaxOpens \in Nat
=============================================================================
