---- MODULE MCDeviceIO ----
(* Two classes, and the controllers and devices the runs look at. *)
EXTENDS DeviceIO

CONSTANTS c1, c2

MCClient == {c1, c2}

Kind(m, s, l, w) == [mode |-> m, supports |-> s, listens |-> l, canWake |-> w]

\* Both classes support suspend, one does beside a listener that does not, or none;
\* over every kind of controller.
MCKinds == {Kind("direct", {c1, c2}, {}, TRUE), Kind("direct", {c1}, {c2}, TRUE),
            Kind("quick", {}, {}, FALSE), Kind("relay", {c1}, {c2}, TRUE)}

\* Each controller's own way of taking a transfer on a suspended device.
MCSelfKinds == [mode : {"direct", "relay"}, supports : {{c1, c2}, {c1}}, listens : {{}, {c2}},
                canWake : BOOLEAN]
====
