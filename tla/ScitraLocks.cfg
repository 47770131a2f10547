SPECIFICATION Spec
CONSTANTS
  egress = egress
  worker = worker
  Egress <- OneEgress
  Ingress <- OneWorker
  Timer = Timer
  Ui = Ui
  Rejects = FALSE
INVARIANTS
  NoDeadlock
PROPERTIES
  PacketsProcessed
