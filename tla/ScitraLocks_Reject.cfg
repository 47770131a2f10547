SPECIFICATION Spec
CONSTANTS
  egress = egress
  worker = worker
  Egress <- OneEgress
  Ingress <- OneWorker
  Timer = Timer
  Ui = Ui
  Rejects = TRUE
CHECK_DEADLOCK FALSE
PROPERTIES
  SubflowRejected
