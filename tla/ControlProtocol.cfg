SPECIFICATION Spec
CONSTANTS
    Clients = {"list", "stop"}
    Patient = {"list"}
    RequestSizes = {2, 3, 5}
    Responses <- SomeResponses
    RequestBuffer = 4
    ResponseBuffer = 4
    SocketBuffer = 3
INVARIANTS TypeOK ExecutedAsAsked SuccessIsWhole CompletedIsSuccess
PROPERTIES ServerReturns PatientClientsReturn
